--------------------------- MODULE RequestsProofs ---------------------------
(***************************************************************************)
(* What TLC checks of requests, tokens and segments (Http, Api, Segments), *)
(* proved for any threads, any number of descriptors, any length of the    *)
(* register of reads and of a film, and any number of sleeps and tokens.   *)
(* One invariant carries all of it: whose a socket is and what travels on  *)
(* it have to be known together, as each holder acts on what it believes.  *)
(* Last, what one reply's body is when it is taken, by itself.             *)
(***************************************************************************)
EXTENDS Segments, FiniteSetTheorems, SequenceTheorems, WellFoundedInduction, TLAPS

-----------------------------------------------------------------------------
(* The invariant.                                                          *)

MaybeSock == Socks \cup {NoSock}
Askeds  == [kind : {"none", "call", "signin", "seg"}, seg : Int, token : Nat]
Sockets == [open : BOOLEAN, asked : Askeds, woken : BOOLEAN, dead : BOOLEAN]
Rcs     == {"OK", "STOPPED", "BAD_REQUEST", "NO_HOST", "NO_REPLY", "CUT"}
Reqs    == [pc : {"idle", "start", "sent", "headers", "told", "body", "off", "over"},
            asked : Askeds, pre : MaybeSock, s : MaybeSock, status : Nat, rc : Rcs,
            hears : BOOLEAN, came : Askeds]
Cancels == [pc : {"idle", "watch", "look", "wake", "woken"}, at : 0 .. ReadsMax,
            s : MaybeSock, caught : SUBSET Threads]
Calls   == [pc : {"idle", "sent", "refused", "signing", "again", "connecting"},
            retried : BOOLEAN, token : Nat, was : Nat]
Fetches == [pc : {"idle", "check", "ask", "wire", "noting", "refused", "signing"}, index : Int,
            again : BOOLEAN, token : Nat, taken : MaybeSock, pre : MaybeSock, pre_seg : Int,
            pre_epoch : Nat, torn : BOOLEAN]

HttpTypeOK ==
    /\ g_cancel \in BOOLEAN /\ g_reading \in [1 .. ReadsMax -> MaybeSock]
    /\ sock \in [Socks -> Sockets] /\ req \in [Threads -> Reqs] /\ canceller \in Cancels
ApiTypeOK ==
    /\ g_token \in Nat /\ g_user_id \in BOOLEAN /\ g_lock \in Threads \cup {Nobody}
    /\ call \in [ApiThreads -> Calls]
    /\ live \in Nat /\ issued \in Nat /\ refused \subseteq Nat
SegTypeOK ==
    /\ seg \in Fetches /\ g_next_seg \in Nat /\ staged \in [want : Int, got : Int]
    /\ epoch \in Nat /\ sleeps \in Nat /\ leaving \in BOOLEAN
RequestsTypeOK == HttpTypeOK /\ ApiTypeOK /\ SegTypeOK

Asking == {"start", "sent", "headers"}
InFlight == {"sent", "headers", "told", "body", "off"}

Kinds == {"s", "pre", "keep", "taken"}
In(k, t) ==
    CASE k = "s"     -> req[t].s
      [] k = "pre"   -> req[t].pre
      [] k = "keep"  -> IF t = feed THEN seg.pre ELSE NoSock
      [] k = "taken" -> IF t = feed THEN seg.taken ELSE NoSock

\* Where a thread may hold a socket: the request's own, the one handed to it,
\* the feed's kept ahead and the one it is taking over.  An open socket is in
\* one place of one thread, and what is in a place is open.
Owned ==
    /\ \A k, l \in Kinds, t, u \in Threads :
          In(k, t) # NoSock /\ In(k, t) = In(l, u) => k = l /\ t = u
    /\ \A s \in Socks : s \in Opened <=> \E k \in Kinds, t \in Threads : In(k, t) = s

\* Whose request is under way, and who signs in, told from the callers' side.
Busy(t) ==
    \/ t \in ApiThreads /\ call[t].pc \in {"sent", "signing", "connecting"}
    \/ t = feed /\ seg.pc \in {"wire", "noting", "signing"}
Signing(t) ==
    \/ t \in ApiThreads /\ call[t].pc \in {"signing", "connecting"}
    \/ t = feed /\ seg.pc = "signing"

\* A request is under way for the thread whose caller waits for it, and the
\* lock of the tokens is the signing thread's.
PlacesInv ==
    /\ \A t \in Threads :
          /\ req[t].pc \in InFlight <=> req[t].s # NoSock
          /\ req[t].pc # "start" => req[t].pre = NoSock
          /\ req[t].pc # "idle" <=> Busy(t)
          /\ g_lock = t <=> Signing(t)
          /\ Signing(t) => req[t].pre = NoSock
    /\ \A t \in ApiThreads : call[t].pc # "idle" => req[t].pre = NoSock
    /\ seg.taken # NoSock => seg.pc = "ask"
    /\ seg.pc = "noting" => req[feed].pc = "told" /\ seg.pre # NoSock

\* A read caught by a cancel has been woken, is about to be, or is still in the
\* register ahead of the walk.
CancelInv ==
    /\ canceller.pc \in {"look", "wake"} => canceller.at \in 1 .. ReadsMax
    /\ canceller.pc \in {"idle", "watch"} => canceller.caught = {}
    /\ \A t \in canceller.caught :
          /\ req[t].s # NoSock
          /\ \/ sock[req[t].s].woken
             \/ canceller.pc = "wake" /\ canceller.s = req[t].s
             \/ /\ canceller.pc \in {"look", "wake"}
                /\ \E i \in canceller.at .. ReadsMax :
                      /\ g_reading[i] = req[t].s
                      /\ canceller.pc = "wake" => i # canceller.at

\* What a thread's request asks: its own head, or that of the socket it was given.
Carried(t) ==
    IF req[t].pc = "start" /\ req[t].pre = NoSock THEN req[t].asked
    ELSE IF req[t].pc = "start" THEN sock[req[t].pre].asked
    ELSE sock[req[t].s].asked

HasCome(t) == req[t].pc \in {"told", "body"} \/ (req[t].pc \in {"off", "over"} /\ req[t].rc = "OK")

\* The feed's sockets carry the segment that the feed believes they do.
SegInv ==
    /\ staged.want = staged.got
    /\ seg.pc \in {"wire", "noting"} =>
          /\ req[feed].pc \in Asking => Carried(feed).kind = "seg" /\ Carried(feed).seg = seg.index
          /\ HasCome(feed) => req[feed].came.seg = seg.index
    /\ seg.taken # NoSock =>
          sock[seg.taken].asked.kind = "seg" /\ sock[seg.taken].asked.seg = seg.index
    /\ seg.pre # NoSock => sock[seg.pre].asked.kind = "seg"
    /\ seg.pre # NoSock /\ seg.pc # "noting" => sock[seg.pre].asked.seg = seg.pre_seg
    /\ seg.pc = "noting" => sock[seg.pre].asked.seg = Next(seg.index)

\* A caller that was refused was refused for its own token.
CallInv ==
    \A t \in ApiThreads :
        /\ call[t].pc = "sent" =>
              /\ req[t].pc \in Asking => Carried(t) = Asks("call", 0, call[t].token) /\ req[t].status = 0
              /\ req[t].status = 401 => call[t].token \in refused
        /\ call[t].pc = "refused" => call[t].token \in refused

\* Tokens grow: nothing held is newer than the one in force, and what a sign-in
\* is given is newer.
TokenInv ==
    /\ g_token <= issued
    /\ \A t \in ApiThreads :
          /\ call[t].token <= g_token
          /\ call[t].pc = "again" => call[t].token < g_token
          /\ call[t].pc = "sent" /\ call[t].retried => call[t].was < call[t].token
    /\ \A t \in Threads : Signing(t) =>
          /\ req[t].pc \in Asking =>
                /\ Carried(t).kind = "signin" /\ Carried(t).seg = 0 /\ req[t].status = 0
                /\ Carried(t).token # 0 => g_token < Carried(t).token /\ Carried(t).token <= issued
          /\ req[t].status = 200 => g_token < req[t].came.token /\ req[t].came.token <= issued

\* A kept socket that a sleep has killed is marked older than that sleep, except
\* when the sleep fell inside its own sending.
DeadInv ==
    /\ epoch <= sleeps /\ seg.pre_epoch <= epoch
    /\ seg.pre # NoSock /\ sock[seg.pre].dead =>
          seg.torn \/ (seg.pc # "noting" /\ seg.pre_epoch < sleeps)

RInv == RequestsTypeOK /\ Owned /\ PlacesInv /\ CancelInv /\ SegInv /\ CallInv /\ TokenInv /\ DeadInv

-----------------------------------------------------------------------------
(* Sockets and requests.                                                   *)

LEMMA TheShut == Shut \in Sockets /\ ~Shut.open /\ Nothing \in Askeds /\ ~Shut.dead
BY DEF Shut, Sockets, Askeds, Nothing

LEMMA TheAsked ==
    ASSUME NEW k \in {"call", "signin", "seg"}, NEW i \in Int, NEW n \in Nat
    PROVE  /\ Asks(k, i, n) \in Askeds
           /\ Asks(k, i, n).kind = k /\ Asks(k, i, n).seg = i /\ Asks(k, i, n).token = n
BY DEF Asks, Askeds

LEMMA ClosedIs ==
    ASSUME HttpTypeOK, NEW s \in MaybeSock, sock' = Closed(s)
    PROVE  /\ sock' \in [Socks -> Sockets] /\ Opened' = Opened \ {s}
           /\ \A r \in Socks \ {s} : sock'[r] = sock[r]
           /\ \A r \in Socks : ~sock[r].dead => ~sock'[r].dead
<1>1. CASE s = NoSock
    BY <1>1, SegmentsAssumption DEF Closed, Opened, HttpTypeOK
<1>2. CASE s # NoSock
    <2>1. s \in Socks /\ sock' = [sock EXCEPT ![s] = Shut]
        BY <1>2 DEF Closed, MaybeSock
    <2>2. sock' \in [Socks -> Sockets] /\ sock'[s] = Shut
        BY <2>1, TheShut DEF HttpTypeOK
    <2>3. \A r \in Socks \ {s} : sock'[r] = sock[r]
        BY <2>1 DEF HttpTypeOK
    <2> QED BY <2>1, <2>2, <2>3, TheShut DEF Opened
<1> QED BY <1>1, <1>2

LEMMA SentIs ==
    ASSUME HttpTypeOK, NEW s \in Socks, NEW a \in Askeds, sock' = Sent(s, a)
    PROVE  /\ sock' \in [Socks -> Sockets] /\ Opened' = Opened \cup {s}
           /\ \A r \in Socks \ {s} : sock'[r] = sock[r]
           /\ sock'[s].asked = a /\ ~sock'[s].dead
<1>1. PICK v : v = [open |-> TRUE, asked |-> a, woken |-> FALSE, dead |-> FALSE]
    OBVIOUS
<1>2. v \in Sockets /\ v.open /\ v.asked = a /\ ~v.dead
    BY <1>1 DEF Sockets
<1>3. sock' = [sock EXCEPT ![s] = v]
    BY <1>1 DEF Sent
<1> QED BY <1>2, <1>3 DEF HttpTypeOK, Opened

LEMMA GivenIs == ASSUME NEW s \in Given PROVE s \in Socks /\ s \notin Opened
BY DEF Given

\* A record with a few of its fields changed.
LEMMA ReqChanged ==
    ASSUME HttpTypeOK, NEW t \in Threads, NEW r \in Reqs, req' = [req EXCEPT ![t] = r]
    PROVE  /\ req' \in [Threads -> Reqs] /\ req'[t] = r
           /\ \A u \in Threads \ {t} : req'[u] = req[u]
BY DEF HttpTypeOK

LEMMA EndsIs ==
    ASSUME HttpTypeOK, NEW t \in Threads, NEW rc \in Rcs, req' = Ends(t, rc)
    PROVE  /\ req' \in [Threads -> Reqs]
           /\ \A u \in Threads \ {t} : req'[u] = req[u]
           /\ req'[t].pc = "over" /\ req'[t].rc = rc /\ req'[t].pre = NoSock /\ req'[t].s = NoSock
           /\ req'[t].status = req[t].status /\ req'[t].came = req[t].came
<1>1. PICK q : q = req[t]
    OBVIOUS
<1>2. q \in Reqs
    BY <1>1 DEF HttpTypeOK
<1>3. PICK r : r = [q EXCEPT !.pc = "over", !.rc = rc, !.pre = NoSock, !.s = NoSock, !.asked = Nothing]
    OBVIOUS
<1>4. /\ r \in Reqs /\ r.pc = "over" /\ r.rc = rc /\ r.pre = NoSock /\ r.s = NoSock
      /\ r.status = q.status /\ r.came = q.came
    BY <1>2, <1>3, TheShut DEF Reqs, MaybeSock
<1>5. req' = [req EXCEPT ![t] = r]
    BY <1>1, <1>3 DEF Ends, HttpTypeOK
<1> QED BY <1>1, <1>4, <1>5, ReqChanged

LEMMA BegunIs ==
    ASSUME HttpTypeOK, NEW t \in Threads, NEW a \in Askeds, NEW pre \in MaybeSock,
           NEW hears \in BOOLEAN, req' = Begun(t, a, pre, hears)
    PROVE  /\ req' \in [Threads -> Reqs]
           /\ \A u \in Threads \ {t} : req'[u] = req[u]
           /\ req'[t].pc = "start" /\ req'[t].asked = a /\ req'[t].pre = pre
           /\ req'[t].s = NoSock /\ req'[t].status = 0
<1>1. NoReq \in Reqs /\ NoReq.s = NoSock /\ NoReq.status = 0
    BY TheShut DEF NoReq, Reqs, MaybeSock, Rcs
<1>2. PICK r : r = [NoReq EXCEPT !.pc = "start", !.asked = a, !.pre = pre, !.hears = hears]
    OBVIOUS
<1>3. /\ r \in Reqs /\ r.pc = "start" /\ r.asked = a /\ r.pre = pre /\ r.s = NoSock /\ r.status = 0
    BY <1>1, <1>2 DEF Reqs
<1>4. req' = [req EXCEPT ![t] = r]
    BY <1>2 DEF Begun
<1> QED BY <1>3, <1>4, ReqChanged

LEMMA IdledIs ==
    ASSUME HttpTypeOK, NEW t \in Threads, req' = Idled(t)
    PROVE  /\ req' \in [Threads -> Reqs]
           /\ \A u \in Threads \ {t} : req'[u] = req[u]
           /\ req'[t].pc = "idle" /\ req'[t].pre = NoSock /\ req'[t].s = NoSock
<1>1. NoReq \in Reqs /\ NoReq.s = NoSock /\ NoReq.pre = NoSock /\ NoReq.pc = "idle"
    BY TheShut DEF NoReq, Reqs, MaybeSock, Rcs
<1> QED BY <1>1, ReqChanged DEF Idled

-----------------------------------------------------------------------------
(* Who owns which socket.                                                  *)

LEMMA TheIn ==
    ASSUME RequestsTypeOK, NEW k \in Kinds, NEW t \in Threads
    PROVE  /\ In(k, t) \in MaybeSock
           /\ In("s", t) = req[t].s /\ In("pre", t) = req[t].pre
           /\ In("keep", feed) = seg.pre /\ In("taken", feed) = seg.taken
<1>1. req[t] \in Reqs /\ seg \in Fetches
    BY DEF RequestsTypeOK, HttpTypeOK, SegTypeOK
<1>2. req[t].s \in MaybeSock /\ req[t].pre \in MaybeSock
      /\ seg.pre \in MaybeSock /\ seg.taken \in MaybeSock /\ NoSock \in MaybeSock
    BY <1>1 DEF Reqs, Fetches, MaybeSock
<1>3. k \in {"s", "pre", "keep", "taken"}
    BY DEF Kinds
<1> QED BY <1>2, <1>3 DEF In

LEMMA OwnedSame ==
    ASSUME Owned, Opened' = Opened,
           \A k \in Kinds, t \in Threads : In(k, t)' = In(k, t)
    PROVE  Owned'
BY DEF Owned

LEMMA OwnedLetsGo ==
    ASSUME Owned, NEW k0 \in Kinds, NEW t0 \in Threads, In(k0, t0)' = NoSock,
           \A k \in Kinds, t \in Threads : k # k0 \/ t # t0 => In(k, t)' = In(k, t),
           Opened' = Opened \ {In(k0, t0)}
    PROVE  Owned'
<1>1. \A k, l \in Kinds, t, u \in Threads :
         (In(k, t) # NoSock /\ In(k, t) = In(l, u) => k = l /\ t = u)'
    BY DEF Owned
<1>2. ASSUME NEW s \in Socks PROVE (s \in Opened <=> \E k \in Kinds, t \in Threads : In(k, t) = s)'
    <2>1. CASE s = In(k0, t0)
        <3>1. s # NoSock
            BY SegmentsAssumption
        <3> QED BY <2>1, <3>1 DEF Owned
    <2>2. CASE s # In(k0, t0)
        <3>1. s # NoSock
            BY SegmentsAssumption
        <3> QED BY <2>2, <3>1 DEF Owned
    <2> QED BY <2>1, <2>2
<1> QED BY <1>1, <1>2 DEF Owned

LEMMA OwnedGets ==
    ASSUME Owned, NEW k0 \in Kinds, NEW t0 \in Threads, NEW s0 \in Socks \ Opened,
           In(k0, t0) = NoSock, In(k0, t0)' = s0,
           \A k \in Kinds, t \in Threads : k # k0 \/ t # t0 => In(k, t)' = In(k, t),
           Opened' = Opened \cup {s0}
    PROVE  Owned'
<1>0. \A k \in Kinds, t \in Threads : In(k, t) # s0
    BY DEF Owned
<1>1. ASSUME NEW k \in Kinds, NEW l \in Kinds, NEW t \in Threads, NEW u \in Threads
      PROVE  (In(k, t) # NoSock /\ In(k, t) = In(l, u) => k = l /\ t = u)'
    <2>1. CASE k = k0 /\ t = t0
        BY <1>0, <2>1
    <2>2. CASE l = k0 /\ u = t0
        BY <1>0, <2>2
    <2>3. CASE ~(k = k0 /\ t = t0) /\ ~(l = k0 /\ u = t0)
        BY <2>3 DEF Owned
    <2> QED BY <2>1, <2>2, <2>3
<1>2. ASSUME NEW s \in Socks PROVE (s \in Opened <=> \E k \in Kinds, t \in Threads : In(k, t) = s)'
    <2>1. s # NoSock
        BY SegmentsAssumption
    <2> QED BY <2>1 DEF Owned
<1> QED BY <1>1, <1>2 DEF Owned

LEMMA OwnedMoves ==
    ASSUME Owned, NEW k0 \in Kinds, NEW k1 \in Kinds, NEW t0 \in Threads, k0 # k1,
           In(k1, t0) = NoSock, In(k0, t0)' = NoSock, In(k1, t0)' = In(k0, t0),
           \A k \in Kinds, t \in Threads : k \notin {k0, k1} \/ t # t0 => In(k, t)' = In(k, t),
           Opened' = Opened
    PROVE  Owned'
<1>1. ASSUME NEW k \in Kinds, NEW l \in Kinds, NEW t \in Threads, NEW u \in Threads
      PROVE  (In(k, t) # NoSock /\ In(k, t) = In(l, u) => k = l /\ t = u)'
    <2>1. CASE k = k1 /\ t = t0
        <3>1. CASE l = k1 /\ u = t0
            BY <2>1, <3>1
        <3>2. CASE l = k0 /\ u = t0
            BY <2>1, <3>2
        <3>3. CASE ~(l = k1 /\ u = t0) /\ ~(l = k0 /\ u = t0)
            <4>1. In(l, u)' = In(l, u)
                BY <3>3
            <4>2. In(k, t)' = In(k0, t0)
                BY <2>1
            <4>3. ~(In(k0, t0) # NoSock /\ In(k0, t0) = In(l, u))
                BY <3>3 DEF Owned
            <4> QED BY <4>1, <4>2, <4>3
        <3> QED BY <3>1, <3>2, <3>3
    <2>2. CASE l = k1 /\ u = t0
        BY <2>2 DEF Owned
    <2>3. CASE ~(k = k1 /\ t = t0) /\ ~(l = k1 /\ u = t0)
        BY <2>3 DEF Owned
    <2> QED BY <2>1, <2>2, <2>3
<1>2. ASSUME NEW s \in Socks PROVE (s \in Opened <=> \E k \in Kinds, t \in Threads : In(k, t) = s)'
    <2>1. s # NoSock
        BY SegmentsAssumption
    <2>2. CASE s = In(k0, t0)
        BY <2>1, <2>2 DEF Owned
    <2>3. CASE s # In(k0, t0)
        BY <2>1, <2>3 DEF Owned
    <2> QED BY <2>2, <2>3
<1> QED BY <1>1, <1>2 DEF Owned
-----------------------------------------------------------------------------
(* A step of a thread's own request.                                       *)

\* What a request heard, or that it goes on as it was.
Quiet(t) ==
    /\ req'[t].status = req[t].status /\ req'[t].came = req[t].came
    /\ HasCome(t)' => HasCome(t)
    /\ req'[t].pc \in Asking => req[t].pc \in Asking /\ Carried(t)' = Carried(t)
Heard(t) ==
    /\ req[t].pc = "headers" /\ req'[t].pc \notin Asking
    /\ req'[t].came = Carried(t) /\ req'[t].status \in Statuses(Carried(t))
    /\ req'[t].status = 401 /\ Carried(t).kind # "signin" => Carried(t).token \in refused'

\* Nothing moved but the thread's own request and its own socket.
Only(t) ==
    /\ req' \in [Threads -> Reqs] /\ sock' \in [Socks -> Sockets]
    /\ \A u \in Threads \ {t} : req'[u] = req[u]
    /\ \A s \in Opened : s \notin {req[t].s, req[t].pre} => sock'[s] = sock[s]

Moved(t) ==
    /\ Only(t)
    /\ req[t].pc \notin {"idle", "told", "over"} /\ req'[t].pc \notin {"idle", "start"}
    /\ req'[t].pre = NoSock /\ (req'[t].pc \in InFlight <=> req'[t].s # NoSock)
    /\ Quiet(t) \/ Heard(t)

LEMMA TheReq ==
    ASSUME RInv, NEW t \in Threads
    PROVE  /\ req[t] \in Reqs /\ req[t].s \in MaybeSock /\ req[t].pre \in MaybeSock
           /\ req[t].asked \in Askeds /\ req[t].came \in Askeds
           /\ req[t].status \in Nat /\ req[t].rc \in Rcs
           /\ req[t].pc \in InFlight <=> req[t].s # NoSock
           /\ req[t].pc # "start" => req[t].pre = NoSock
           /\ req[t].s # NoSock => req[t].s \in Opened
           /\ req[t].pre # NoSock => req[t].pre \in Opened
<1>1. req[t] \in Reqs
    BY DEF RInv, RequestsTypeOK, HttpTypeOK
<1>2. /\ req[t].s \in MaybeSock /\ req[t].pre \in MaybeSock
      /\ req[t].asked \in Askeds /\ req[t].came \in Askeds
      /\ req[t].status \in Nat /\ req[t].rc \in Rcs
    BY <1>1 DEF Reqs
<1>3. /\ req[t].pc \in InFlight <=> req[t].s # NoSock
      /\ req[t].pc # "start" => req[t].pre = NoSock
    BY DEF RInv, PlacesInv
<1>4. In("s", t) = req[t].s /\ In("pre", t) = req[t].pre /\ "s" \in Kinds /\ "pre" \in Kinds
    BY DEF In, Kinds
<1>5. ASSUME NEW k \in Kinds, In(k, t) \in MaybeSock, In(k, t) # NoSock PROVE In(k, t) \in Opened
    BY <1>5 DEF RInv, Owned, MaybeSock
<1> QED BY <1>1, <1>2, <1>3, <1>4, <1>5

\* The places of the other threads, and the feed's own two, do not move.
LEMMA OtherPlaces ==
    ASSUME RInv, NEW t \in Threads, seg' = seg, NEW k \in Kinds, NEW u \in Threads,
           \A w \in Threads \ {t} : req'[w] = req[w],
           u # t \/ k \in {"keep", "taken"}
    PROVE  In(k, u)' = In(k, u)
BY DEF In, Kinds

LEMMA StepGoesOn ==
    ASSUME RInv, NEW t \in Threads, NEW r \in Reqs, req' = [req EXCEPT ![t] = r],
           UNCHANGED <<sock, seg>>,
           req[t].pc \in {"sent", "headers", "body"}, r.pc \in InFlight,
           r.s = req[t].s, r.pre = req[t].pre,
           \/ /\ r.status = req[t].status /\ r.came = req[t].came
              /\ \/ req[t].pc \in Asking /\ r.pc \in Asking
                 \/ req[t].pc = "body" /\ r.pc = "off"
                 \/ r.pc = "off" /\ r.rc # "OK"
           \/ /\ req[t].pc = "headers" /\ r.pc \in {"told", "body"}
              /\ r.came = sock[req[t].s].asked /\ r.status \in Statuses(r.came)
              /\ r.status = 401 /\ r.came.kind # "signin" => r.came.token \in refused'
    PROVE  Moved(t) /\ Owned'
<1>1. req' \in [Threads -> Reqs] /\ req'[t] = r /\ \A u \in Threads \ {t} : req'[u] = req[u]
    BY ReqChanged DEF RInv, RequestsTypeOK
<1>2. sock' \in [Socks -> Sockets]
    BY DEF RInv, RequestsTypeOK, HttpTypeOK
<1>3. req[t].s # NoSock /\ req[t].pre = NoSock
    BY TheReq DEF InFlight
<1>4. Quiet(t) \/ Heard(t)
    <2>1. Carried(t) = sock[req[t].s].asked /\ (r.pc \in Asking => Carried(t)' = sock[r.s].asked)
        BY <1>1, <1>3 DEF Carried, Asking, InFlight
    <2>2. CASE req[t].pc \in Asking /\ r.pc \in Asking
        BY <1>1, <2>1, <2>2 DEF Quiet, HasCome, Asking, Heard
    <2>3. CASE r.pc = "off"
        BY <1>1, <2>1, <2>3 DEF Quiet, HasCome, Asking, Heard
    <2>4. CASE req[t].pc = "headers" /\ r.pc \in {"told", "body"}
        BY <1>1, <2>1, <2>4 DEF Heard, Asking
    <2> QED BY <2>2, <2>3, <2>4
<1>5. Moved(t)
    BY <1>1, <1>2, <1>3, <1>4 DEF Moved, Only, InFlight
<1>6. ASSUME NEW k \in Kinds, NEW u \in Threads PROVE In(k, u)' = In(k, u)
    <2>1. CASE u # t \/ k \in {"keep", "taken"}
        BY <1>1, <2>1, OtherPlaces
    <2>2. CASE u = t /\ k \in {"s", "pre"}
        BY <1>1, <2>2 DEF In
    <2> QED BY <2>1, <2>2 DEF Kinds
<1>7. Opened' = Opened
    BY DEF Opened
<1> QED BY <1>5, <1>6, <1>7, OwnedSame DEF RInv
LEMMA RegistersMoves ==
    ASSUME RInv, NEW t \in Threads, HttpRegisters(t), UNCHANGED seg
    PROVE  Moved(t) /\ Owned'
<1>1. req[t] \in Reqs /\ req[t].pc = "sent" /\ req' = [req EXCEPT ![t].pc = "headers"] /\ sock' = sock
    BY TheReq DEF HttpRegisters
<1>2. PICK q : q = req[t]
    OBVIOUS
<1>3. PICK r : r = [q EXCEPT !.pc = "headers"]
    OBVIOUS
<1>4. r \in Reqs /\ r.pc = "headers" /\ r.s = q.s /\ r.pre = q.pre /\ r.status = q.status /\ r.came = q.came
    BY <1>1, <1>2, <1>3 DEF Reqs
<1>5. req' = [req EXCEPT ![t] = r]
    BY <1>1, <1>2, <1>3
<1> QED BY <1>1, <1>2, <1>4, <1>5, StepGoesOn DEF InFlight, Asking

LEMMA ReadsMove ==
    ASSUME RInv, NEW t \in Threads, UNCHANGED seg, NEW rc \in Rcs,
           req' = [req EXCEPT ![t] = [@ EXCEPT !.pc = "off", !.rc = rc]], UNCHANGED sock,
           req[t].pc = "body" \/ (req[t].pc = "headers" /\ rc # "OK")
    PROVE  Moved(t) /\ Owned'
<1>1. PICK q : q = req[t]
    OBVIOUS
<1>2. PICK r : r = [q EXCEPT !.pc = "off", !.rc = rc]
    OBVIOUS
<1>3. q \in Reqs
    BY <1>1, TheReq
<1>4. /\ r \in Reqs /\ r.pc = "off" /\ r.rc = rc /\ r.s = q.s /\ r.pre = q.pre
      /\ r.status = q.status /\ r.came = q.came
    BY <1>2, <1>3 DEF Reqs
<1>5. req' = [req EXCEPT ![t] = r]
    BY <1>1, <1>2 DEF RInv, RequestsTypeOK, HttpTypeOK
<1> QED BY <1>1, <1>4, <1>5, StepGoesOn DEF InFlight, Asking

LEMMA AnswersMoves ==
    ASSUME RInv, NEW t \in Threads, ServerAnswers(t), UNCHANGED seg
    PROVE  Moved(t) /\ Owned'
<1>1. PICK a : a = sock[req[t].s].asked
    OBVIOUS
<1>2. PICK st \in Statuses(a) :
         /\ HttpHeaders(t, st)
         /\ refused' = IF st = 401 /\ a.kind # "signin" THEN refused \cup {a.token} ELSE refused
    BY <1>1 DEF ServerAnswers
<1>3. req[t].pc = "headers" /\ UNCHANGED sock
    BY <1>2 DEF HttpHeaders
<1>4. st \in Nat
    <2>1. st \in {200, 401, 404}
        BY <1>2 DEF Statuses
    <2> QED BY <2>1
<1>5. a \in Askeds
    <2>1. req[t].s \in Socks
        BY <1>3, TheReq DEF InFlight, MaybeSock
    <2>2. sock[req[t].s] \in Sockets
        BY <2>1 DEF RInv, RequestsTypeOK, HttpTypeOK
    <2> QED BY <1>1, <2>2 DEF Sockets
<1>6. PICK q : q = req[t]
    OBVIOUS
<1>7. PICK pc \in {"told", "body"} : pc = IF q.hears /\ st = 200 THEN "told" ELSE "body"
    OBVIOUS
<1>8. PICK r : r = [q EXCEPT !.status = st, !.came = a, !.pc = pc]
    OBVIOUS
<1>9. q \in Reqs
    BY <1>6, TheReq
<1>10. /\ r \in Reqs /\ r.pc = pc /\ r.s = q.s /\ r.pre = q.pre
       /\ r.status = st /\ r.came = a
    BY <1>4, <1>5, <1>8, <1>9 DEF Reqs
<1>11. req' = [req EXCEPT ![t] = r]
    <2>1. req' = [req EXCEPT ![t] = [@ EXCEPT !.status = st, !.came = sock[req[t].s].asked,
                         !.pc = IF req[t].hears /\ st = 200 THEN "told" ELSE "body"]]
        BY <1>2 DEF HttpHeaders
    <2>2. pc = IF req[t].hears /\ st = 200 THEN "told" ELSE "body"
        BY <1>6, <1>7
    <2>3. req' = [req EXCEPT ![t] = [@ EXCEPT !.status = st, !.came = a, !.pc = pc]]
        BY <1>1, <2>1, <2>2, Zenon
    <2> QED BY <1>6, <1>8, <2>3 DEF RInv, RequestsTypeOK, HttpTypeOK
<1>12. r.pc \in InFlight /\ r.pc \in {"told", "body"}
    BY <1>10 DEF InFlight
<1>13. r.came = sock[req[t].s].asked /\ r.status \in Statuses(r.came)
    BY <1>1, <1>2, <1>10
<1>14. r.status = 401 /\ r.came.kind # "signin" => r.came.token \in refused'
    BY <1>2, <1>10
<1> QED BY <1>3, <1>6, <1>10, <1>11, <1>12, <1>13, <1>14, StepGoesOn
LEMMA DropsMove ==
    ASSUME RInv, NEW t \in Threads, UNCHANGED seg, NEW rc \in Rcs \ {"OK"}, req[t].pc = "start",
           sock' = Closed(req[t].pre), req' = Ends(t, rc)
    PROVE  Moved(t) /\ Owned'
<1>1. /\ req' \in [Threads -> Reqs] /\ \A u \in Threads \ {t} : req'[u] = req[u]
      /\ req'[t].pc = "over" /\ req'[t].rc = rc /\ req'[t].pre = NoSock /\ req'[t].s = NoSock
      /\ req'[t].status = req[t].status /\ req'[t].came = req[t].came
    BY EndsIs DEF RInv, RequestsTypeOK
<1>2. req[t].pre \in MaybeSock /\ req[t].s = NoSock
    BY TheReq DEF InFlight
<1>3. /\ sock' \in [Socks -> Sockets] /\ Opened' = Opened \ {req[t].pre}
      /\ \A s \in Socks \ {req[t].pre} : sock'[s] = sock[s]
    BY <1>2, ClosedIs DEF RInv, RequestsTypeOK
<1>4. Moved(t)
    BY <1>1, <1>3 DEF Moved, Only, Quiet, HasCome, Asking, InFlight, Opened
<1>5. In("pre", t) = req[t].pre /\ In("pre", t)' = NoSock /\ In("s", t)' = In("s", t) /\ "pre" \in Kinds
    BY <1>1, <1>2 DEF In, Kinds
<1>6. ASSUME NEW k \in Kinds, NEW u \in Threads, k # "pre" \/ u # t PROVE In(k, u)' = In(k, u)
    <2>1. CASE u # t \/ k \in {"keep", "taken"}
        BY <1>1, <2>1, OtherPlaces
    <2>2. CASE u = t /\ k = "s"
        BY <1>5, <2>2
    <2> QED BY <1>6, <2>1, <2>2 DEF Kinds
<1>7. Owned'
    BY <1>3, <1>5, <1>6, OwnedLetsGo DEF RInv
<1> QED BY <1>4, <1>7

LEMMA ReusesMoves ==
    ASSUME RInv, NEW t \in Threads, HttpReuses(t), UNCHANGED seg
    PROVE  Moved(t) /\ Owned'
<1>1. PICK q : q = req[t]
    OBVIOUS
<1>2. PICK r : r = [q EXCEPT !.pc = "sent", !.s = q.pre, !.pre = NoSock, !.asked = Nothing]
    OBVIOUS
<1>3. q \in Reqs /\ q.pc = "start" /\ q.pre # NoSock /\ q.pre \in MaybeSock /\ q.s = NoSock
    BY <1>1, TheReq DEF HttpReuses, InFlight
<1>4. /\ r \in Reqs /\ r.pc = "sent" /\ r.s = q.pre /\ r.pre = NoSock
      /\ r.status = q.status /\ r.came = q.came
    BY <1>2, <1>3, TheShut DEF Reqs, MaybeSock
<1>5. req' = [req EXCEPT ![t] = r] /\ sock' = sock
    BY <1>1, <1>2 DEF HttpReuses, RInv, RequestsTypeOK, HttpTypeOK
<1>6. req' \in [Threads -> Reqs] /\ req'[t] = r /\ \A u \in Threads \ {t} : req'[u] = req[u]
    BY <1>4, <1>5, ReqChanged DEF RInv, RequestsTypeOK
<1>7. Carried(t)' = Carried(t)
    BY <1>1, <1>3, <1>4, <1>5, <1>6 DEF Carried
<1>8. sock' \in [Socks -> Sockets] /\ Opened' = Opened
    BY <1>5 DEF Opened, RInv, RequestsTypeOK, HttpTypeOK
<1>9. Moved(t)
    BY <1>1, <1>3, <1>4, <1>5, <1>6, <1>7, <1>8 DEF Moved, Only, Quiet, HasCome, Asking, InFlight
<1>10. /\ In("s", t) = NoSock /\ In("pre", t)' = NoSock /\ In("s", t)' = In("pre", t)
       /\ "s" \in Kinds /\ "pre" \in Kinds
    BY <1>1, <1>3, <1>4, <1>6 DEF In, Kinds
<1>11. ASSUME NEW k \in Kinds, NEW u \in Threads, k \notin {"pre", "s"} \/ u # t
       PROVE  In(k, u)' = In(k, u)
    BY <1>6, <1>11, OtherPlaces DEF Kinds
<1>12. Owned'
    BY <1>8, <1>10, <1>11, OwnedMoves DEF RInv
<1> QED BY <1>9, <1>12

LEMMA OpensMoves ==
    ASSUME RInv, NEW t \in Threads, HttpOpens(t), UNCHANGED seg
    PROVE  Moved(t) /\ Owned'
<1>0. req[t].pc = "start" /\ req[t].pre = NoSock /\ req[t].s = NoSock /\ req[t].asked \in Askeds
    BY TheReq DEF HttpOpens, InFlight
<1>a. CASE req' = Ends(t, "NO_HOST") /\ UNCHANGED sock
    <2>1. sock' = Closed(req[t].pre)
        BY <1>0, <1>a DEF Closed
    <2>2. "NO_HOST" \in Rcs \ {"OK"}
        BY DEF Rcs
    <2> QED BY <1>0, <1>a, <2>1, <2>2, DropsMove
<1>b. ASSUME NEW s \in Given, sock' = Sent(s, req[t].asked),
             req' = [req EXCEPT ![t] = [@ EXCEPT !.pc = "sent", !.s = s, !.asked = Nothing]]
      PROVE  Moved(t) /\ Owned'
    <2>1. PICK q : q = req[t]
        OBVIOUS
    <2>2. PICK r : r = [q EXCEPT !.pc = "sent", !.s = s, !.asked = Nothing]
        OBVIOUS
    <2>3. q \in Reqs /\ s \in Socks \ Opened /\ s # NoSock
        BY <2>1, TheReq, GivenIs, SegmentsAssumption
    <2>4. /\ r \in Reqs /\ r.pc = "sent" /\ r.s = s /\ r.pre = q.pre
          /\ r.status = q.status /\ r.came = q.came
        BY <2>2, <2>3, TheShut DEF Reqs, MaybeSock
    <2>5. req' = [req EXCEPT ![t] = r]
        BY <1>b, <2>1, <2>2 DEF RInv, RequestsTypeOK, HttpTypeOK
    <2>6. req' \in [Threads -> Reqs] /\ req'[t] = r /\ \A u \in Threads \ {t} : req'[u] = req[u]
        BY <2>4, <2>5, ReqChanged DEF RInv, RequestsTypeOK
    <2>7. /\ sock' \in [Socks -> Sockets] /\ Opened' = Opened \cup {s}
          /\ \A r1 \in Socks \ {s} : sock'[r1] = sock[r1]
          /\ sock'[s].asked = req[t].asked
        BY <1>0, <1>b, <2>3, SentIs DEF RInv, RequestsTypeOK
    <2>8. Carried(t)' = Carried(t)
        BY <1>0, <2>4, <2>6, <2>7 DEF Carried
    <2>9. \A s1 \in Opened : sock'[s1] = sock[s1]
        BY <2>3, <2>7 DEF Opened
    <2>10. Moved(t)
        BY <1>0, <2>1, <2>3, <2>4, <2>6, <2>7, <2>8, <2>9
        DEF Moved, Only, Quiet, HasCome, Asking, InFlight
    <2>11. /\ In("s", t) = NoSock /\ In("s", t)' = s /\ In("pre", t)' = In("pre", t)
           /\ "s" \in Kinds
        BY <1>0, <2>1, <2>4, <2>6 DEF In, Kinds
    <2>12. ASSUME NEW k \in Kinds, NEW u \in Threads, k # "s" \/ u # t PROVE In(k, u)' = In(k, u)
        <3>1. CASE u # t \/ k \in {"keep", "taken"}
            BY <2>6, <3>1, OtherPlaces
        <3>2. CASE u = t /\ k = "pre"
            BY <2>11, <3>2
        <3> QED BY <2>12, <3>1, <3>2 DEF Kinds
    <2>13. Owned'
        BY <2>3, <2>7, <2>11, <2>12, OwnedGets DEF RInv
    <2> QED BY <2>10, <2>13
<1> QED BY <1>a, <1>b DEF HttpOpens

LEMMA ClosesMoves ==
    ASSUME RInv, NEW t \in Threads, HttpCloses(t), UNCHANGED seg
    PROVE  Moved(t) /\ Owned'
<1>0. req[t].pc = "off" /\ req[t].s # NoSock /\ req[t].s \in MaybeSock /\ req[t].pre = NoSock
      /\ req[t].rc \in Rcs
    BY TheReq DEF HttpCloses, InFlight
<1>1. /\ req' \in [Threads -> Reqs] /\ \A u \in Threads \ {t} : req'[u] = req[u]
      /\ req'[t].pc = "over" /\ req'[t].rc = req[t].rc /\ req'[t].pre = NoSock /\ req'[t].s = NoSock
      /\ req'[t].status = req[t].status /\ req'[t].came = req[t].came
    BY <1>0, EndsIs DEF HttpCloses, RInv, RequestsTypeOK
<1>3. /\ sock' \in [Socks -> Sockets] /\ Opened' = Opened \ {req[t].s}
      /\ \A s \in Socks \ {req[t].s} : sock'[s] = sock[s]
    BY <1>0, ClosedIs DEF HttpCloses, RInv, RequestsTypeOK
<1>4. Moved(t)
    BY <1>0, <1>1, <1>3 DEF Moved, Only, Quiet, HasCome, Asking, InFlight, Opened
<1>5. /\ In("s", t) = req[t].s /\ In("s", t)' = NoSock /\ In("pre", t)' = In("pre", t)
      /\ "s" \in Kinds
    BY <1>0, <1>1 DEF In, Kinds
<1>6. ASSUME NEW k \in Kinds, NEW u \in Threads, k # "s" \/ u # t PROVE In(k, u)' = In(k, u)
    <2>1. CASE u # t \/ k \in {"keep", "taken"}
        BY <1>1, <2>1, OtherPlaces
    <2>2. CASE u = t /\ k = "pre"
        BY <1>5, <2>2
    <2> QED BY <1>6, <2>1, <2>2 DEF Kinds
<1>7. Owned'
    BY <1>3, <1>5, <1>6, OwnedLetsGo DEF RInv
<1> QED BY <1>4, <1>7
-----------------------------------------------------------------------------
(* The register and the cancel that walks it.                              *)

LEMMA FirstFree ==
    ASSUME NEW S, S \subseteq Nat, S # {}
    PROVE  \E i \in S : \A j \in S : i <= j
<1>1. PICK i \in S : \A j \in S : ~(<<j, i>> \in OpToRel(<, Nat))
    BY WFMin, NatLessThanWellFounded
<1>2. ASSUME NEW j \in S PROVE i <= j
    <2>1. ~(j < i)
        BY <1>1 DEF OpToRel
    <2> QED BY <2>1
<1> QED BY <1>2

LEMMA ReadingOn ==
    ASSUME HttpTypeOK, NEW t \in Threads, req[t].s \in MaybeSock, g_reading' = reading_on(t)
    PROVE  /\ g_reading' \in [1 .. ReadsMax -> MaybeSock]
           /\ \A i \in 1 .. ReadsMax : g_reading[i] # NoSock => g_reading'[i] = g_reading[i]
<1>1. CASE ~\E i \in 1 .. ReadsMax : g_reading[i] = NoSock
    BY <1>1 DEF reading_on, HttpTypeOK
<1>2. CASE \E i \in 1 .. ReadsMax : g_reading[i] = NoSock
    <2>1. PICK S : S = {i \in 1 .. ReadsMax : g_reading[i] = NoSock}
        OBVIOUS
    <2>2. PICK i \in S : \A j \in S : i <= j
        BY <1>2, <2>1, FirstFree
    <2>3. \A j \in 1 .. i - 1 : g_reading[j] # NoSock
        <3>1. i \in 1 .. ReadsMax /\ ReadsMax \in Nat
            BY <2>1, SegmentsAssumption
        <3> SUFFICES ASSUME NEW j \in 1 .. i - 1, g_reading[j] = NoSock PROVE FALSE
            OBVIOUS
        <3>2. j \in S
            BY <2>1, <3>1
        <3> QED BY <2>2, <3>1, <3>2
    <2>4. PICK n : n = CHOOSE l \in 1 .. ReadsMax :
                          g_reading[l] = NoSock /\ \A j \in 1 .. l - 1 : g_reading[j] # NoSock
        OBVIOUS
    <2>5. n \in 1 .. ReadsMax /\ g_reading[n] = NoSock
        BY <2>1, <2>2, <2>3, <2>4
    <2>6. g_reading' = [g_reading EXCEPT ![n] = req[t].s]
        BY <1>2, <2>4 DEF reading_on
    <2> QED BY <2>5, <2>6 DEF HttpTypeOK
<1> QED BY <1>1, <1>2

LEMMA ReadingOff ==
    ASSUME HttpTypeOK, NEW t \in Threads, g_reading' = reading_off(t)
    PROVE  /\ g_reading' \in [1 .. ReadsMax -> MaybeSock]
           /\ \A i \in 1 .. ReadsMax : g_reading[i] # req[t].s => g_reading'[i] = g_reading[i]
BY DEF reading_off, HttpTypeOK, MaybeSock

\* Two threads' sockets are two sockets.
LEMMA Apart ==
    ASSUME RInv, NEW t \in Threads, NEW u \in Threads \ {t}, req[u].s # NoSock
    PROVE  /\ req[u].s \in Opened
           /\ req[u].s # req[t].s /\ req[u].s # req[t].pre
<1>1. In("s", u) = req[u].s /\ In("s", t) = req[t].s /\ In("pre", t) = req[t].pre
      /\ "s" \in Kinds /\ "pre" \in Kinds
    BY DEF In, Kinds
<1> QED BY <1>1, TheReq DEF RInv, Owned

\* The cancel stands still: what it caught is still registered before it, or woken.
LEMMA CancelWaits ==
    ASSUME RInv, canceller'.pc = canceller.pc, canceller'.at = canceller.at,
           canceller'.s = canceller.s, canceller'.caught \subseteq canceller.caught,
           \A u \in canceller'.caught :
              /\ req'[u].s = req[u].s
              /\ sock[req[u].s].woken => sock'[req[u].s].woken
              /\ \A i \in 1 .. ReadsMax : g_reading[i] = req[u].s => g_reading'[i] = g_reading[i]
    PROVE  CancelInv'
<1>0. CancelInv /\ canceller \in Cancels /\ ReadsMax \in Nat
    BY SegmentsAssumption DEF RInv, RequestsTypeOK, HttpTypeOK
<1>1. canceller'.pc \in {"look", "wake"} => canceller'.at \in 1 .. ReadsMax
    BY <1>0 DEF CancelInv
<1>2. canceller'.pc \in {"idle", "watch"} => canceller'.caught = {}
    BY <1>0 DEF CancelInv
<1>3. ASSUME NEW u \in canceller'.caught
      PROVE  /\ req'[u].s # NoSock
             /\ \/ sock'[req'[u].s].woken
                \/ canceller'.pc = "wake" /\ canceller'.s = req'[u].s
                \/ /\ canceller'.pc \in {"look", "wake"}
                   /\ \E i \in canceller'.at .. ReadsMax :
                         /\ g_reading'[i] = req'[u].s
                         /\ canceller'.pc = "wake" => i # canceller'.at
    <2>1. req[u].s # NoSock /\ req'[u].s = req[u].s /\ u \in canceller.caught
        BY <1>0 DEF CancelInv
    <2>2. CASE sock[req[u].s].woken
        BY <2>1, <2>2
    <2>3. CASE canceller.pc = "wake" /\ canceller.s = req[u].s
        BY <2>1, <2>3
    <2>4. CASE /\ canceller.pc \in {"look", "wake"}
               /\ \E i \in canceller.at .. ReadsMax :
                     g_reading[i] = req[u].s /\ (canceller.pc = "wake" => i # canceller.at)
        <3>1. PICK i \in canceller.at .. ReadsMax :
                     g_reading[i] = req[u].s /\ (canceller.pc = "wake" => i # canceller.at)
            BY <2>4
        <3>2. canceller.at \in 1 .. ReadsMax /\ i \in 1 .. ReadsMax
            BY <1>0, <2>4 DEF CancelInv
        <3>3. g_reading'[i] = req'[u].s
            BY <2>1, <3>1, <3>2
        <3> QED BY <2>1, <2>4, <3>1, <3>3
    <2> QED BY <1>0, <2>1, <2>2, <2>3, <2>4 DEF CancelInv
<1> QED BY <1>1, <1>2, <1>3 DEF CancelInv
LEMMA MovedCancel ==
    ASSUME RInv, NEW t \in Threads, Moved(t), UNCHANGED <<canceller, g_cancel>>,
           req[t].s # NoSock => req'[t].s = req[t].s /\ sock' = sock,
           g_reading' \in [1 .. ReadsMax -> MaybeSock],
           \A i \in 1 .. ReadsMax : g_reading[i] # NoSock => g_reading'[i] = g_reading[i]
    PROVE  HttpTypeOK' /\ CancelInv'
<1>1. HttpTypeOK'
    BY DEF Moved, Only, RInv, RequestsTypeOK, HttpTypeOK
<1>2. canceller.caught \subseteq Threads
    BY DEF RInv, RequestsTypeOK, HttpTypeOK, Cancels
<1>3. ASSUME NEW u \in canceller.caught
      PROVE  /\ req'[u].s = req[u].s /\ req[u].s # NoSock
             /\ sock[req[u].s].woken => sock'[req[u].s].woken
    <2>1. u \in Threads /\ req[u].s # NoSock
        BY <1>2 DEF RInv, CancelInv
    <2>2. CASE u = t
        BY <2>1, <2>2
    <2>3. CASE u # t
        BY <2>1, <2>3, Apart DEF Moved, Only
    <2> QED BY <2>1, <2>2, <2>3
<1>4. CancelInv'
    BY <1>3, CancelWaits
<1> QED BY <1>1, <1>4

LEMMA ClosesCancel ==
    ASSUME RInv, NEW t \in Threads, Moved(t), HttpCloses(t)
    PROVE  HttpTypeOK' /\ CancelInv'
<1>1. canceller \in Cancels /\ canceller' = [canceller EXCEPT !.caught = @ \ {t}]
      /\ g_cancel' = g_cancel /\ g_reading' = reading_off(t)
    BY DEF HttpCloses, RInv, RequestsTypeOK, HttpTypeOK
<1>2. /\ canceller' \in Cancels /\ canceller'.pc = canceller.pc /\ canceller'.at = canceller.at
      /\ canceller'.s = canceller.s /\ canceller'.caught = canceller.caught \ {t}
      /\ canceller.caught \subseteq Threads
    BY <1>1 DEF Cancels
<1>3. /\ g_reading' \in [1 .. ReadsMax -> MaybeSock]
      /\ \A i \in 1 .. ReadsMax : g_reading[i] # req[t].s => g_reading'[i] = g_reading[i]
    BY <1>1, ReadingOff DEF RInv, RequestsTypeOK
<1>4. HttpTypeOK'
    BY <1>1, <1>2, <1>3 DEF Moved, Only, RInv, RequestsTypeOK, HttpTypeOK
<1>5. ASSUME NEW u \in canceller'.caught
      PROVE  /\ req'[u].s = req[u].s
             /\ sock[req[u].s].woken => sock'[req[u].s].woken
             /\ \A i \in 1 .. ReadsMax : g_reading[i] = req[u].s => g_reading'[i] = g_reading[i]
    <2>1. u \in Threads \ {t} /\ req[u].s # NoSock
        BY <1>2 DEF RInv, CancelInv
    <2> QED BY <1>3, <2>1, Apart DEF Moved, Only
<1>6. CancelInv'
    BY <1>2, <1>5, CancelWaits
<1> QED BY <1>4, <1>6

LEMMA HttpMoves ==
    ASSUME RInv, NEW t \in Threads, HttpStep(t) \/ HttpBound(t), UNCHANGED seg
    PROVE  Moved(t) /\ Owned' /\ HttpTypeOK' /\ CancelInv'
<1> USE DEF Rcs
<1>0. g_reading \in [1 .. ReadsMax -> MaybeSock]
    BY DEF RInv, RequestsTypeOK, HttpTypeOK
<1>1. CASE HttpCancelled(t) \/ HttpUnbuilt(t)
    <2>1. PICK rc \in {"STOPPED", "BAD_REQUEST"} : req' = Ends(t, rc)
        BY <1>1 DEF HttpCancelled, HttpUnbuilt
    <2>2. /\ req[t].pc = "start" /\ sock' = Closed(req[t].pre)
          /\ UNCHANGED <<g_cancel, g_reading, canceller>>
        BY <1>1 DEF HttpCancelled, HttpUnbuilt
    <2>3. Moved(t) /\ Owned'
        BY <2>1, <2>2, DropsMove
    <2>4. req[t].s = NoSock
        BY <2>2, TheReq DEF InFlight
    <2> QED BY <1>0, <2>2, <2>3, <2>4, MovedCancel
<1>2. CASE HttpReuses(t)
    <2>1. Moved(t) /\ Owned'
        BY <1>2, ReusesMoves
    <2>2. req[t].s = NoSock /\ UNCHANGED <<g_cancel, g_reading, canceller>>
        BY <1>2, TheReq DEF InFlight, HttpReuses
    <2> QED BY <1>0, <2>1, <2>2, MovedCancel
<1>3. CASE HttpOpens(t)
    <2>1. Moved(t) /\ Owned'
        BY <1>3, OpensMoves
    <2>2. req[t].s = NoSock /\ UNCHANGED <<g_cancel, g_reading, canceller>>
        BY <1>3, TheReq DEF InFlight, HttpOpens
    <2> QED BY <1>0, <2>1, <2>2, MovedCancel
<1>4. CASE HttpRegisters(t)
    <2>1. Moved(t) /\ Owned'
        BY <1>4, RegistersMoves
    <2>2. req'[t].s = req[t].s /\ sock' = sock /\ UNCHANGED <<g_cancel, canceller>>
        BY <1>4 DEF HttpRegisters, RInv, RequestsTypeOK, HttpTypeOK
    <2>3. /\ g_reading' \in [1 .. ReadsMax -> MaybeSock]
          /\ \A i \in 1 .. ReadsMax : g_reading[i] # NoSock => g_reading'[i] = g_reading[i]
        BY <1>4, TheReq, ReadingOn DEF HttpRegisters, RInv, RequestsTypeOK
    <2> QED BY <2>1, <2>2, <2>3, MovedCancel
<1>5. CASE HttpInterrupted(t) \/ HttpNoReply(t) \/ HttpBody(t) \/ HttpBodyBreaks(t) \/ HttpBodyTimesOut(t)
    <2>1. PICK rc \in Rcs :
             /\ req' = [req EXCEPT ![t] = [@ EXCEPT !.pc = "off", !.rc = rc]]
             /\ UNCHANGED <<g_cancel, g_reading, sock, canceller>>
             /\ req[t].pc = "body" \/ (req[t].pc = "headers" /\ rc # "OK")
        BY <1>5 DEF HttpInterrupted, HttpNoReply, HttpBody, HttpBodyBreaks, HttpBodyTimesOut,
                    HeadersFail, BodyOver
    <2>2. Moved(t) /\ Owned'
        BY <2>1, ReadsMove
    <2>3. req'[t].s = req[t].s
        BY <2>1 DEF RInv, RequestsTypeOK, HttpTypeOK
    <2> QED BY <1>0, <2>1, <2>2, <2>3, MovedCancel
<1>6. CASE HttpCloses(t)
    BY <1>6, ClosesMoves, ClosesCancel
<1> QED BY <1>1, <1>2, <1>3, <1>4, <1>5, <1>6 DEF HttpStep, HttpBound

LEMMA AnswersAct ==
    ASSUME RInv, NEW t \in Threads, ServerAnswers(t), UNCHANGED seg
    PROVE  Moved(t) /\ Owned' /\ HttpTypeOK' /\ CancelInv'
<1>1. Moved(t) /\ Owned'
    BY AnswersMoves
<1>2. UNCHANGED <<g_cancel, g_reading, sock, canceller>> /\ req'[t].s = req[t].s
    BY DEF ServerAnswers, HttpHeaders, RInv, RequestsTypeOK, HttpTypeOK
<1>3. g_reading \in [1 .. ReadsMax -> MaybeSock]
    BY DEF RInv, RequestsTypeOK, HttpTypeOK
<1> QED BY <1>1, <1>2, <1>3, MovedCancel
-----------------------------------------------------------------------------
(* What a request asks, told and hears, after a step of a thread's own.    *)

\* What belongs to another place than the mover's two stays as it is.
LEMMA KeptOnes ==
    ASSUME RInv, NEW t \in Threads, Only(t)
    PROVE  /\ seg.pre # NoSock => sock'[seg.pre] = sock[seg.pre]
           /\ seg.taken # NoSock => sock'[seg.taken] = sock[seg.taken]
<1>1. /\ In("s", t) = req[t].s /\ In("pre", t) = req[t].pre
      /\ In("keep", feed) = seg.pre /\ In("taken", feed) = seg.taken
      /\ "s" \in Kinds /\ "pre" \in Kinds /\ "keep" \in Kinds /\ "taken" \in Kinds
      /\ feed \in Threads /\ seg.pre \in MaybeSock /\ seg.taken \in MaybeSock
    BY SegmentsAssumption DEF In, Kinds, RInv, RequestsTypeOK, SegTypeOK, Fetches
<1>2. ASSUME seg.pre # NoSock PROVE sock'[seg.pre] = sock[seg.pre]
    <2>1. seg.pre \in Opened
        BY <1>1, <1>2 DEF RInv, Owned, MaybeSock
    <2>2. seg.pre \notin {req[t].s, req[t].pre}
        BY <1>1, <1>2 DEF RInv, Owned
    <2> QED BY <2>1, <2>2 DEF Only
<1>3. ASSUME seg.taken # NoSock PROVE sock'[seg.taken] = sock[seg.taken]
    <2>1. seg.taken \in Opened
        BY <1>1, <1>3 DEF RInv, Owned, MaybeSock
    <2>2. seg.taken \notin {req[t].s, req[t].pre}
        BY <1>1, <1>3 DEF RInv, Owned
    <2> QED BY <2>1, <2>2 DEF Only
<1> QED BY <1>2, <1>3

LEMMA OthersCarry ==
    ASSUME RInv, NEW t \in Threads, Only(t), NEW u \in Threads \ {t}
    PROVE  /\ req'[u] = req[u] /\ (HasCome(u)' <=> HasCome(u))
           /\ req[u].pc \in Asking => Carried(u)' = Carried(u)
<1>1. req'[u] = req[u]
    BY DEF Only
<1>2. HasCome(u)' <=> HasCome(u)
    BY <1>1 DEF HasCome
<1>3. ASSUME req[u].pc \in Asking PROVE Carried(u)' = Carried(u)
    <2>1. CASE req[u].s # NoSock
        <3>1. sock'[req[u].s] = sock[req[u].s]
            BY <2>1, Apart DEF Only
        <3>2. req[u].pc # "start"
            BY <2>1, TheReq DEF InFlight
        <3> QED BY <1>1, <3>1, <3>2 DEF Carried
    <2>2. CASE req[u].s = NoSock
        <3>1. req[u].pc = "start"
            BY <1>3, <2>2, TheReq DEF InFlight, Asking
        <3>2. CASE req[u].pre = NoSock
            BY <1>1, <3>1, <3>2 DEF Carried
        <3>3. CASE req[u].pre # NoSock
            <4>1. /\ In("pre", u) = req[u].pre /\ In("s", t) = req[t].s /\ In("pre", t) = req[t].pre
                  /\ "s" \in Kinds /\ "pre" \in Kinds
                BY DEF In, Kinds
            <4>2. req[u].pre \in Opened /\ req[u].pre \notin {req[t].s, req[t].pre}
                BY <3>3, <4>1, TheReq DEF RInv, Owned
            <4>3. sock'[req[u].pre] = sock[req[u].pre]
                BY <4>2 DEF Only
            <4> QED BY <1>1, <3>1, <3>3, <4>3 DEF Carried
        <3> QED BY <3>2, <3>3
    <2> QED BY <2>1, <2>2
<1> QED BY <1>1, <1>2, <1>3

LEMMA MovedPlaces ==
    ASSUME RInv, NEW t \in Threads, Moved(t), UNCHANGED <<call, g_lock, seg>>
    PROVE  PlacesInv'
<1>1. ASSUME NEW u \in Threads
      PROVE  (/\ req[u].pc \in InFlight <=> req[u].s # NoSock
              /\ req[u].pc # "start" => req[u].pre = NoSock
              /\ req[u].pc # "idle" <=> Busy(u)
              /\ g_lock = u <=> Signing(u)
              /\ Signing(u) => req[u].pre = NoSock)'
    <2>1. (Busy(u)' <=> Busy(u)) /\ (Signing(u)' <=> Signing(u))
        BY DEF Busy, Signing
    <2>2. CASE u = t
        BY <2>1, <2>2 DEF RInv, PlacesInv, Moved, Only
    <2>3. CASE u # t
        BY <2>1, <2>3 DEF RInv, PlacesInv, Moved, Only
    <2> QED BY <2>2, <2>3
<1>2. ASSUME NEW u \in ApiThreads PROVE (call[u].pc # "idle" => req[u].pre = NoSock)'
    BY ApiThreadsAssumption DEF RInv, PlacesInv, Moved, Only
<1>3. (seg.taken # NoSock => seg.pc = "ask")'
    BY DEF RInv, PlacesInv
<1>4. (seg.pc = "noting" => req[feed].pc = "told" /\ seg.pre # NoSock)'
    BY SegmentsAssumption DEF RInv, PlacesInv, Moved, Only
<1> QED BY <1>1, <1>2, <1>3, <1>4 DEF PlacesInv

LEMMA MovedSeg ==
    ASSUME RInv, NEW t \in Threads, Moved(t), UNCHANGED <<seg, staged>>
    PROVE  SegInv'
<1>1. feed \in Threads /\ SegInv
    BY SegmentsAssumption DEF RInv
<1>2. ASSUME seg.pc \in {"wire", "noting"}
      PROVE  /\ req'[feed].pc \in Asking => Carried(feed)'.kind = "seg" /\ Carried(feed)'.seg = seg.index
             /\ HasCome(feed)' => req'[feed].came.seg = seg.index
    <2>1. /\ req[feed].pc \in Asking => Carried(feed).kind = "seg" /\ Carried(feed).seg = seg.index
          /\ HasCome(feed) => req[feed].came.seg = seg.index
        BY <1>1, <1>2 DEF SegInv
    <2>2. CASE feed = t /\ Quiet(t)
        BY <2>1, <2>2 DEF Quiet
    <2>3. CASE feed = t /\ Heard(t)
        BY <2>1, <2>3 DEF Heard, Asking
    <2>4. CASE feed # t
        BY <1>1, <2>1, <2>4, OthersCarry DEF Moved
    <2> QED BY <2>2, <2>3, <2>4 DEF Moved, Only
<1>3. /\ seg.pre # NoSock => sock'[seg.pre] = sock[seg.pre]
      /\ seg.taken # NoSock => sock'[seg.taken] = sock[seg.taken]
    BY KeptOnes DEF Moved
<1>4. (seg.pc \in {"wire", "noting"} =>
          /\ req[feed].pc \in Asking => Carried(feed).kind = "seg" /\ Carried(feed).seg = seg.index
          /\ HasCome(feed) => req[feed].came.seg = seg.index)'
    BY <1>2
<1>5. (/\ staged.want = staged.got
       /\ seg.taken # NoSock =>
             sock[seg.taken].asked.kind = "seg" /\ sock[seg.taken].asked.seg = seg.index
       /\ seg.pre # NoSock => sock[seg.pre].asked.kind = "seg"
       /\ seg.pre # NoSock /\ seg.pc # "noting" => sock[seg.pre].asked.seg = seg.pre_seg
       /\ seg.pc = "noting" => sock[seg.pre].asked.seg = Next(seg.index))'
    <2>1. seg.pc = "noting" => seg.pre # NoSock
        BY DEF RInv, PlacesInv
    <2> QED BY <1>1, <1>3, <2>1 DEF SegInv
<1> QED BY <1>4, <1>5 DEF SegInv

LEMMA MovedCall ==
    ASSUME RInv, NEW t \in Threads, Moved(t), UNCHANGED call, refused \subseteq refused'
    PROVE  CallInv'
<1>1. ASSUME NEW u \in ApiThreads, call[u].pc = "sent"
      PROVE  /\ req'[u].pc \in Asking =>
                   Carried(u)' = Asks("call", 0, call[u].token) /\ req'[u].status = 0
             /\ req'[u].status = 401 => call[u].token \in refused'
    <2>1. /\ u \in Threads
          /\ req[u].pc \in Asking =>
                   Carried(u) = Asks("call", 0, call[u].token) /\ req[u].status = 0
          /\ req[u].status = 401 => call[u].token \in refused
        BY <1>1, ApiThreadsAssumption DEF RInv, CallInv
    <2>2. CASE u = t /\ Quiet(t)
        BY <2>1, <2>2 DEF Quiet
    <2>3. CASE u = t /\ Heard(t)
        BY <2>1, <2>3 DEF Heard, Asking, Asks
    <2>4. CASE u # t
        BY <2>1, <2>4, OthersCarry DEF Moved
    <2> QED BY <2>2, <2>3, <2>4 DEF Moved, Only
<1>2. ASSUME NEW u \in ApiThreads, call[u].pc = "refused" PROVE call[u].token \in refused'
    BY <1>2 DEF RInv, CallInv
<1> QED BY <1>1, <1>2 DEF CallInv

LEMMA MovedToken ==
    ASSUME RInv, NEW t \in Threads, Moved(t), UNCHANGED <<call, seg, g_token, issued>>
    PROVE  TokenInv'
<1>1. ASSUME NEW u \in Threads, Signing(u)
      PROVE  /\ req'[u].pc \in Asking =>
                  /\ Carried(u)'.kind = "signin" /\ Carried(u)'.seg = 0 /\ req'[u].status = 0
                  /\ Carried(u)'.token # 0 => g_token < Carried(u)'.token /\ Carried(u)'.token <= issued
             /\ req'[u].status = 200 => g_token < req'[u].came.token /\ req'[u].came.token <= issued
    <2>1. /\ req[u].pc \in Asking =>
                  /\ Carried(u).kind = "signin" /\ Carried(u).seg = 0 /\ req[u].status = 0
                  /\ Carried(u).token # 0 => g_token < Carried(u).token /\ Carried(u).token <= issued
          /\ req[u].status = 200 => g_token < req[u].came.token /\ req[u].came.token <= issued
        BY <1>1 DEF RInv, TokenInv
    <2>2. CASE u = t /\ Quiet(t)
        BY <2>1, <2>2 DEF Quiet
    <2>3. CASE u = t /\ Heard(t)
        <3>1. Carried(u).kind = "signin" /\ req'[u].came = Carried(u) /\ req'[u].pc \notin Asking
              /\ req'[u].status \in Statuses(Carried(u))
            BY <2>1, <2>3 DEF Heard, Asking
        <3>2. req'[u].status = 200 => Carried(u).token # 0
            BY <3>1 DEF Statuses
        <3> QED BY <2>1, <2>3, <3>1, <3>2 DEF Heard, Asking
    <2>4. CASE u # t
        BY <2>1, <2>4, OthersCarry DEF Moved
    <2> QED BY <2>2, <2>3, <2>4 DEF Moved, Only
<1>2. ASSUME NEW u \in Threads PROVE Signing(u)' <=> Signing(u)
    BY DEF Signing
<1> QED BY <1>1, <1>2 DEF RInv, TokenInv

LEMMA MovedDead ==
    ASSUME RInv, NEW t \in Threads, Moved(t), UNCHANGED <<seg, epoch, sleeps>>
    PROVE  DeadInv'
BY KeptOnes DEF RInv, DeadInv, Moved

LEMMA MovedKeeps ==
    ASSUME RInv, NEW t \in Threads,
           \/ (HttpStep(t) \/ HttpBound(t)) /\ UNCHANGED <<apiVars, segVars>>
           \/ ServerAnswers(t) /\ UNCHANGED segVars
    PROVE  RInv'
<1>1. UNCHANGED segVars /\ UNCHANGED <<g_token, g_user_id, g_lock, call, live, issued>>
      /\ refused \subseteq refused'
    BY DEF ServerAnswers, apiVars
<1>2. UNCHANGED <<seg, staged, epoch, sleeps>>
    BY <1>1 DEF segVars
<1>3. Moved(t) /\ Owned' /\ HttpTypeOK' /\ CancelInv'
    BY <1>2, HttpMoves, AnswersAct
<1>4. SegTypeOK'
    BY <1>1 DEF segVars, RInv, RequestsTypeOK, SegTypeOK
<1>5. refused' \subseteq Nat
    <2>1. CASE UNCHANGED apiVars
        BY <2>1 DEF apiVars, RInv, RequestsTypeOK, ApiTypeOK
    <2>2. CASE ServerAnswers(t)
        <3>1. req[t].pc = "headers"
            BY <2>2 DEF ServerAnswers
        <3>2. req[t].s \in Socks
            BY <3>1, TheReq DEF InFlight, MaybeSock
        <3>3. sock[req[t].s].asked.token \in Nat
            BY <3>2 DEF RInv, RequestsTypeOK, HttpTypeOK, Sockets, Askeds
        <3> QED BY <2>2, <3>3 DEF ServerAnswers, RInv, RequestsTypeOK, ApiTypeOK
    <2> QED BY <2>1, <2>2
<1>6. ApiTypeOK'
    BY <1>1, <1>5 DEF RInv, RequestsTypeOK, ApiTypeOK
<1>7. PlacesInv' /\ SegInv' /\ CallInv' /\ TokenInv' /\ DeadInv'
    BY <1>1, <1>2, <1>3, MovedPlaces, MovedSeg, MovedCall, MovedToken, MovedDead
<1> QED BY <1>3, <1>4, <1>6, <1>7 DEF RInv, RequestsTypeOK
-----------------------------------------------------------------------------
(* The cancel, the machine's sleep and the server change what a socket has *)
(* met, and not whose it is or what it asks.                               *)

LEMMA SocketsMeet ==
    ASSUME RInv, UNCHANGED <<req, call, g_lock, g_token, issued, refused, staged>>,
           seg'.pc = seg.pc, seg'.index = seg.index, seg'.pre = seg.pre,
           seg'.taken = seg.taken, seg'.pre_seg = seg.pre_seg,
           \A s \in Socks : sock'[s].open = sock[s].open /\ sock'[s].asked = sock[s].asked
    PROVE  Owned' /\ PlacesInv' /\ SegInv' /\ CallInv' /\ TokenInv'
<1>1. Opened' = Opened
    BY DEF Opened
<1>2. ASSUME NEW k \in Kinds, NEW u \in Threads PROVE In(k, u)' = In(k, u)
    BY <1>2 DEF In, Kinds
<1>3. Owned'
    BY <1>1, <1>2, OwnedSame DEF RInv
<1>4. ASSUME NEW u \in Threads PROVE (Busy(u)' <=> Busy(u)) /\ (Signing(u)' <=> Signing(u))
    BY DEF Busy, Signing
<1>5. PlacesInv'
    BY <1>4 DEF RInv, PlacesInv
<1>6. ASSUME NEW u \in Threads
      PROVE  (HasCome(u)' <=> HasCome(u)) /\ (req[u].pc \in Asking => Carried(u)' = Carried(u))
    <2>1. HasCome(u)' <=> HasCome(u)
        BY DEF HasCome
    <2>2. ASSUME req[u].pc \in Asking PROVE Carried(u)' = Carried(u)
        <3>1. CASE req[u].pc = "start" /\ req[u].pre = NoSock
            BY <3>1 DEF Carried
        <3>2. CASE req[u].pc = "start" /\ req[u].pre # NoSock
            <4>1. req[u].pre \in Socks
                BY <3>2, TheReq DEF MaybeSock
            <4> QED BY <3>2, <4>1 DEF Carried
        <3>3. CASE req[u].pc # "start"
            <4>1. req[u].s \in Socks
                BY <2>2, <3>3, TheReq DEF MaybeSock, Asking, InFlight
            <4> QED BY <3>3, <4>1 DEF Carried
        <3> QED BY <3>1, <3>2, <3>3
    <2> QED BY <2>1, <2>2
<1>7. SegInv'
    <2>1. feed \in Threads /\ SegInv
        BY SegmentsAssumption DEF RInv
    <2>2. (seg.pc \in {"wire", "noting"} =>
              /\ req[feed].pc \in Asking => Carried(feed).kind = "seg" /\ Carried(feed).seg = seg.index
              /\ HasCome(feed) => req[feed].came.seg = seg.index)'
        BY <1>6, <2>1 DEF SegInv
    <2>3. seg.pre \in MaybeSock /\ seg.taken \in MaybeSock /\ (seg.pc = "noting" => seg.pre # NoSock)
        BY DEF RInv, PlacesInv, RequestsTypeOK, SegTypeOK, Fetches
    <2>4. (/\ staged.want = staged.got
           /\ seg.taken # NoSock =>
                 sock[seg.taken].asked.kind = "seg" /\ sock[seg.taken].asked.seg = seg.index
           /\ seg.pre # NoSock => sock[seg.pre].asked.kind = "seg"
           /\ seg.pre # NoSock /\ seg.pc # "noting" => sock[seg.pre].asked.seg = seg.pre_seg
           /\ seg.pc = "noting" => sock[seg.pre].asked.seg = Next(seg.index))'
        BY <2>1, <2>3 DEF SegInv, MaybeSock
    <2> QED BY <2>2, <2>4 DEF SegInv
<1>8. CallInv'
    BY <1>6, ApiThreadsAssumption DEF RInv, CallInv
<1>9. TokenInv'
    BY <1>4, <1>6 DEF RInv, TokenInv
<1> QED BY <1>3, <1>5, <1>7, <1>8, <1>9

LEMMA CancelKeeps ==
    ASSUME RInv, CancelBegins \/ CancelLooks \/ CancelWakes \/ CancelCleared,
           UNCHANGED <<apiVars, segVars>>
    PROVE  RInv'
<1>0. /\ CancelInv /\ canceller \in Cancels /\ ReadsMax \in Nat \ {0} /\ HttpTypeOK
      /\ g_reading \in [1 .. ReadsMax -> MaybeSock]
    BY SegmentsAssumption DEF RInv, RequestsTypeOK, HttpTypeOK
<1>1. UNCHANGED <<req, g_reading, seg, call, g_lock, g_token, issued, refused, staged, epoch, sleeps>>
    BY DEF CancelBegins, CancelLooks, CancelWakes, CancelCleared, apiVars, segVars
<1>2. /\ sock' \in [Socks -> Sockets]
      /\ \A s \in Socks : /\ sock'[s].open = sock[s].open /\ sock'[s].asked = sock[s].asked
                          /\ sock'[s].dead = sock[s].dead
                          /\ sock[s].woken => sock'[s].woken
    <2>1. CASE CancelWakes /\ canceller.s # NoSock /\ sock[canceller.s].open
        <3>1. PICK s : s = canceller.s
            OBVIOUS
        <3>2. s \in Socks /\ sock[s] \in Sockets
            BY <1>0, <2>1, <3>1 DEF Cancels, MaybeSock, HttpTypeOK
        <3>3. PICK v : v = [sock[s] EXCEPT !.woken = TRUE]
            OBVIOUS
        <3>4. v \in Sockets /\ v.open = sock[s].open /\ v.asked = sock[s].asked /\ v.dead = sock[s].dead
              /\ v.woken
            BY <3>2, <3>3 DEF Sockets
        <3>5. sock' = [sock EXCEPT ![s] = v]
            BY <1>0, <2>1, <3>1, <3>3 DEF CancelWakes, HttpTypeOK
        <3> QED BY <1>0, <3>2, <3>4, <3>5 DEF HttpTypeOK
    <2>2. CASE sock' = sock
        BY <1>0, <2>2 DEF HttpTypeOK
    <2> QED BY <2>1, <2>2 DEF CancelBegins, CancelLooks, CancelWakes, CancelCleared
<1>3. Owned' /\ PlacesInv' /\ SegInv' /\ CallInv' /\ TokenInv'
    BY <1>1, <1>2, SocketsMeet
<1>4. DeadInv'
    <2>1. seg.pre \in MaybeSock
        BY DEF RInv, RequestsTypeOK, SegTypeOK, Fetches
    <2> QED BY <1>1, <1>2, <2>1 DEF RInv, DeadInv, MaybeSock
<1>5. canceller' \in Cancels /\ g_cancel' \in BOOLEAN /\ CancelInv'
    <2>1. CASE CancelBegins
        <3>1. PICK c : c = {t \in Threads : Registered(t)}
            OBVIOUS
        <3>2. canceller' = [pc |-> "look", at |-> 1, s |-> NoSock, caught |-> c]
            BY <2>1, <3>1 DEF CancelBegins
        <3>3. /\ canceller' \in Cancels /\ canceller'.pc = "look" /\ canceller'.at = 1
              /\ canceller'.caught = c
            BY <1>0, <3>1, <3>2 DEF Cancels, MaybeSock
        <3>4. ASSUME NEW u \in c
              PROVE  req[u].s # NoSock /\ \E i \in 1 .. ReadsMax : g_reading[i] = req[u].s
            BY <3>1, TheReq DEF Registered, InFlight
        <3>5. CancelInv'
            BY <1>0, <1>1, <3>3, <3>4 DEF CancelInv
        <3> QED BY <2>1, <3>3, <3>5 DEF CancelBegins
    <2>2. CASE CancelLooks
        <3>1. canceller' = [canceller EXCEPT !.pc = "wake", !.s = g_reading[canceller.at]]
              /\ canceller.pc = "look" /\ canceller.at \in 1 .. ReadsMax /\ UNCHANGED <<g_cancel, sock>>
            BY <1>0, <2>2 DEF CancelLooks, CancelInv
        <3>2. /\ canceller' \in Cancels /\ canceller'.pc = "wake" /\ canceller'.at = canceller.at
              /\ canceller'.caught = canceller.caught /\ canceller'.s = g_reading[canceller.at]
            BY <1>0, <3>1 DEF Cancels
        <3>3. ASSUME NEW u \in canceller'.caught
              PROVE  /\ req[u].s # NoSock
                     /\ \/ sock[req[u].s].woken
                        \/ canceller'.s = req[u].s
                        \/ \E i \in canceller'.at .. ReadsMax :
                              g_reading[i] = req[u].s /\ i # canceller'.at
            BY <1>0, <3>1, <3>2 DEF CancelInv
        <3>4. CancelInv'
            BY <1>1, <3>1, <3>2, <3>3 DEF CancelInv
        <3> QED BY <1>0, <3>1, <3>2, <3>4 DEF HttpTypeOK
    <2>3. CASE CancelWakes
        <3>1. canceller.pc = "wake" /\ canceller.at \in 1 .. ReadsMax /\ g_cancel' = g_cancel
            BY <1>0, <2>3 DEF CancelWakes, CancelInv
        <3>2. ASSUME NEW u \in canceller.caught
              PROVE  /\ u \in Threads /\ req[u].s # NoSock
                     /\ \/ sock'[req[u].s].woken
                        \/ \E i \in canceller.at + 1 .. ReadsMax : g_reading[i] = req[u].s
            <4>1. u \in Threads /\ req[u].s # NoSock
                BY <1>0 DEF CancelInv, Cancels
            <4>2. req[u].s \in Socks /\ sock[req[u].s].open
                BY <4>1, TheReq DEF MaybeSock, Opened
            <4>3. CASE sock[req[u].s].woken
                BY <1>2, <4>1, <4>2, <4>3
            <4>4. CASE canceller.s = req[u].s
                <5>1. PICK s : s = canceller.s
                    OBVIOUS
                <5>2. sock' = [sock EXCEPT ![s].woken = TRUE] /\ s \in Socks /\ sock[s] \in Sockets
                    BY <1>0, <2>3, <4>1, <4>2, <4>4, <5>1 DEF CancelWakes, HttpTypeOK
                <5>3. sock'[s].woken
                    BY <1>0, <5>2 DEF HttpTypeOK, Sockets
                <5> QED BY <4>1, <4>4, <5>1, <5>3
            <4>5. CASE \E i \in canceller.at .. ReadsMax : g_reading[i] = req[u].s /\ i # canceller.at
                <5>1. PICK i \in canceller.at .. ReadsMax : g_reading[i] = req[u].s /\ i # canceller.at
                    BY <4>5
                <5>2. i \in canceller.at + 1 .. ReadsMax
                    BY <1>0, <3>1, <5>1
                <5> QED BY <4>1, <5>1, <5>2
            <4> QED BY <1>0, <3>1, <4>3, <4>4, <4>5 DEF CancelInv
        <3>3. CASE canceller.at = ReadsMax
            <4>1. canceller' = [canceller EXCEPT !.pc = "woken", !.s = NoSock]
                BY <2>3, <3>3 DEF CancelWakes
            <4>2. /\ canceller' \in Cancels /\ canceller'.pc = "woken"
                  /\ canceller'.caught = canceller.caught
                BY <1>0, <4>1 DEF Cancels, MaybeSock
            <4>3. ~\E i \in canceller.at + 1 .. ReadsMax : TRUE
                BY <1>0, <3>3
            <4>4. CancelInv'
                BY <1>1, <3>2, <4>2, <4>3 DEF CancelInv
            <4> QED BY <1>0, <3>1, <4>2, <4>4 DEF HttpTypeOK
        <3>4. CASE canceller.at # ReadsMax
            <4>1. canceller' = [canceller EXCEPT !.pc = "look", !.at = @ + 1, !.s = NoSock]
                BY <2>3, <3>4 DEF CancelWakes
            <4>2. /\ canceller' \in Cancels /\ canceller'.pc = "look"
                  /\ canceller'.at = canceller.at + 1 /\ canceller'.at \in 1 .. ReadsMax
                  /\ canceller'.caught = canceller.caught
                <5>1. PICK n : n = canceller.at + 1
                    OBVIOUS
                <5>2. n \in 0 .. ReadsMax /\ n \in 1 .. ReadsMax
                    BY <1>0, <3>1, <3>4, <5>1
                <5>3. canceller' = [canceller EXCEPT !.pc = "look", !.at = n, !.s = NoSock]
                    BY <1>0, <4>1, <5>1 DEF Cancels
                <5> QED BY <1>0, <5>1, <5>2, <5>3 DEF Cancels, MaybeSock
            <4>3. CancelInv'
                BY <1>1, <3>2, <4>2 DEF CancelInv
            <4> QED BY <1>0, <3>1, <4>2, <4>3 DEF HttpTypeOK
        <3> QED BY <3>3, <3>4
    <2>4. CASE CancelCleared
        <3>1. canceller' = [pc |-> "idle", at |-> 0, s |-> NoSock, caught |-> {}] /\ g_cancel' = FALSE
            BY <2>4 DEF CancelCleared, NoCancel
        <3>2. canceller' \in Cancels /\ canceller'.pc = "idle" /\ canceller'.caught = {}
            BY <1>0, <3>1 DEF Cancels, MaybeSock
        <3> QED BY <3>1, <3>2 DEF CancelInv
    <2> QED BY <2>1, <2>2, <2>3, <2>4
<1>6. RequestsTypeOK'
    BY <1>1, <1>2, <1>5 DEF RInv, RequestsTypeOK, HttpTypeOK, ApiTypeOK, SegTypeOK, apiVars, segVars
<1> QED BY <1>3, <1>4, <1>5, <1>6 DEF RInv
LEMMA SleepKeeps ==
    ASSUME RInv, Sleep
    PROVE  RInv'
<1>0. /\ CancelInv /\ DeadInv /\ HttpTypeOK /\ SegTypeOK /\ seg \in Fetches
      /\ UNCHANGED <<g_cancel, g_reading, req, canceller, apiVars, g_next_seg, staged, epoch, leaving>>
    BY DEF RInv, RequestsTypeOK, SegTypeOK, Sleep
<1>1. UNCHANGED <<call, g_lock, g_token, issued, refused>>
    BY <1>0 DEF apiVars
<1>2. /\ sock' \in [Socks -> Sockets]
      /\ \A s \in Socks : /\ sock'[s].open = sock[s].open /\ sock'[s].asked = sock[s].asked
                          /\ sock'[s].woken = sock[s].woken
    <2>1. sock' = [s \in Socks |-> [sock[s] EXCEPT !.dead = sock[s].open]]
        BY DEF Sleep, SocketsDie
    <2>2. ASSUME NEW s \in Socks
          PROVE  /\ [sock[s] EXCEPT !.dead = sock[s].open] \in Sockets
                 /\ sock'[s].open = sock[s].open /\ sock'[s].asked = sock[s].asked
                 /\ sock'[s].woken = sock[s].woken
        <3>1. sock[s] \in Sockets /\ sock'[s] = [sock[s] EXCEPT !.dead = sock[s].open]
            BY <1>0, <2>1 DEF HttpTypeOK
        <3>2. PICK dead \in BOOLEAN : dead = sock[s].open
            BY <3>1 DEF Sockets
        <3>3. PICK v : v = [sock[s] EXCEPT !.dead = dead]
            OBVIOUS
        <3>4. /\ v \in Sockets /\ v.open = sock[s].open /\ v.asked = sock[s].asked
              /\ v.woken = sock[s].woken
            BY <3>1, <3>3 DEF Sockets
        <3>5. [sock[s] EXCEPT !.dead = sock[s].open] = v
            BY <3>2, <3>3, Zenon
        <3> QED BY <3>1, <3>4, <3>5
    <2> QED BY <2>1, <2>2
<1>3. PICK torn \in BOOLEAN : torn = (seg.torn \/ seg.pc = "noting")
    OBVIOUS
<1>4. seg' = [seg EXCEPT !.torn = torn]
    <2>1. seg' = [seg EXCEPT !.torn = @ \/ seg.pc = "noting"]
        BY DEF Sleep
    <2> QED BY <1>3, <2>1, Zenon
<1>5. /\ seg' \in Fetches /\ seg'.pc = seg.pc /\ seg'.index = seg.index /\ seg'.pre = seg.pre
      /\ seg'.taken = seg.taken /\ seg'.pre_seg = seg.pre_seg /\ seg'.pre_epoch = seg.pre_epoch
    BY <1>0, <1>4 DEF Fetches
<1>6. Owned' /\ PlacesInv' /\ SegInv' /\ CallInv' /\ TokenInv'
    BY <1>0, <1>1, <1>2, <1>5, SocketsMeet
<1>7. sleeps' = sleeps + 1 /\ sleeps \in Nat /\ epoch \in Nat /\ seg.pre_epoch \in Nat
    BY <1>0 DEF Sleep, SegTypeOK, Fetches
<1>8. DeadInv'
    <2>1. seg.pc = "noting" => seg'.torn
        <3>1. seg'.torn = torn
            BY <1>0, <1>4 DEF Fetches
        <3> QED BY <1>3, <3>1
    <2> QED BY <1>0, <1>5, <1>7, <2>1 DEF DeadInv
<1>9. CancelInv'
    <2>1. ASSUME NEW u \in canceller.caught PROVE sock[req[u].s].woken => sock'[req[u].s].woken
        <3>1. u \in Threads /\ req[u].s # NoSock
            BY <1>0 DEF CancelInv, HttpTypeOK, Cancels
        <3>2. req[u].s \in Socks
            BY <3>1, TheReq DEF MaybeSock
        <3> QED BY <1>2, <3>2
    <2> QED BY <1>0, <2>1, CancelWaits
<1>10. RequestsTypeOK'
    BY <1>0, <1>2, <1>5, <1>7 DEF RInv, RequestsTypeOK, HttpTypeOK, ApiTypeOK, SegTypeOK, apiVars
<1> QED BY <1>6, <1>8, <1>9, <1>10 DEF RInv

LEMMA CountsKeep ==
    ASSUME RInv, SleepCounted \/ LeavesForGood
    PROVE  RInv'
<1>0. /\ CancelInv /\ DeadInv /\ canceller \in Cancels /\ canceller.pc = "idle"
      /\ canceller' = [canceller EXCEPT !.pc = "watch"]
      /\ UNCHANGED <<g_cancel, g_reading, sock, req, apiVars, seg, g_next_seg, staged, sleeps>>
    BY DEF RInv, RequestsTypeOK, HttpTypeOK, SleepCounted, LeavesForGood
<1>1. UNCHANGED <<call, g_lock, g_token, issued, refused>>
    BY <1>0 DEF apiVars
<1>2. Owned' /\ PlacesInv' /\ SegInv' /\ CallInv' /\ TokenInv'
    BY <1>0, <1>1, SocketsMeet
<1>3. canceller' \in Cancels /\ canceller'.pc = "watch" /\ canceller'.caught = {}
    BY <1>0 DEF Cancels, CancelInv
<1>4. CancelInv'
    BY <1>3 DEF CancelInv
<1>5. /\ epoch' \in {epoch, sleeps} /\ leaving' \in BOOLEAN
      /\ sleeps \in Nat /\ epoch \in Nat /\ seg.pre_epoch \in Nat
    BY DEF SleepCounted, LeavesForGood, RInv, RequestsTypeOK, SegTypeOK, Fetches
<1>6. DeadInv'
    BY <1>0, <1>5 DEF DeadInv
<1>7. RequestsTypeOK'
    BY <1>0, <1>3, <1>5 DEF RInv, RequestsTypeOK, HttpTypeOK, ApiTypeOK, SegTypeOK, apiVars
<1> QED BY <1>2, <1>4, <1>6, <1>7 DEF RInv

LEMMA RevokesKeeps ==
    ASSUME RInv, ServerRevokes, UNCHANGED segVars
    PROVE  RInv'
<1>1. /\ UNCHANGED <<g_token, g_user_id, g_lock, call, issued, refused, seg, staged, epoch, sleeps>>
      /\ UNCHANGED <<g_cancel, g_reading, sock, req, canceller>> /\ live' = 0
    BY DEF ServerRevokes, httpVars, segVars
<1>2. Owned' /\ PlacesInv' /\ SegInv' /\ CallInv' /\ TokenInv'
    BY <1>1, SocketsMeet
<1>3. CancelInv'
    BY <1>1, CancelWaits
<1>4. DeadInv'
    BY <1>1 DEF RInv, DeadInv
<1>5. RequestsTypeOK'
    BY <1>1 DEF RInv, RequestsTypeOK, HttpTypeOK, ApiTypeOK, SegTypeOK, segVars
<1> QED BY <1>2, <1>3, <1>4, <1>5 DEF RInv

LEMMA SignsInKeeps ==
    ASSUME RInv, NEW t \in Threads, ServerSignsIn(t), UNCHANGED segVars
    PROVE  RInv'
<1>0. /\ UNCHANGED <<g_cancel, g_reading, req, canceller, g_token, g_user_id, g_lock, call, refused>>
      /\ UNCHANGED <<seg, staged, epoch, sleeps>>
      /\ issued' = issued + 1 /\ live' = issued + 1 /\ issued \in Nat /\ g_token \in Nat
    BY DEF ServerSignsIn, segVars, RInv, RequestsTypeOK, ApiTypeOK
<1>1. req[t].pc \in {"sent", "headers"} /\ req[t].s \in Socks /\ req[t].s # NoSock
    BY TheReq DEF ServerSignsIn, InFlight, MaybeSock
<1>2. PICK s \in Socks : s = req[t].s
    BY <1>1
<1>3. /\ sock[s].asked = Asks("signin", 0, 0) /\ sock[s] \in Sockets
      /\ sock' = [sock EXCEPT ![s].asked.token = issued + 1] /\ sock \in [Socks -> Sockets]
    BY <1>2 DEF ServerSignsIn, RInv, RequestsTypeOK, HttpTypeOK
<1>4. PICK n \in Nat : n = issued + 1
    BY <1>0
<1>5. PICK v : v = [sock[s] EXCEPT !.asked.token = n]
    OBVIOUS
<1>6. /\ v \in Sockets /\ v.open = sock[s].open /\ v.woken = sock[s].woken /\ v.dead = sock[s].dead
      /\ v.asked.kind = "signin" /\ v.asked.seg = 0 /\ v.asked.token = n
    BY <1>3, <1>5 DEF Sockets, Askeds, Asks
<1>7. sock' = [sock EXCEPT ![s] = v]
    BY <1>3, <1>4, <1>5
<1>8. sock' \in [Socks -> Sockets] /\ sock'[s] = v /\ \A r \in Socks \ {s} : sock'[r] = sock[r]
    BY <1>3, <1>6, <1>7
<1>9. Only(t)
    BY <1>0, <1>2, <1>8 DEF Only, RInv, RequestsTypeOK, HttpTypeOK, Opened
<1>10. Opened' = Opened
    BY <1>6, <1>8 DEF Opened
<1>11. ASSUME NEW k \in Kinds, NEW u \in Threads PROVE In(k, u)' = In(k, u)
    BY <1>0 DEF In
<1>12. Owned'
    BY <1>10, <1>11, OwnedSame DEF RInv
<1>13. ASSUME NEW u \in Threads PROVE (Busy(u)' <=> Busy(u)) /\ (Signing(u)' <=> Signing(u))
    BY <1>0 DEF Busy, Signing
<1>14. PlacesInv'
    BY <1>0, <1>13 DEF RInv, PlacesInv
<1>15. Carried(t) = Asks("signin", 0, 0) /\ Carried(t)' = v.asked /\ req[t].pc \in Asking
    BY <1>0, <1>1, <1>2, <1>3, <1>8 DEF Carried, Asking
<1>16. SegInv'
    <2>1. feed \in Threads /\ SegInv
        BY SegmentsAssumption DEF RInv
    <2>2. (seg.pc \in {"wire", "noting"} =>
              /\ req[feed].pc \in Asking => Carried(feed).kind = "seg" /\ Carried(feed).seg = seg.index
              /\ HasCome(feed) => req[feed].came.seg = seg.index)'
        <3>1. CASE feed = t
            BY <1>0, <1>15, <2>1, <3>1 DEF SegInv, Asks
        <3>2. CASE feed # t
            BY <1>0, <1>9, <2>1, <3>2, OthersCarry DEF SegInv
        <3> QED BY <3>1, <3>2
    <2>3. /\ seg.pre # NoSock => sock'[seg.pre] = sock[seg.pre]
          /\ seg.taken # NoSock => sock'[seg.taken] = sock[seg.taken]
        BY <1>9, KeptOnes
    <2>4. seg.pc = "noting" => seg.pre # NoSock
        BY DEF RInv, PlacesInv
    <2>5. (/\ staged.want = staged.got
           /\ seg.taken # NoSock =>
                 sock[seg.taken].asked.kind = "seg" /\ sock[seg.taken].asked.seg = seg.index
           /\ seg.pre # NoSock => sock[seg.pre].asked.kind = "seg"
           /\ seg.pre # NoSock /\ seg.pc # "noting" => sock[seg.pre].asked.seg = seg.pre_seg
           /\ seg.pc = "noting" => sock[seg.pre].asked.seg = Next(seg.index))'
        BY <1>0, <2>1, <2>3, <2>4 DEF SegInv
    <2> QED BY <2>2, <2>5 DEF SegInv
<1>17. CallInv'
    <2>1. ASSUME NEW u \in ApiThreads, call[u].pc = "sent"
          PROVE  req[u].pc \in Asking =>
                    Carried(u)' = Asks("call", 0, call[u].token) /\ req[u].status = 0
        <3>1. u \in Threads /\ (req[u].pc \in Asking =>
                    Carried(u) = Asks("call", 0, call[u].token) /\ req[u].status = 0)
            BY <2>1, ApiThreadsAssumption DEF RInv, CallInv
        <3>2. CASE u = t
            BY <1>15, <3>1, <3>2 DEF Asks
        <3>3. CASE u # t
            BY <1>9, <3>1, <3>3, OthersCarry
        <3> QED BY <3>2, <3>3
    <2> QED BY <1>0, <2>1 DEF RInv, CallInv
<1>18. TokenInv'
    <2>1. TokenInv /\ g_token <= issued /\ g_token < n /\ n = issued'
        BY <1>0, <1>4 DEF RInv, TokenInv
    <2>2. ASSUME NEW u \in Threads, Signing(u)
          PROVE  /\ req[u].pc \in Asking =>
                     /\ Carried(u)'.kind = "signin" /\ Carried(u)'.seg = 0 /\ req[u].status = 0
                     /\ Carried(u)'.token # 0 => g_token < Carried(u)'.token /\ Carried(u)'.token <= n
                 /\ req[u].status = 200 => g_token < req[u].came.token /\ req[u].came.token <= n
        <3>1. /\ req[u].pc \in Asking =>
                     /\ Carried(u).kind = "signin" /\ Carried(u).seg = 0 /\ req[u].status = 0
                     /\ Carried(u).token # 0 => g_token < Carried(u).token /\ Carried(u).token <= issued
              /\ req[u].status = 200 => g_token < req[u].came.token /\ req[u].came.token <= issued
            BY <2>1, <2>2 DEF TokenInv
        <3>2. req[u].came.token \in Nat
            BY TheReq DEF Askeds
        <3>3. CASE u = t
            BY <1>0, <1>4, <1>6, <1>15, <2>1, <3>1, <3>2, <3>3
        <3>4. CASE u # t
            <4>1. req[u].pc \in Asking => Carried(u)' = Carried(u)
                BY <1>9, <3>4, OthersCarry
            <4>2. req[u].pc \in Asking => Carried(u).token \in Nat
                <5>1. CASE req[u].pc = "start" /\ req[u].pre = NoSock
                    BY <5>1, TheReq DEF Carried, Askeds
                <5>2. CASE req[u].pc = "start" /\ req[u].pre # NoSock
                    <6>1. sock[req[u].pre] \in Sockets
                        BY <1>3, <5>2, TheReq DEF MaybeSock
                    <6> QED BY <5>2, <6>1 DEF Carried, Askeds, Sockets
                <5>3. CASE req[u].pc \in {"sent", "headers"}
                    <6>1. sock[req[u].s] \in Sockets
                        BY <1>3, <5>3, TheReq DEF MaybeSock, InFlight
                    <6> QED BY <5>3, <6>1 DEF Carried, Askeds, Sockets
                <5> QED BY <5>1, <5>2, <5>3 DEF Asking
            <4> QED BY <1>0, <1>4, <3>1, <3>2, <4>1, <4>2
        <3> QED BY <3>3, <3>4
    <2>3. ASSUME NEW u \in ApiThreads
          PROVE  /\ call[u].token <= g_token
                 /\ call[u].pc = "again" => call[u].token < g_token
                 /\ call[u].pc = "sent" /\ call[u].retried => call[u].was < call[u].token
        BY <2>1 DEF TokenInv
    <2>4. \A u \in Threads : Signing(u)' <=> Signing(u)
        BY <1>13
    <2>5. g_token <= n
        BY <1>0, <1>4, <2>1
    <2> QED BY <1>0, <2>1, <2>2, <2>3, <2>4, <2>5 DEF TokenInv
<1>19. DeadInv'
    BY <1>0, <1>9, KeptOnes DEF RInv, DeadInv
<1>20. CancelInv'
    <2>1. ASSUME NEW u \in canceller.caught PROVE sock[req[u].s].woken => sock'[req[u].s].woken
        <3>1. u \in Threads /\ req[u].s # NoSock
            BY DEF RInv, CancelInv, RequestsTypeOK, HttpTypeOK, Cancels
        <3>2. req[u].s \in Socks
            BY <3>1, TheReq DEF MaybeSock
        <3> QED BY <1>6, <1>8, <3>2
    <2> QED BY <1>0, <2>1, CancelWaits
<1>21. RequestsTypeOK'
    BY <1>0, <1>4, <1>8 DEF RInv, RequestsTypeOK, HttpTypeOK, ApiTypeOK, SegTypeOK, segVars
<1> QED BY <1>12, <1>14, <1>16, <1>17, <1>18, <1>19, <1>20, <1>21 DEF RInv
-----------------------------------------------------------------------------
(* The exchanges and the sign-ins.                                         *)

\* A request begins or is put away: no socket moves.
LEMMA ReqTurns ==
    ASSUME RInv, NEW t \in Threads, UNCHANGED <<g_cancel, g_reading, sock, canceller>>,
           seg'.pre = seg.pre, seg'.taken = seg.taken,
           req' \in [Threads -> Reqs], \A u \in Threads \ {t} : req'[u] = req[u],
           req'[t].s = req[t].s, req'[t].pre = req[t].pre
    PROVE  Only(t) /\ Owned' /\ HttpTypeOK' /\ CancelInv'
<1>1. HttpTypeOK' /\ Only(t)
    BY DEF Only, RInv, RequestsTypeOK, HttpTypeOK
<1>2. Opened' = Opened
    BY DEF Opened
<1>3. ASSUME NEW u \in Threads PROVE req'[u].s = req[u].s /\ req'[u].pre = req[u].pre
    BY <1>3
<1>4. ASSUME NEW k \in Kinds, NEW u \in Threads PROVE In(k, u)' = In(k, u)
    BY <1>3 DEF In, Kinds
<1>5. Owned'
    BY <1>2, <1>4, OwnedSame DEF RInv
<1>6. canceller.caught \subseteq Threads
    BY DEF RInv, RequestsTypeOK, HttpTypeOK, Cancels
<1>7. CancelInv'
    BY <1>3, <1>6, CancelWaits
<1> QED BY <1>1, <1>5, <1>7

LEMMA ApiTurns ==
    ASSUME RInv, NEW t \in ApiThreads,
           UNCHANGED <<g_cancel, g_reading, sock, canceller, live, issued, refused>>,
           UNCHANGED segVars,
           req' \in [Threads -> Reqs], \A u \in Threads \ {t} : req'[u] = req[u],
           req[t].s = NoSock, req[t].pre = NoSock, req'[t].s = NoSock, req'[t].pre = NoSock,
           call' \in [ApiThreads -> Calls], \A u \in ApiThreads \ {t} : call'[u] = call[u],
           g_token' \in Nat, g_user_id' \in BOOLEAN, g_lock' \in Threads \cup {Nobody},
           g_token <= g_token', g_token' <= issued,
           g_token' # g_token => g_lock = t,
           \A u \in Threads \ {t} : g_lock' = u <=> g_lock = u,
           g_lock' = t <=> call'[t].pc \in {"signing", "connecting"},
           req'[t].pc = IF call'[t].pc \in {"sent", "signing", "connecting"} THEN "start" ELSE "idle",
           call'[t].pc = "sent" =>
              req'[t].asked = Asks("call", 0, call'[t].token) /\ req'[t].status = 0,
           call'[t].pc \in {"signing", "connecting"} =>
              req'[t].asked = Asks("signin", 0, 0) /\ req'[t].status = 0,
           call'[t].pc = "refused" => call'[t].token \in refused,
           call'[t].token <= g_token',
           call'[t].pc = "again" => call'[t].token < g_token',
           call'[t].pc = "sent" /\ call'[t].retried => call'[t].was < call'[t].token
    PROVE  RInv'
<1>0. /\ t \in Threads /\ feed \in Threads /\ feed \notin ApiThreads /\ feed # t
      /\ UNCHANGED <<seg, g_next_seg, staged, epoch, sleeps, leaving>>
    BY ApiThreadsAssumption, SegmentsAssumption DEF segVars
<1>1. Only(t) /\ Owned' /\ HttpTypeOK' /\ CancelInv'
    BY <1>0, ReqTurns
<1>2. RequestsTypeOK'
    BY <1>0, <1>1 DEF RInv, RequestsTypeOK, ApiTypeOK, SegTypeOK
<1>3. ASSUME NEW u \in Threads \ {t}
      PROVE  /\ req'[u] = req[u] /\ (HasCome(u)' <=> HasCome(u))
             /\ (req[u].pc \in Asking => Carried(u)' = Carried(u))
             /\ (Busy(u)' <=> Busy(u)) /\ (Signing(u)' <=> Signing(u))
    <2>1. Busy(u)' <=> Busy(u)
        BY <1>0 DEF Busy
    <2>2. Signing(u)' <=> Signing(u)
        BY <1>0 DEF Signing
    <2> QED BY <1>0, <1>1, <2>1, <2>2, OthersCarry
<1>4. /\ (Busy(t)' <=> call'[t].pc \in {"sent", "signing", "connecting"})
      /\ (Signing(t)' <=> call'[t].pc \in {"signing", "connecting"})
    BY <1>0 DEF Busy, Signing
<1>5. req'[t].pc = "start" => Carried(t)' = req'[t].asked
    BY DEF Carried
<1>6. PlacesInv'
    <2>1. ASSUME NEW u \in Threads
          PROVE  (/\ req[u].pc \in InFlight <=> req[u].s # NoSock
                  /\ req[u].pc # "start" => req[u].pre = NoSock
                  /\ req[u].pc # "idle" <=> Busy(u)
                  /\ g_lock = u <=> Signing(u)
                  /\ Signing(u) => req[u].pre = NoSock)'
        <3>1. CASE u = t
            BY <1>4, <3>1 DEF InFlight
        <3>2. CASE u # t
            BY <1>3, <3>2 DEF RInv, PlacesInv
        <3> QED BY <3>1, <3>2
    <2>2. ASSUME NEW u \in ApiThreads PROVE (call[u].pc # "idle" => req[u].pre = NoSock)'
        BY ApiThreadsAssumption DEF RInv, PlacesInv
    <2>3. (/\ seg.taken # NoSock => seg.pc = "ask"
           /\ seg.pc = "noting" => req[feed].pc = "told" /\ seg.pre # NoSock)'
        BY <1>0, <1>3 DEF RInv, PlacesInv
    <2> QED BY <2>1, <2>2, <2>3 DEF PlacesInv
<1>7. SegInv'
    <2>1. (seg.pc \in {"wire", "noting"} =>
              /\ req[feed].pc \in Asking => Carried(feed).kind = "seg" /\ Carried(feed).seg = seg.index
              /\ HasCome(feed) => req[feed].came.seg = seg.index)'
        BY <1>0, <1>3 DEF RInv, SegInv
    <2>2. (/\ staged.want = staged.got
           /\ seg.taken # NoSock =>
                 sock[seg.taken].asked.kind = "seg" /\ sock[seg.taken].asked.seg = seg.index
           /\ seg.pre # NoSock => sock[seg.pre].asked.kind = "seg"
           /\ seg.pre # NoSock /\ seg.pc # "noting" => sock[seg.pre].asked.seg = seg.pre_seg
           /\ seg.pc = "noting" => sock[seg.pre].asked.seg = Next(seg.index))'
        BY <1>0 DEF RInv, SegInv
    <2> QED BY <2>1, <2>2 DEF SegInv
<1>8. CallInv'
    <2>1. ASSUME NEW u \in ApiThreads
          PROVE  (/\ call[u].pc = "sent" =>
                        /\ req[u].pc \in Asking =>
                              Carried(u) = Asks("call", 0, call[u].token) /\ req[u].status = 0
                        /\ req[u].status = 401 => call[u].token \in refused
                  /\ call[u].pc = "refused" => call[u].token \in refused)'
        <3>1. CASE u = t
            BY <1>5, <3>1
        <3>2. CASE u # t
            <4>1. u \in Threads \ {t} /\ call'[u] = call[u]
                BY <3>2, ApiThreadsAssumption
            <4> QED BY <1>3, <4>1 DEF RInv, CallInv
        <3> QED BY <3>1, <3>2
    <2> QED BY <2>1 DEF CallInv
<1>9. TokenInv'
    <2>0. TokenInv
        BY DEF RInv
    <2>1. ASSUME NEW u \in ApiThreads
          PROVE  (/\ call[u].token <= g_token
                  /\ call[u].pc = "again" => call[u].token < g_token
                  /\ call[u].pc = "sent" /\ call[u].retried => call[u].was < call[u].token)'
        <3>1. CASE u = t
            BY <3>1
        <3>2. CASE u # t
            <4>1. call'[u] = call[u] /\ call[u].token \in Nat /\ g_token \in Nat
                BY <3>2 DEF RInv, RequestsTypeOK, ApiTypeOK, Calls
            <4> QED BY <2>0, <4>1 DEF TokenInv
        <3> QED BY <3>1, <3>2
    <2>2. ASSUME NEW u \in Threads, Signing(u)'
          PROVE  (/\ req[u].pc \in Asking =>
                        /\ Carried(u).kind = "signin" /\ Carried(u).seg = 0 /\ req[u].status = 0
                        /\ Carried(u).token # 0 => g_token < Carried(u).token /\ Carried(u).token <= issued
                  /\ req[u].status = 200 => g_token < req[u].came.token /\ req[u].came.token <= issued)'
        <3>1. CASE u = t
            <4>1. req'[t].pc = "start" /\ req'[t].asked = Asks("signin", 0, 0) /\ req'[t].status = 0
                BY <1>4, <2>2, <3>1
            <4> QED BY <1>5, <3>1, <4>1 DEF Asks
        <3>2. CASE u # t
            <4>1. Signing(u)
                BY <1>3, <2>2, <3>2
            <4>2. g_lock = u /\ g_token' = g_token
                BY <3>2, <4>1 DEF RInv, PlacesInv
            <4> QED BY <1>3, <2>0, <3>2, <4>1, <4>2 DEF TokenInv
        <3> QED BY <3>1, <3>2
    <2> QED BY <2>1, <2>2 DEF TokenInv
<1>10. DeadInv'
    BY <1>0 DEF RInv, DeadInv
<1> QED BY <1>1, <1>2, <1>6, <1>7, <1>8, <1>9, <1>10 DEF RInv
LEMMA TheCall ==
    ASSUME RInv, NEW t \in ApiThreads
    PROVE  /\ t \in Threads /\ call[t] \in Calls /\ call \in [ApiThreads -> Calls]
           /\ g_token \in Nat /\ issued \in Nat /\ g_token <= issued
           /\ g_user_id \in BOOLEAN /\ g_lock \in Threads \cup {Nobody}
           /\ t # Nobody
           /\ call[t].token \in Nat /\ call[t].was \in Nat /\ call[t].token <= g_token
           /\ call[t].pc \notin {"sent", "signing", "connecting"} =>
                 req[t].pc = "idle" /\ req[t].s = NoSock /\ req[t].pre = NoSock
           /\ Over(t) => req[t].s = NoSock /\ req[t].pre = NoSock
           /\ g_lock = t <=> call[t].pc \in {"signing", "connecting"}
<1>1. t \in Threads /\ t # feed
    BY ApiThreadsAssumption, SegmentsAssumption
<1>2. Busy(t) <=> call[t].pc \in {"sent", "signing", "connecting"}
    BY <1>1 DEF Busy
<1>3. Signing(t) <=> call[t].pc \in {"signing", "connecting"}
    BY <1>1 DEF Signing
<1>4. /\ call[t] \in Calls /\ call \in [ApiThreads -> Calls]
      /\ g_token \in Nat /\ issued \in Nat /\ g_token <= issued
      /\ g_user_id \in BOOLEAN /\ g_lock \in Threads \cup {Nobody} /\ call[t].token <= g_token
    BY DEF RInv, RequestsTypeOK, ApiTypeOK, TokenInv
<1>5. call[t].token \in Nat /\ call[t].was \in Nat
    BY <1>4 DEF Calls
<1> QED BY <1>1, <1>2, <1>3, <1>4, <1>5, TheReq, SegmentsAssumption
        DEF RInv, PlacesInv, InFlight, Over

\* The request that a call begins, and the one it is done with.
LEMMA CallBegins ==
    ASSUME RInv, NEW t \in ApiThreads, NEW a \in Askeds, req' = Begun(t, a, NoSock, FALSE)
    PROVE  /\ req' \in [Threads -> Reqs] /\ \A u \in Threads \ {t} : req'[u] = req[u]
           /\ req'[t].s = NoSock /\ req'[t].pre = NoSock /\ req'[t].pc = "start"
           /\ req'[t].asked = a /\ req'[t].status = 0
<1>1. t \in Threads /\ NoSock \in MaybeSock /\ HttpTypeOK
    BY ApiThreadsAssumption DEF MaybeSock, RInv, RequestsTypeOK
<1>2. PICK hears \in BOOLEAN : hears = FALSE
    OBVIOUS
<1>3. req' = Begun(t, a, NoSock, hears)
    BY <1>2, Zenon
<1> QED BY <1>1, <1>3, BegunIs

LEMMA CallRests ==
    ASSUME RInv, NEW t \in ApiThreads, req' = Idled(t)
    PROVE  /\ req' \in [Threads -> Reqs] /\ \A u \in Threads \ {t} : req'[u] = req[u]
           /\ req'[t].s = NoSock /\ req'[t].pre = NoSock /\ req'[t].pc = "idle"
BY IdledIs, ApiThreadsAssumption DEF RInv, RequestsTypeOK

LEMMA SendsKeeps ==
    ASSUME RInv, NEW t \in ApiThreads, Exchange(t) \/ ExchangeAgain(t), UNCHANGED segVars
    PROVE  RInv'
<1>0. /\ call[t].pc \in {"idle", "again"} /\ g_lock = Nobody
      /\ UNCHANGED <<g_cancel, g_reading, sock, canceller, g_token, g_user_id, g_lock, live, issued, refused>>
    BY DEF Exchange, ExchangeAgain, Sends, Unlocked
<1>1. PICK again \in BOOLEAN : Sends(t, again) /\ (again => call[t].pc = "again")
    <2>1. CASE Exchange(t)
        BY <2>1, Zenon DEF Exchange
    <2>2. CASE ExchangeAgain(t)
        BY <2>2, Zenon DEF ExchangeAgain
    <2> QED BY <2>1, <2>2
<1>2. PICK was \in Nat : was = IF again THEN call[t].token ELSE 0
    BY TheCall
<1>3. PICK c : c = [pc |-> "sent", retried |-> again, token |-> g_token, was |-> was]
    OBVIOUS
<1>4. c \in Calls /\ c.pc = "sent" /\ c.token = g_token /\ c.was = was /\ (c.retried <=> again)
    <2>1. c \in Calls
        BY <1>3, TheCall DEF Calls
    <2> QED BY <1>3, <2>1
<1>5. call' = [call EXCEPT ![t] = c]
    <2>1. call' = [call EXCEPT ![t] = [pc |-> "sent", retried |-> again, token |-> g_token,
                                      was |-> IF again THEN @.token ELSE 0]]
        BY <1>1 DEF Sends
    <2>2. (IF again THEN call[t].token ELSE 0) = was
        BY <1>2
    <2> QED BY <1>3, <2>1, <2>2, Zenon
<1>6. call' \in [ApiThreads -> Calls] /\ call'[t] = c /\ \A u \in ApiThreads \ {t} : call'[u] = call[u]
    BY <1>4, <1>5, TheCall
<1>7. PICK a \in Askeds : a = Asks("call", 0, g_token)
    BY TheAsked, TheCall
<1>8. req' = Begun(t, a, NoSock, FALSE)
    BY <1>1, <1>7 DEF Sends
<1>9. /\ req' \in [Threads -> Reqs] /\ \A u \in Threads \ {t} : req'[u] = req[u]
      /\ req'[t].s = NoSock /\ req'[t].pre = NoSock /\ req'[t].pc = "start"
      /\ req'[t].asked = a /\ req'[t].status = 0
    BY <1>8, CallBegins
<1>10. c.retried => c.was < c.token
    BY <1>1, <1>2, <1>4, TheCall DEF RInv, TokenInv
<1>11. req[t].s = NoSock /\ req[t].pre = NoSock
    BY <1>0, TheCall
<1> QED BY <1>0, <1>4, <1>6, <1>7, <1>9, <1>10, <1>11, TheCall, ApiTurns

LEMMA AnsweredKeeps ==
    ASSUME RInv, NEW t \in ApiThreads, Answered(t), UNCHANGED segVars
    PROVE  RInv'
<1>0. /\ call[t].pc = "sent" /\ Over(t) /\ req' = Idled(t)
      /\ UNCHANGED <<g_cancel, g_reading, sock, canceller, g_token, g_user_id, g_lock, live, issued, refused>>
    BY DEF Answered
<1>1. PICK c : c = [call[t] EXCEPT !.pc = "refused"]
    OBVIOUS
<1>2. c \in Calls /\ c.pc = "refused" /\ c.token = call[t].token
    BY <1>1, TheCall DEF Calls
<1>3. NoCall \in Calls /\ NoCall.pc = "idle" /\ NoCall.token = 0
    BY DEF NoCall, Calls
<1>4. PICK d \in {c, NoCall} :
         call' = [call EXCEPT ![t] = d] /\ (d = c => req[t].status = 401)
    <2>1. CASE req[t].rc = "OK" /\ req[t].status = 401 /\ ~call[t].retried
        BY <1>1, <2>1, TheCall DEF Answered
    <2>2. CASE ~(req[t].rc = "OK" /\ req[t].status = 401 /\ ~call[t].retried)
        <3>1. call' = [call EXCEPT ![t] = NoCall] /\ NoCall # c
            BY <1>2, <1>3, <2>2, TheCall DEF Answered
        <3> QED BY <3>1
    <2> QED BY <2>1, <2>2
<1>5. call' \in [ApiThreads -> Calls] /\ call'[t] = d /\ \A u \in ApiThreads \ {t} : call'[u] = call[u]
    BY <1>2, <1>3, <1>4, TheCall
<1>6. d.pc \in {"idle", "refused"} /\ d.token \in {0, call[t].token}
    BY <1>2, <1>3
<1>7. d.pc = "refused" => d.token \in refused
    BY <1>0, <1>2, <1>3, <1>4 DEF RInv, CallInv
<1>8. d.token <= g_token
    BY <1>6, TheCall
<1> QED BY <1>0, <1>5, <1>6, <1>7, <1>8, TheCall, CallRests, ApiTurns

LEMMA ReauthKeeps ==
    ASSUME RInv, NEW t \in ApiThreads, Reauth(t), UNCHANGED segVars
    PROVE  RInv'
<1>0. /\ call[t].pc = "refused" /\ g_lock = Nobody
      /\ UNCHANGED <<g_cancel, g_reading, sock, canceller, g_token, g_user_id, live, issued, refused>>
    BY DEF Reauth, Unlocked
<1>1. CASE InForce(call[t].token)
    <2>1. g_lock' = t /\ req' = Begun(t, Asks("signin", 0, 0), NoSock, FALSE)
        BY <1>1 DEF Reauth, SignInBegins
    <2>2. PICK c : c = [call[t] EXCEPT !.pc = "signing"]
        OBVIOUS
    <2>3. c \in Calls /\ c.pc = "signing" /\ c.token = call[t].token
        BY <2>2, TheCall DEF Calls
    <2>4. call' = [call EXCEPT ![t] = c]
        BY <1>1, <2>2, TheCall DEF Reauth
    <2>5. call' \in [ApiThreads -> Calls] /\ call'[t] = c /\ \A u \in ApiThreads \ {t} : call'[u] = call[u]
        BY <2>3, <2>4, TheCall
    <2>6. PICK a \in Askeds : a = Asks("signin", 0, 0)
        BY TheAsked
    <2>7. /\ req' \in [Threads -> Reqs] /\ \A u \in Threads \ {t} : req'[u] = req[u]
          /\ req'[t].s = NoSock /\ req'[t].pre = NoSock /\ req'[t].pc = "start"
          /\ req'[t].asked = a /\ req'[t].status = 0
        BY <2>1, <2>6, CallBegins
    <2>8. req[t].s = NoSock /\ req[t].pre = NoSock
        BY <1>0, TheCall
    <2>9. \A u \in Threads \ {t} : g_lock' = u <=> g_lock = u
        BY <1>0, <2>1, SegmentsAssumption
    <2>10. /\ g_token' \in Nat /\ g_user_id' \in BOOLEAN /\ g_lock' \in Threads \cup {Nobody}
          /\ g_token <= g_token' /\ g_token' <= issued /\ c.token <= g_token'
          /\ c.pc \in {"signing", "connecting"}
        BY <1>0, <2>1, <2>3, TheCall
    <2> QED BY <1>0, <2>1, <2>3, <2>5, <2>6, <2>7, <2>8, <2>9, <2>10, ApiTurns
<1>2. CASE ~InForce(call[t].token)
    <2>1. g_lock' = g_lock /\ req' = req
        BY <1>2 DEF Reauth
    <2>2. PICK c : c = [call[t] EXCEPT !.pc = "again"]
        OBVIOUS
    <2>3. c \in Calls /\ c.pc = "again" /\ c.token = call[t].token
        BY <2>2, TheCall DEF Calls
    <2>4. call' = [call EXCEPT ![t] = c]
        BY <1>2, <2>2, TheCall DEF Reauth
    <2>5. call' \in [ApiThreads -> Calls] /\ call'[t] = c /\ \A u \in ApiThreads \ {t} : call'[u] = call[u]
        BY <2>3, <2>4, TheCall
    <2>6. c.token < g_token
        BY <1>2, <2>3, TheCall DEF InForce
    <2>7. req' \in [Threads -> Reqs]
        BY <2>1 DEF RInv, RequestsTypeOK, HttpTypeOK
    <2>8. req[t].pc = "idle" /\ req[t].s = NoSock /\ req[t].pre = NoSock
        BY <1>0, TheCall
    <2>9. g_lock # t
        BY <1>0, TheCall
    <2> QED BY <1>0, <2>1, <2>3, <2>5, <2>6, <2>7, <2>8, <2>9, TheCall, ApiTurns
<1> QED BY <1>1, <1>2

\* A sign-in that went through brought a newer token.
LEMMA TheTokenNow ==
    ASSUME RInv, NEW t \in Threads, Signing(t)
    PROVE  /\ TokenNow(t) \in Nat /\ g_token <= TokenNow(t) /\ TokenNow(t) <= issued
           /\ SignedIn(t) => g_token < TokenNow(t)
<1>1. g_token \in Nat /\ issued \in Nat /\ g_token <= issued
    BY DEF RInv, RequestsTypeOK, ApiTypeOK, TokenInv
<1>2. req[t].came.token \in Nat
    BY TheReq DEF Askeds
<1>3. req[t].status = 200 => g_token < req[t].came.token /\ req[t].came.token <= issued
    BY DEF RInv, TokenInv
<1> QED BY <1>1, <1>2, <1>3 DEF TokenNow, SignedIn

LEMMA SignedInKeeps ==
    ASSUME RInv, NEW t \in ApiThreads, ReauthDone(t) \/ Connected(t), UNCHANGED segVars
    PROVE  RInv'
<1>0. /\ call[t].pc \in {"signing", "connecting"} /\ Over(t) /\ req' = Idled(t)
      /\ g_lock' = Nobody /\ g_token' = TokenNow(t)
      /\ UNCHANGED <<g_cancel, g_reading, sock, canceller, live, issued, refused>>
    BY DEF ReauthDone, Connected
<1>1. Signing(t) /\ t \in Threads /\ g_lock = t
    BY <1>0, TheCall DEF Signing
<1>2. PICK c : c = [call[t] EXCEPT !.pc = "again"]
    OBVIOUS
<1>3. c \in Calls /\ c.pc = "again" /\ c.token = call[t].token
    BY <1>2, TheCall DEF Calls
<1>4. NoCall \in Calls /\ NoCall.pc = "idle" /\ NoCall.token = 0
    BY DEF NoCall, Calls
<1>5. PICK d \in {c, NoCall} : call' = [call EXCEPT ![t] = d] /\ (d = c => SignedIn(t))
    <2>1. CASE ReauthDone(t) /\ SignedIn(t)
        BY <1>2, <2>1, TheCall DEF ReauthDone
    <2>2. CASE ~(ReauthDone(t) /\ SignedIn(t))
        <3>1. call' = [call EXCEPT ![t] = NoCall] /\ NoCall # c
            BY <1>3, <1>4, <2>2, TheCall DEF ReauthDone, Connected
        <3> QED BY <3>1
    <2> QED BY <2>1, <2>2
<1>6. call' \in [ApiThreads -> Calls] /\ call'[t] = d /\ \A u \in ApiThreads \ {t} : call'[u] = call[u]
    BY <1>3, <1>4, <1>5, TheCall
<1>7. /\ g_token' \in Nat /\ g_token <= g_token' /\ g_token' <= issued
      /\ SignedIn(t) => g_token < g_token'
    BY <1>0, <1>1, TheTokenNow
<1>8. d.pc \in {"idle", "again"} /\ d.token \in Nat /\ d.token <= g_token' /\ (d.pc = "again" => d.token < g_token')
    <2>1. CASE d = c
        BY <1>3, <1>5, <1>7, <2>1, TheCall
    <2>2. CASE d = NoCall
        BY <1>4, <1>7, <2>2
    <2> QED BY <2>1, <2>2
<1>9. g_user_id' \in BOOLEAN
    <2>1. CASE ReauthDone(t)
        BY <2>1, TheCall DEF ReauthDone
    <2>2. CASE Connected(t)
        <3>1. g_user_id' = (g_user_id \/ SignedIn(t))
            BY <2>2 DEF Connected
        <3> QED BY <3>1, Zenon
    <2> QED BY <2>1, <2>2
<1>10. \A u \in Threads \ {t} : g_lock' = u <=> g_lock = u
    BY <1>0, <1>1, SegmentsAssumption
<1>11. g_lock' # t
    BY <1>0, TheCall
<1>12. req[t].s = NoSock /\ req[t].pre = NoSock
    BY <1>0, TheCall
<1>13. /\ req' \in [Threads -> Reqs] /\ \A u \in Threads \ {t} : req'[u] = req[u]
       /\ req'[t].s = NoSock /\ req'[t].pre = NoSock /\ req'[t].pc = "idle"
    BY <1>0, CallRests
<1> QED BY <1>0, <1>1, <1>6, <1>7, <1>8, <1>9, <1>10, <1>11, <1>12, <1>13, ApiTurns

LEMMA ConnectsKeeps ==
    ASSUME RInv, NEW t \in ApiThreads, Connects(t), UNCHANGED segVars
    PROVE  RInv'
<1>0. /\ call[t].pc = "idle" /\ g_lock = Nobody /\ g_lock' = t
      /\ req' = Begun(t, Asks("signin", 0, 0), NoSock, FALSE)
      /\ UNCHANGED <<g_cancel, g_reading, sock, canceller, g_token, g_user_id, live, issued, refused>>
    BY DEF Connects, Unlocked, SignInBegins
<1>2. PICK c : c = [call[t] EXCEPT !.pc = "connecting"]
    OBVIOUS
<1>3. c \in Calls /\ c.pc = "connecting" /\ c.token = call[t].token
    BY <1>2, TheCall DEF Calls
<1>4. call' = [call EXCEPT ![t] = c]
    BY <1>2, TheCall DEF Connects
<1>5. call' \in [ApiThreads -> Calls] /\ call'[t] = c /\ \A u \in ApiThreads \ {t} : call'[u] = call[u]
    BY <1>3, <1>4, TheCall
<1>6. PICK a \in Askeds : a = Asks("signin", 0, 0)
    BY TheAsked
<1>7. /\ req' \in [Threads -> Reqs] /\ \A u \in Threads \ {t} : req'[u] = req[u]
      /\ req'[t].s = NoSock /\ req'[t].pre = NoSock /\ req'[t].pc = "start"
      /\ req'[t].asked = a /\ req'[t].status = 0
    BY <1>0, <1>6, CallBegins
<1>8. req[t].s = NoSock /\ req[t].pre = NoSock
    BY <1>0, TheCall
<1>9. \A u \in Threads \ {t} : g_lock' = u <=> g_lock = u
    BY <1>0, SegmentsAssumption
<1>10. /\ g_token' \in Nat /\ g_user_id' \in BOOLEAN /\ g_lock' \in Threads \cup {Nobody}
      /\ g_token <= g_token' /\ g_token' <= issued /\ c.token <= g_token'
      /\ c.pc \in {"signing", "connecting"}
    BY <1>0, <1>3, TheCall
<1> QED BY <1>0, <1>3, <1>5, <1>6, <1>7, <1>8, <1>9, <1>10, ApiTurns

LEMMA ApiKeeps ==
    ASSUME RInv, NEW t \in ApiThreads, ApiStep(t), UNCHANGED segVars
    PROVE  RInv'
BY SendsKeeps, AnsweredKeeps, ReauthKeeps, SignedInKeeps, ConnectsKeeps DEF ApiStep
-----------------------------------------------------------------------------
(* The feed's own steps.                                                   *)

LEMMA TheFeed ==
    ASSUME RInv
    PROVE  /\ feed \in Threads /\ feed \notin ApiThreads /\ feed # Nobody
           /\ seg \in Fetches /\ seg.pre \in MaybeSock /\ seg.taken \in MaybeSock
           /\ seg.index \in Int /\ seg.pre_seg \in Int /\ seg.pre_epoch \in Nat /\ seg.token \in Nat
           /\ epoch \in Nat /\ sleeps \in Nat /\ g_token \in Nat /\ issued \in Nat /\ g_token <= issued
           /\ HttpTypeOK /\ req[feed] \in Reqs
           /\ req[feed].pc # "idle" <=> seg.pc \in {"wire", "noting", "signing"}
           /\ g_lock = feed <=> seg.pc = "signing"
           /\ seg.pc # "ask" => seg.taken = NoSock
           /\ seg.pc = "noting" => req[feed].pc = "told" /\ seg.pre # NoSock
           /\ req[feed].pc \in {"idle", "over"} => req[feed].s = NoSock /\ req[feed].pre = NoSock
           /\ seg.pre # NoSock => seg.pre \in Socks /\ seg.pre \in Opened
           /\ seg.taken # NoSock => seg.taken \in Socks /\ seg.taken \in Opened /\ seg.taken # seg.pre
<1>1. feed \in Threads /\ feed \notin ApiThreads /\ feed # Nobody
    BY SegmentsAssumption
<1>2. /\ seg \in Fetches /\ epoch \in Nat /\ sleeps \in Nat /\ g_token \in Nat /\ issued \in Nat
      /\ g_token <= issued /\ HttpTypeOK
    BY DEF RInv, RequestsTypeOK, SegTypeOK, ApiTypeOK, TokenInv
<1>3. /\ seg.pre \in MaybeSock /\ seg.taken \in MaybeSock
      /\ seg.index \in Int /\ seg.pre_seg \in Int /\ seg.pre_epoch \in Nat /\ seg.token \in Nat
    BY <1>2 DEF Fetches
<1>4. (Busy(feed) <=> seg.pc \in {"wire", "noting", "signing"}) /\ (Signing(feed) <=> seg.pc = "signing")
    BY <1>1 DEF Busy, Signing
<1>5. /\ req[feed].pc # "idle" <=> seg.pc \in {"wire", "noting", "signing"}
      /\ g_lock = feed <=> seg.pc = "signing"
      /\ seg.pc # "ask" => seg.taken = NoSock
      /\ seg.pc = "noting" => req[feed].pc = "told" /\ seg.pre # NoSock
      /\ req[feed].pc \in {"idle", "over"} => req[feed].s = NoSock /\ req[feed].pre = NoSock
    BY <1>1, <1>4 DEF RInv, PlacesInv, InFlight
<1>6. In("keep", feed) = seg.pre /\ In("taken", feed) = seg.taken /\ "keep" \in Kinds /\ "taken" \in Kinds
    BY DEF In, Kinds
<1>7. seg.pre # NoSock => seg.pre \in Socks /\ seg.pre \in Opened
    BY <1>1, <1>3, <1>6 DEF RInv, Owned, MaybeSock
<1>8. seg.taken # NoSock => seg.taken \in Socks /\ seg.taken \in Opened /\ seg.taken # seg.pre
    BY <1>1, <1>3, <1>6 DEF RInv, Owned, MaybeSock
<1> QED BY <1>1, <1>2, <1>3, <1>5, <1>7, <1>8, TheReq

LEMMA FeedTurns ==
    ASSUME RInv,
           UNCHANGED <<g_cancel, g_reading, canceller, call, live, issued, refused, g_user_id>>,
           req' \in [Threads -> Reqs], \A u \in Threads \ {feed} : req'[u] = req[u],
           sock' \in [Socks -> Sockets], \A s \in Opened \ {seg.pre} : sock'[s] = sock[s],
           req'[feed].s = req[feed].s, req'[feed].pc # "start" => req'[feed].pre = NoSock,
           req'[feed].pc \in InFlight <=> req'[feed].s # NoSock,
           req'[feed].pc # "idle" <=> seg'.pc \in {"wire", "noting", "signing"},
           seg'.taken # NoSock => seg'.pc = "ask",
           seg'.pc = "noting" => req'[feed].pc = "told" /\ seg'.pre # NoSock,
           seg'.pc = "signing" =>
              /\ req'[feed].pc = "start" /\ req'[feed].pre = NoSock
              /\ req'[feed].asked = Asks("signin", 0, 0) /\ req'[feed].status = 0,
           g_token' \in Nat, g_lock' \in Threads \cup {Nobody},
           g_token <= g_token', g_token' <= issued,
           g_token' # g_token => g_lock = feed,
           g_lock' = feed <=> seg'.pc = "signing",
           \A u \in Threads \ {feed} : g_lock' = u <=> g_lock = u
    PROVE  HttpTypeOK' /\ ApiTypeOK' /\ PlacesInv' /\ CancelInv' /\ CallInv' /\ TokenInv'
<1>0. feed \in Threads /\ feed \notin ApiThreads
    BY TheFeed
<1>1. HttpTypeOK' /\ ApiTypeOK'
    BY DEF RInv, RequestsTypeOK, HttpTypeOK, ApiTypeOK
<1>2. ASSUME NEW u \in Threads, NEW k \in {"s", "pre"}, In(k, u) # NoSock
      PROVE  sock'[In(k, u)] = sock[In(k, u)]
    <2>1. In("keep", feed) = seg.pre /\ "keep" \in Kinds /\ k \in Kinds /\ k # "keep"
        BY DEF In, Kinds
    <2>2. In(k, u) \in Opened /\ In(k, u) # seg.pre
        <3>1. In("s", u) = req[u].s /\ In("pre", u) = req[u].pre
            BY DEF In
        <3>2. In(k, u) \in Opened
            BY <1>2, <3>1, TheReq
        <3>3. In(k, u) # In("keep", feed)
            BY <1>0, <1>2, <2>1 DEF RInv, Owned
        <3> QED BY <2>1, <3>2, <3>3
    <2> QED BY <2>2
<1>3. ASSUME NEW u \in Threads
      PROVE  /\ req[u].s # NoSock => sock'[req[u].s] = sock[req[u].s]
             /\ req[u].pre # NoSock => sock'[req[u].pre] = sock[req[u].pre]
    <2>1. In("s", u) = req[u].s /\ In("pre", u) = req[u].pre
        BY DEF In
    <2> QED BY <1>2, <2>1
<1>4. ASSUME NEW u \in Threads \ {feed}
      PROVE  /\ req'[u] = req[u] /\ (req[u].pc \in Asking => Carried(u)' = Carried(u))
             /\ (Busy(u)' <=> Busy(u)) /\ (Signing(u)' <=> Signing(u))
    <2>1. (Busy(u)' <=> Busy(u)) /\ (Signing(u)' <=> Signing(u))
        BY DEF Busy, Signing
    <2>2. ASSUME req[u].pc \in Asking PROVE Carried(u)' = Carried(u)
        <3>1. CASE req[u].pc = "start" /\ req[u].pre = NoSock
            BY <3>1 DEF Carried
        <3>2. CASE req[u].pc = "start" /\ req[u].pre # NoSock
            BY <1>3, <3>2 DEF Carried
        <3>3. CASE req[u].pc # "start"
            <4>1. req[u].s # NoSock
                BY <2>2, <3>3, TheReq DEF Asking, InFlight
            <4> QED BY <1>3, <3>3, <4>1 DEF Carried
        <3> QED BY <3>1, <3>2, <3>3
    <2> QED BY <2>1, <2>2
<1>5. PlacesInv'
    <2>1. ASSUME NEW u \in Threads
          PROVE  (/\ req[u].pc \in InFlight <=> req[u].s # NoSock
                  /\ req[u].pc # "start" => req[u].pre = NoSock
                  /\ req[u].pc # "idle" <=> Busy(u)
                  /\ g_lock = u <=> Signing(u)
                  /\ Signing(u) => req[u].pre = NoSock)'
        <3>1. CASE u = feed
            <4>1. /\ Busy(feed)' <=> seg'.pc \in {"wire", "noting", "signing"}
                  /\ Signing(feed)' <=> seg'.pc = "signing"
                BY <1>0 DEF Busy, Signing
            <4> QED BY <3>1, <4>1
        <3>2. CASE u # feed
            BY <1>4, <3>2 DEF RInv, PlacesInv
        <3> QED BY <3>1, <3>2
    <2>2. ASSUME NEW u \in ApiThreads PROVE (call[u].pc # "idle" => req[u].pre = NoSock)'
        BY <1>0, ApiThreadsAssumption DEF RInv, PlacesInv
    <2> QED BY <2>1, <2>2 DEF PlacesInv
<1>6. CancelInv'
    <2>1. ASSUME NEW u \in canceller.caught
          PROVE  req'[u].s = req[u].s /\ sock'[req[u].s] = sock[req[u].s]
        <3>1. u \in Threads /\ req[u].s # NoSock
            BY DEF RInv, CancelInv, RequestsTypeOK, HttpTypeOK, Cancels
        <3> QED BY <1>3, <3>1
    <2> QED BY <2>1, CancelWaits
<1>7. CallInv'
    <2>1. ASSUME NEW u \in ApiThreads
          PROVE  (/\ call[u].pc = "sent" =>
                        /\ req[u].pc \in Asking =>
                              Carried(u) = Asks("call", 0, call[u].token) /\ req[u].status = 0
                        /\ req[u].status = 401 => call[u].token \in refused
                  /\ call[u].pc = "refused" => call[u].token \in refused)'
        <3>1. u \in Threads \ {feed}
            BY <1>0, ApiThreadsAssumption
        <3> QED BY <1>4, <3>1 DEF RInv, CallInv
    <2> QED BY <2>1 DEF CallInv
<1>8. TokenInv'
    <2>0. TokenInv
        BY DEF RInv
    <2>1. ASSUME NEW u \in ApiThreads
          PROVE  (/\ call[u].token <= g_token
                  /\ call[u].pc = "again" => call[u].token < g_token
                  /\ call[u].pc = "sent" /\ call[u].retried => call[u].was < call[u].token)'
        <3>1. call'[u] = call[u] /\ call[u].token \in Nat /\ g_token \in Nat
            BY DEF RInv, RequestsTypeOK, ApiTypeOK, Calls
        <3> QED BY <2>0, <3>1 DEF TokenInv
    <2>2. ASSUME NEW u \in Threads, Signing(u)'
          PROVE  (/\ req[u].pc \in Asking =>
                        /\ Carried(u).kind = "signin" /\ Carried(u).seg = 0 /\ req[u].status = 0
                        /\ Carried(u).token # 0 => g_token < Carried(u).token /\ Carried(u).token <= issued
                  /\ req[u].status = 200 => g_token < req[u].came.token /\ req[u].came.token <= issued)'
        <3>1. CASE u = feed
            <4>1. seg'.pc = "signing"
                BY <1>0, <2>2, <3>1 DEF Signing
            <4>2. Carried(feed)' = Asks("signin", 0, 0)
                BY <4>1 DEF Carried
            <4> QED BY <3>1, <4>1, <4>2 DEF Asks
        <3>2. CASE u # feed
            <4>1. Signing(u)
                BY <1>4, <2>2, <3>2
            <4>2. g_lock = u /\ g_token' = g_token
                BY <3>2, <4>1 DEF RInv, PlacesInv
            <4> QED BY <1>4, <2>0, <3>2, <4>1, <4>2 DEF TokenInv
        <3> QED BY <3>1, <3>2
    <2> QED BY <2>1, <2>2 DEF TokenInv
<1> QED BY <1>1, <1>5, <1>6, <1>7, <1>8

\* What was sent ahead is gone, or lies as it was.
PreGone == seg'.pre = NoSock /\ seg'.pre_epoch = 0
PreStays ==
    /\ seg'.pre = seg.pre /\ seg'.pre_seg = seg.pre_seg /\ seg'.pre_epoch = seg.pre_epoch
    /\ seg'.torn <=> seg.torn
    /\ seg.pre # NoSock => sock'[seg.pre] = sock[seg.pre]

LEMMA PreIsFine ==
    ASSUME RInv, PreGone \/ PreStays, seg.pc # "noting", seg'.pc # "noting", UNCHANGED <<epoch, sleeps>>
    PROVE  /\ DeadInv'
           /\ seg'.pre # NoSock =>
                 sock'[seg'.pre].asked.kind = "seg" /\ sock'[seg'.pre].asked.seg = seg'.pre_seg
<1>1. CASE PreGone
    BY <1>1, TheFeed DEF PreGone, RInv, DeadInv
<1>2. CASE PreStays
    <2>1. DeadInv'
        BY <1>2, TheFeed DEF PreStays, RInv, DeadInv
    <2>2. seg'.pre # NoSock =>
             sock'[seg'.pre].asked.kind = "seg" /\ sock'[seg'.pre].asked.seg = seg'.pre_seg
        BY <1>2, TheFeed DEF PreStays, RInv, SegInv
    <2> QED BY <2>1, <2>2
<1> QED BY <1>1, <1>2

LEMMA SegClosed ==
    ASSUME NEW r \in Fetches
    PROVE  /\ seg_close(r) \in Fetches /\ seg_close(r).pre = NoSock /\ seg_close(r).pre_epoch = 0
           /\ seg_close(r).pc = r.pc /\ seg_close(r).index = r.index /\ seg_close(r).taken = r.taken
<1>1. PICK torn \in BOOLEAN : torn = FALSE
    OBVIOUS
<1>2. PICK n \in Int : n = NoSeg
    BY DEF NoSeg
<1>3. PICK q : q = [r EXCEPT !.pre = NoSock, !.pre_seg = n, !.pre_epoch = 0, !.torn = torn]
    OBVIOUS
<1>4. q \in Fetches /\ q.pre = NoSock /\ q.pre_epoch = 0 /\ q.pc = r.pc /\ q.index = r.index /\ q.taken = r.taken
    BY <1>3 DEF Fetches, MaybeSock
<1>5. seg_close(r) = q
    BY <1>1, <1>2, <1>3, Zenon DEF seg_close
<1> QED BY <1>4, <1>5

LEMMA Rested ==
    ASSUME NEW r \in Fetches
    PROVE  /\ Rest(r) \in Fetches /\ Rest(r).pre = r.pre /\ Rest(r).pre_epoch = r.pre_epoch
           /\ Rest(r).pre_seg = r.pre_seg /\ (Rest(r).torn <=> r.torn)
           /\ Rest(r).pc = "idle" /\ Rest(r).taken = r.taken
<1>1. PICK again \in BOOLEAN : again = FALSE
    OBVIOUS
<1>2. PICK n \in Int : n = NoSeg
    BY DEF NoSeg
<1>3. PICK q : q = [r EXCEPT !.pc = "idle", !.index = n, !.again = again, !.token = 0]
    OBVIOUS
<1>4. /\ q \in Fetches /\ q.pre = r.pre /\ q.pre_epoch = r.pre_epoch /\ q.pre_seg = r.pre_seg
      /\ q.torn = r.torn /\ q.pc = "idle" /\ q.taken = r.taken
    BY <1>3 DEF Fetches, MaybeSock
<1>5. Rest(r) = q
    BY <1>1, <1>2, <1>3, Zenon DEF Rest
<1> QED BY <1>4, <1>5

LEMMA TheNext == ASSUME NEW i \in Int PROVE Next(i) \in Int
BY SegmentsAssumption DEF Next

\* The one sent ahead is let go of; nothing else moves.
LEMMA KeepGoes ==
    ASSUME RInv, sock' = Closed(seg.pre), seg'.pre = NoSock, seg'.taken = seg.taken,
           \A u \in Threads : req'[u].s = req[u].s /\ req'[u].pre = req[u].pre
    PROVE  /\ Owned' /\ sock' \in [Socks -> Sockets]
           /\ \A s \in Opened \ {seg.pre} : sock'[s] = sock[s]
<1>1. /\ sock' \in [Socks -> Sockets] /\ Opened' = Opened \ {seg.pre}
      /\ \A s \in Socks \ {seg.pre} : sock'[s] = sock[s]
    BY ClosedIs, TheFeed
<1>2. In("keep", feed) = seg.pre /\ In("keep", feed)' = NoSock /\ "keep" \in Kinds /\ feed \in Threads
    BY TheFeed DEF In, Kinds
<1>3. ASSUME NEW k \in Kinds, NEW u \in Threads, k # "keep" \/ u # feed PROVE In(k, u)' = In(k, u)
    BY <1>3 DEF In, Kinds
<1>4. Owned'
    BY <1>1, <1>2, <1>3, OwnedLetsGo DEF RInv
<1> QED BY <1>1, <1>4 DEF Opened

LEMMA NothingGoes ==
    ASSUME RInv, sock' = sock, seg'.pre = seg.pre, seg'.taken = seg.taken,
           \A u \in Threads : req'[u].s = req[u].s /\ req'[u].pre = req[u].pre
    PROVE  /\ Owned' /\ sock' \in [Socks -> Sockets]
           /\ \A s \in Opened \ {seg.pre} : sock'[s] = sock[s]
<1>1. Opened' = Opened
    BY DEF Opened
<1>2. ASSUME NEW k \in Kinds, NEW u \in Threads PROVE In(k, u)' = In(k, u)
    BY <1>2 DEF In, Kinds
<1>3. Owned'
    BY <1>1, <1>2, OwnedSame DEF RInv
<1> QED BY <1>3, TheFeed DEF HttpTypeOK
\* What a step of the feed that stays off the wire has to show.
LEMMA OffTheWire ==
    ASSUME RInv,
           UNCHANGED <<g_cancel, g_reading, canceller, req, apiVars, epoch, sleeps, leaving>>,
           seg.pc \in {"idle", "check"}, seg'.pc \in {"idle", "check", "ask"}, seg' \in Fetches,
           g_next_seg' \in Nat, staged' \in [want : Int, got : Int], staged'.want = staged'.got,
           Owned', sock' \in [Socks -> Sockets], \A s \in Opened \ {seg.pre} : sock'[s] = sock[s],
           PreGone \/ PreStays,
           seg'.taken # NoSock =>
              /\ seg'.pc = "ask"
              /\ sock'[seg'.taken].asked.kind = "seg" /\ sock'[seg'.taken].asked.seg = seg'.index
    PROVE  RInv'
<1>1. UNCHANGED <<call, live, issued, refused, g_user_id, g_token, g_lock>>
    BY DEF apiVars
<1>2. /\ feed \in Threads /\ req[feed].pc = "idle" /\ req[feed].s = NoSock /\ req[feed].pre = NoSock
      /\ g_token \in Nat /\ g_token <= issued /\ g_lock # feed /\ g_lock \in Threads \cup {Nobody}
    BY TheFeed DEF RInv, RequestsTypeOK, ApiTypeOK
<1>3. req' \in [Threads -> Reqs]
    BY TheFeed DEF HttpTypeOK
<1>4. HttpTypeOK' /\ ApiTypeOK' /\ PlacesInv' /\ CancelInv' /\ CallInv' /\ TokenInv'
    BY <1>1, <1>2, <1>3, FeedTurns DEF InFlight
<1>5. SegTypeOK'
    BY DEF RInv, RequestsTypeOK, SegTypeOK
<1>6. DeadInv' /\ (seg'.pre # NoSock =>
             sock'[seg'.pre].asked.kind = "seg" /\ sock'[seg'.pre].asked.seg = seg'.pre_seg)
    BY PreIsFine
<1>7. SegInv'
    BY <1>6 DEF SegInv
<1> QED BY <1>4, <1>5, <1>6, <1>7 DEF RInv, RequestsTypeOK

LEMMA SegOpensKeeps ==
    ASSUME RInv, SegOpens
    PROVE  RInv'
<1>0. /\ seg.pc = "idle" /\ g_next_seg' \in 0 .. LastSeg /\ sock' = Closed(seg.pre)
      /\ seg' = seg_close(seg)
      /\ UNCHANGED <<g_cancel, g_reading, req, canceller, apiVars, staged, epoch, sleeps, leaving>>
    BY DEF SegOpens
<1>1. /\ seg' \in Fetches /\ seg'.pre = NoSock /\ seg'.pre_epoch = 0 /\ seg'.pc = "idle"
      /\ seg'.taken = seg.taken /\ seg.taken = NoSock
    BY <1>0, SegClosed, TheFeed
<1>2. /\ Owned' /\ sock' \in [Socks -> Sockets]
      /\ \A s \in Opened \ {seg.pre} : sock'[s] = sock[s]
    BY <1>0, <1>1, KeepGoes
<1>3. g_next_seg' \in Nat
    BY <1>0, SegmentsAssumption
<1>4. staged' \in [want : Int, got : Int] /\ staged'.want = staged'.got
    BY <1>0 DEF RInv, RequestsTypeOK, SegTypeOK, SegInv
<1> QED BY <1>0, <1>1, <1>2, <1>3, <1>4, OffTheWire DEF PreGone

LEMMA FetchBeginsKeeps ==
    ASSUME RInv, FetchBegins
    PROVE  RInv'
<1>0. /\ seg.pc = "idle" /\ staged' = [want |-> NoSeg, got |-> NoSeg]
      /\ UNCHANGED <<g_cancel, g_reading, sock, req, canceller, apiVars, g_next_seg, epoch, sleeps, leaving>>
    BY DEF FetchBegins, httpVars
<1>1. PICK i \in {g_next_seg, -1} : seg' = [seg EXCEPT !.pc = "check", !.index = i, !.again = FALSE]
    BY DEF FetchBegins
<1>2. i \in Int /\ g_next_seg \in Nat
    BY DEF RInv, RequestsTypeOK, SegTypeOK
<1>3. PICK again \in BOOLEAN : again = FALSE
    OBVIOUS
<1>4. seg' = [seg EXCEPT !.pc = "check", !.index = i, !.again = again]
    BY <1>1, <1>3, Zenon
<1>5. /\ seg' \in Fetches /\ seg'.pc = "check" /\ seg'.pre = seg.pre /\ seg'.taken = seg.taken
      /\ seg'.pre_seg = seg.pre_seg /\ seg'.pre_epoch = seg.pre_epoch /\ (seg'.torn <=> seg.torn)
      /\ seg.taken = NoSock
    BY <1>0, <1>2, <1>4, TheFeed DEF Fetches
<1>6. /\ Owned' /\ sock' \in [Socks -> Sockets]
      /\ \A s \in Opened \ {seg.pre} : sock'[s] = sock[s]
    BY <1>0, <1>5, NothingGoes
<1>7. staged' \in [want : Int, got : Int] /\ staged'.want = staged'.got
    BY <1>0 DEF NoSeg
<1> QED BY <1>0, <1>2, <1>5, <1>6, <1>7, OffTheWire DEF PreStays

LEMMA FetchChecksKeeps ==
    ASSUME RInv, FetchChecks
    PROVE  RInv'
<1>0. /\ seg.pc = "check" /\ seg.taken = NoSock /\ seg \in Fetches
      /\ UNCHANGED <<g_cancel, g_reading, req, canceller, apiVars, g_next_seg, staged, epoch, sleeps, leaving>>
      /\ g_next_seg \in Nat /\ staged \in [want : Int, got : Int] /\ staged.want = staged.got
    BY TheFeed DEF FetchChecks, RInv, RequestsTypeOK, SegTypeOK, SegInv
<1>1. CASE sock' = Closed(seg.pre) /\ seg' = [seg_close(seg) EXCEPT !.pc = "ask", !.taken = NoSock]
    <2>1. PICK q : q = seg_close(seg)
        OBVIOUS
    <2>2. q \in Fetches /\ q.pre = NoSock /\ q.pre_epoch = 0
        BY <1>0, <2>1, SegClosed
    <2>3. seg' = [q EXCEPT !.pc = "ask", !.taken = NoSock]
        BY <1>1, <2>1
    <2>4. /\ seg' \in Fetches /\ seg'.pc = "ask" /\ seg'.pre = NoSock /\ seg'.pre_epoch = 0
          /\ seg'.taken = NoSock
        BY <2>2, <2>3 DEF Fetches, MaybeSock
    <2>5. /\ Owned' /\ sock' \in [Socks -> Sockets]
          /\ \A s \in Opened \ {seg.pre} : sock'[s] = sock[s]
        BY <1>0, <1>1, <2>4, KeepGoes
    <2> QED BY <1>0, <2>4, <2>5, OffTheWire DEF PreGone
<1>2. CASE Takes(seg) /\ seg' = [seg_close(seg) EXCEPT !.pc = "ask", !.taken = seg.pre] /\ sock' = sock
    <2>1. PICK q : q = seg_close(seg)
        OBVIOUS
    <2>2. q \in Fetches /\ q.pre = NoSock /\ q.pre_epoch = 0 /\ q.index = seg.index
        BY <1>0, <2>1, SegClosed
    <2>3. seg' = [q EXCEPT !.pc = "ask", !.taken = seg.pre] /\ seg.pre \in MaybeSock
        BY <1>2, <2>1, TheFeed
    <2>4. /\ seg' \in Fetches /\ seg'.pc = "ask" /\ seg'.pre = NoSock /\ seg'.pre_epoch = 0
          /\ seg'.taken = seg.pre /\ seg'.index = seg.index
        BY <2>2, <2>3 DEF Fetches, MaybeSock
    <2>5. seg.pre # NoSock /\ seg.pre_seg = seg.index
        BY <1>2 DEF Takes
    <2>6. sock[seg.pre].asked.kind = "seg" /\ sock[seg.pre].asked.seg = seg.index
        BY <1>0, <2>5 DEF RInv, SegInv
    <2>7. Opened' = Opened
        BY <1>2 DEF Opened
    <2>8. /\ In("taken", feed) = NoSock /\ In("keep", feed)' = NoSock
          /\ In("taken", feed)' = In("keep", feed) /\ "keep" \in Kinds /\ "taken" \in Kinds
          /\ feed \in Threads
        BY <1>0, <2>4, TheFeed DEF In, Kinds
    <2>9. ASSUME NEW k \in Kinds, NEW u \in Threads, k \notin {"keep", "taken"} \/ u # feed
          PROVE  In(k, u)' = In(k, u)
        BY <1>0, <2>9 DEF In, Kinds
    <2>10. Owned'
        BY <2>7, <2>8, <2>9, OwnedMoves DEF RInv
    <2>11. sock' \in [Socks -> Sockets]
        BY <1>2, TheFeed DEF HttpTypeOK
    <2> QED BY <1>0, <1>2, <2>4, <2>6, <2>10, <2>11, OffTheWire DEF PreGone
<1>3. CASE seg' = [seg EXCEPT !.pc = "ask", !.taken = NoSock] /\ sock' = sock
    <2>1. /\ seg' \in Fetches /\ seg'.pc = "ask" /\ seg'.pre = seg.pre /\ seg'.taken = NoSock
          /\ seg'.pre_seg = seg.pre_seg /\ seg'.pre_epoch = seg.pre_epoch /\ (seg'.torn <=> seg.torn)
        BY <1>0, <1>3 DEF Fetches, MaybeSock
    <2>2. /\ Owned' /\ sock' \in [Socks -> Sockets]
          /\ \A s \in Opened \ {seg.pre} : sock'[s] = sock[s]
        BY <1>0, <1>3, <2>1, NothingGoes
    <2> QED BY <1>0, <1>3, <2>1, <2>2, OffTheWire DEF PreStays
<1> QED BY <1>1, <1>2, <1>3 DEF FetchChecks

LEMMA FetchAsksKeeps ==
    ASSUME RInv, FetchAsks
    PROVE  RInv'
<1>0. /\ seg.pc = "ask" /\ g_lock = Nobody
      /\ UNCHANGED <<g_cancel, g_reading, sock, canceller, apiVars, g_next_seg, staged, epoch, sleeps, leaving>>
      /\ UNCHANGED <<call, live, issued, refused, g_user_id, g_token, g_lock>>
    BY DEF FetchAsks, Unlocked, apiVars
<1>1. /\ feed \in Threads /\ feed # Nobody /\ req[feed].pc = "idle"
      /\ req[feed].s = NoSock /\ req[feed].pre = NoSock
      /\ g_token \in Nat /\ g_token <= issued /\ seg.taken \in MaybeSock /\ seg.pre \in MaybeSock
      /\ HttpTypeOK /\ seg \in Fetches
    BY <1>0, TheFeed
<1>2. PICK a \in Askeds : a = Asks("seg", seg.index, g_token)
    BY TheAsked, TheFeed
<1>3. PICK hears \in BOOLEAN : hears = TRUE
    OBVIOUS
<1>4. req' = Begun(feed, a, seg.taken, hears)
    BY <1>2, <1>3, Zenon DEF FetchAsks
<1>5. /\ req' \in [Threads -> Reqs]
      /\ \A u \in Threads \ {feed} : req'[u] = req[u]
      /\ req'[feed].pc = "start" /\ req'[feed].asked = a /\ req'[feed].pre = seg.taken
      /\ req'[feed].s = NoSock
    BY <1>1, <1>4, BegunIs
<1>6. seg' = [seg EXCEPT !.pc = "wire", !.token = g_token, !.taken = NoSock]
    BY DEF FetchAsks
<1>7. /\ seg' \in Fetches /\ seg'.pc = "wire" /\ seg'.pre = seg.pre /\ seg'.taken = NoSock
      /\ seg'.pre_seg = seg.pre_seg /\ seg'.pre_epoch = seg.pre_epoch /\ (seg'.torn <=> seg.torn)
      /\ seg'.index = seg.index
    BY <1>1, <1>6 DEF Fetches, MaybeSock
<1>8. Owned'
    <2>1. Opened' = Opened
        BY <1>0 DEF Opened
    <2>2. /\ In("pre", feed) = NoSock /\ In("taken", feed)' = NoSock
          /\ In("pre", feed)' = In("taken", feed) /\ "pre" \in Kinds /\ "taken" \in Kinds
        BY <1>1, <1>5, <1>7 DEF In, Kinds
    <2>3. ASSUME NEW k \in Kinds, NEW u \in Threads, k \notin {"taken", "pre"} \/ u # feed
          PROVE  In(k, u)' = In(k, u)
        <3>1. CASE u # feed
            BY <1>5, <3>1 DEF In, Kinds
        <3>2. CASE u = feed /\ k \in {"s", "keep"}
            BY <1>1, <1>5, <1>7, <3>2 DEF In
        <3> QED BY <2>3, <3>1, <3>2 DEF Kinds
    <2> QED BY <1>1, <2>1, <2>2, <2>3, OwnedMoves DEF RInv
<1>9. sock' \in [Socks -> Sockets] /\ \A s \in Opened \ {seg.pre} : sock'[s] = sock[s]
    BY <1>0, <1>1 DEF HttpTypeOK
<1>10. g_lock \in Threads \cup {Nobody}
    BY <1>0
<1>11. HttpTypeOK' /\ ApiTypeOK' /\ PlacesInv' /\ CancelInv' /\ CallInv' /\ TokenInv'
    BY <1>0, <1>1, <1>5, <1>7, <1>9, <1>10, FeedTurns DEF InFlight
<1>12. DeadInv' /\ (seg'.pre # NoSock =>
             sock'[seg'.pre].asked.kind = "seg" /\ sock'[seg'.pre].asked.seg = seg'.pre_seg)
    BY <1>0, <1>7, PreIsFine DEF PreStays
<1>13. SegInv'
    <2>1. Carried(feed)'.kind = "seg" /\ Carried(feed)'.seg = seg.index
        <3>1. CASE seg.taken = NoSock
            <4>1. Carried(feed)' = a
                BY <1>5, <3>1 DEF Carried
            <4> QED BY <1>2, <4>1 DEF Asks
        <3>2. CASE seg.taken # NoSock
            <4>1. Carried(feed)' = sock[seg.taken].asked
                BY <1>0, <1>5, <3>2 DEF Carried
            <4> QED BY <3>2, <4>1 DEF RInv, SegInv
        <3> QED BY <3>1, <3>2
    <2>2. ~HasCome(feed)'
        BY <1>5 DEF HasCome
    <2>3. (staged.want = staged.got)'
        BY <1>0 DEF RInv, SegInv
    <2> QED BY <1>7, <1>12, <2>1, <2>2, <2>3 DEF SegInv
<1>14. SegTypeOK'
    BY <1>0, <1>7 DEF RInv, RequestsTypeOK, SegTypeOK
<1> QED BY <1>8, <1>11, <1>12, <1>13, <1>14 DEF RInv, RequestsTypeOK
\* The feed's reply is told, and it goes on to the body.
LEMMA GoesToBody ==
    ASSUME RInv, req[feed].pc = "told", req' = [req EXCEPT ![feed].pc = "body"]
    PROVE  /\ req' \in [Threads -> Reqs] /\ \A u \in Threads \ {feed} : req'[u] = req[u]
           /\ req'[feed].pc = "body" /\ req'[feed].s = req[feed].s /\ req'[feed].pre = NoSock
           /\ req[feed].pre = NoSock /\ req[feed].s # NoSock
           /\ HasCome(feed) /\ req'[feed].came = req[feed].came
<1>1. PICK r : r = [req[feed] EXCEPT !.pc = "body"]
    OBVIOUS
<1>2. r \in Reqs /\ r.pc = "body" /\ r.s = req[feed].s /\ r.pre = req[feed].pre /\ r.came = req[feed].came
    BY <1>1, TheFeed DEF Reqs
<1>3. req' = [req EXCEPT ![feed] = r]
    BY <1>1, TheFeed DEF HttpTypeOK
<1>4. req' \in [Threads -> Reqs] /\ req'[feed] = r /\ \A u \in Threads \ {feed} : req'[u] = req[u]
    BY <1>2, <1>3, TheFeed, ReqChanged
<1> QED BY <1>2, <1>4, TheReq, TheFeed DEF InFlight, HasCome

\* What a step of the feed inside its request has to show.
LEMMA OnTheWire ==
    ASSUME RInv, req[feed].pc = "told", seg.pc \in {"wire", "noting"},
           UNCHANGED <<g_cancel, g_reading, canceller, apiVars, g_next_seg, staged, epoch, sleeps, leaving>>,
           req' \in [Threads -> Reqs], \A u \in Threads \ {feed} : req'[u] = req[u],
           req'[feed].pc \in {"told", "body"}, req'[feed].s = req[feed].s,
           req'[feed].pre = NoSock, req'[feed].came = req[feed].came,
           sock' \in [Socks -> Sockets], \A s \in Opened \ {seg.pre} : sock'[s] = sock[s],
           seg' \in Fetches, seg'.pc \in {"wire", "noting"}, seg'.index = seg.index,
           seg'.taken = NoSock, Owned', DeadInv',
           seg'.pc = "noting" => req'[feed].pc = "told" /\ seg'.pre # NoSock,
           seg'.pre # NoSock =>
              /\ sock'[seg'.pre].asked.kind = "seg"
              /\ seg'.pc # "noting" => sock'[seg'.pre].asked.seg = seg'.pre_seg
              /\ seg'.pc = "noting" => sock'[seg'.pre].asked.seg = Next(seg.index)
    PROVE  RInv'
<1>1. UNCHANGED <<call, live, issued, refused, g_user_id, g_token, g_lock>>
    BY DEF apiVars
<1>2. /\ feed \in Threads /\ g_lock # feed /\ g_lock \in Threads \cup {Nobody}
      /\ g_token \in Nat /\ g_token <= issued /\ req[feed].s # NoSock
    BY TheFeed, TheReq DEF InFlight, RInv, RequestsTypeOK, ApiTypeOK
<1>3. HttpTypeOK' /\ ApiTypeOK' /\ PlacesInv' /\ CancelInv' /\ CallInv' /\ TokenInv'
    BY <1>1, <1>2, FeedTurns DEF InFlight
<1>4. SegTypeOK'
    BY DEF RInv, RequestsTypeOK, SegTypeOK
<1>5. SegInv'
    <2>1. req[feed].came.seg = seg.index /\ staged.want = staged.got
        BY <1>2 DEF RInv, SegInv, HasCome
    <2>2. (staged.want = staged.got)'
        BY <2>1
    <2>3. req'[feed].pc \notin Asking /\ req'[feed].came.seg = seg.index
        BY <2>1 DEF Asking
    <2> QED BY <2>2, <2>3 DEF SegInv
<1> QED BY <1>3, <1>4, <1>5 DEF RInv, RequestsTypeOK

LEMMA PresendSkipped ==
    ASSUME RInv, req[feed].pc = "told", seg.pc = "wire", req' = [req EXCEPT ![feed].pc = "body"],
           UNCHANGED <<g_cancel, g_reading, sock, canceller, apiVars, segVars>>
    PROVE  RInv'
<1>1. UNCHANGED <<seg, g_next_seg, staged, epoch, sleeps, leaving>>
    BY DEF segVars
<1>2. /\ req' \in [Threads -> Reqs] /\ \A u \in Threads \ {feed} : req'[u] = req[u]
      /\ req'[feed].pc = "body" /\ req'[feed].s = req[feed].s /\ req'[feed].pre = NoSock
      /\ req[feed].pre = NoSock /\ req'[feed].came = req[feed].came
    BY GoesToBody
<1>3. \A u \in Threads : req'[u].s = req[u].s /\ req'[u].pre = req[u].pre
    BY <1>2
<1>4. /\ Owned' /\ sock' \in [Socks -> Sockets] /\ \A s \in Opened \ {seg.pre} : sock'[s] = sock[s]
    BY <1>1, <1>3, NothingGoes
<1>5. DeadInv' /\ (seg'.pre # NoSock =>
             sock'[seg'.pre].asked.kind = "seg" /\ sock'[seg'.pre].asked.seg = seg'.pre_seg)
    BY <1>1, PreIsFine DEF PreStays
<1> QED BY <1>1, <1>2, <1>4, <1>5, TheFeed, OnTheWire

LEMMA PresendSendsKeeps ==
    ASSUME RInv, PresendSends
    PROVE  RInv'
<1>0. /\ req[feed].pc = "told" /\ seg.pc = "wire" /\ seg.pre = NoSock
      /\ UNCHANGED <<g_cancel, g_reading, canceller, apiVars, g_next_seg, staged, epoch, sleeps, leaving>>
    BY DEF PresendSends
<1>1. CASE req' = [req EXCEPT ![feed].pc = "body"] /\ UNCHANGED <<sock, seg>>
    BY <1>0, <1>1, PresendSkipped DEF segVars
<1>2. ASSUME NEW s \in Given, sock' = Sent(s, Asks("seg", Next(seg.index), g_token)),
             seg' = [seg EXCEPT !.pc = "noting", !.pre = s, !.torn = FALSE], req' = req
      PROVE  RInv'
    <2>1. s \in Socks \ Opened /\ s # NoSock /\ s \in MaybeSock
        BY GivenIs, SegmentsAssumption DEF MaybeSock
    <2>2. PICK a \in Askeds :
             a = Asks("seg", Next(seg.index), g_token) /\ a.kind = "seg" /\ a.seg = Next(seg.index)
        <3>1. PICK i \in Int : i = Next(seg.index)
            BY TheFeed, TheNext
        <3>2. /\ Asks("seg", i, g_token) \in Askeds
              /\ Asks("seg", i, g_token).kind = "seg" /\ Asks("seg", i, g_token).seg = i
            BY TheFeed, TheAsked
        <3> QED BY <3>1, <3>2
    <2>3. /\ sock' \in [Socks -> Sockets] /\ Opened' = Opened \cup {s}
          /\ \A r \in Socks \ {s} : sock'[r] = sock[r]
          /\ sock'[s].asked = a /\ ~sock'[s].dead
        BY <1>2, <2>1, <2>2, TheFeed, SentIs
    <2>4. \A r \in Opened : sock'[r] = sock[r]
        BY <2>1, <2>3 DEF Opened
    <2>5. PICK torn \in BOOLEAN : torn = FALSE
        OBVIOUS
    <2>6. seg' = [seg EXCEPT !.pc = "noting", !.pre = s, !.torn = torn]
        BY <1>2, <2>5, Zenon
    <2>7. /\ seg' \in Fetches /\ seg'.pc = "noting" /\ seg'.pre = s /\ seg'.taken = seg.taken
          /\ seg'.index = seg.index /\ seg'.pre_epoch = seg.pre_epoch /\ seg.taken = NoSock
        BY <1>0, <2>1, <2>6, TheFeed DEF Fetches
    <2>8. In("keep", feed) = NoSock /\ In("keep", feed)' = s /\ "keep" \in Kinds /\ feed \in Threads
        BY <1>0, <2>7, TheFeed DEF In, Kinds
    <2>9. ASSUME NEW k \in Kinds, NEW u \in Threads, k # "keep" \/ u # feed PROVE In(k, u)' = In(k, u)
        BY <1>2, <2>7, <2>9 DEF In, Kinds
    <2>10. Owned'
        BY <2>1, <2>3, <2>8, <2>9, OwnedGets DEF RInv
    <2>11. DeadInv'
        BY <1>0, <2>3, <2>7 DEF RInv, DeadInv
    <2>12. /\ req' \in [Threads -> Reqs] /\ req'[feed].pre = NoSock
           /\ \A u \in Threads \ {feed} : req'[u] = req[u]
        BY <1>0, <1>2, TheFeed, TheReq DEF HttpTypeOK
    <2> QED BY <1>0, <1>2, <2>1, <2>2, <2>3, <2>4, <2>7, <2>10, <2>11, <2>12, OnTheWire
<1> QED BY <1>1, <1>2 DEF PresendSends

LEMMA PresendNotesKeeps ==
    ASSUME RInv, PresendNotes
    PROVE  RInv'
<1>0. /\ seg.pc = "noting" /\ req[feed].pc = "told" /\ seg.pre # NoSock /\ seg.taken = NoSock
      /\ seg' = [seg EXCEPT !.pc = "wire", !.pre_seg = Next(seg.index), !.pre_epoch = epoch]
      /\ req' = [req EXCEPT ![feed].pc = "body"]
      /\ UNCHANGED <<g_cancel, g_reading, sock, canceller, apiVars, g_next_seg, staged, epoch, sleeps, leaving>>
    BY TheFeed DEF PresendNotes
<1>1. PICK n \in Int : n = Next(seg.index)
    BY TheFeed, TheNext
<1>2. seg' = [seg EXCEPT !.pc = "wire", !.pre_seg = n, !.pre_epoch = epoch]
    BY <1>0, <1>1
<1>3. /\ seg' \in Fetches /\ seg'.pc = "wire" /\ seg'.pre = seg.pre /\ seg'.taken = seg.taken
      /\ seg'.pre_seg = Next(seg.index) /\ seg'.pre_epoch = epoch /\ (seg'.torn <=> seg.torn)
      /\ seg'.index = seg.index
    BY <1>1, <1>2, TheFeed DEF Fetches
<1>4. /\ req' \in [Threads -> Reqs] /\ \A u \in Threads \ {feed} : req'[u] = req[u]
      /\ req'[feed].pc = "body" /\ req'[feed].s = req[feed].s /\ req'[feed].pre = NoSock
      /\ req[feed].pre = NoSock /\ req'[feed].came = req[feed].came
    BY <1>0, GoesToBody
<1>5. \A u \in Threads : req'[u].s = req[u].s /\ req'[u].pre = req[u].pre
    BY <1>4
<1>6. /\ Owned' /\ sock' \in [Socks -> Sockets] /\ \A s \in Opened \ {seg.pre} : sock'[s] = sock[s]
    BY <1>0, <1>3, <1>5, NothingGoes
<1>7. DeadInv'
    BY <1>0, <1>3, TheFeed DEF RInv, DeadInv
<1>8. sock'[seg'.pre].asked.kind = "seg" /\ sock'[seg'.pre].asked.seg = seg'.pre_seg
    BY <1>0, <1>3 DEF RInv, SegInv
<1> QED BY <1>0, <1>3, <1>4, <1>6, <1>7, <1>8, OnTheWire
\* What a step of the feed that leaves the wire, or goes to sign in, has to show.
LEMMA LeavesTheWire ==
    ASSUME RInv, req[feed].pc \in {"idle", "over"}, seg.pc \in {"wire", "refused", "signing"},
           UNCHANGED <<g_cancel, g_reading, canceller, g_user_id, call, live, issued, refused,
                       epoch, sleeps, leaving>>,
           req' \in [Threads -> Reqs], \A u \in Threads \ {feed} : req'[u] = req[u],
           req'[feed].s = NoSock, req'[feed].pre = NoSock,
           seg' \in Fetches, seg'.pc \in {"idle", "refused", "check", "signing"}, seg'.taken = NoSock,
           g_next_seg' \in Nat, staged' \in [want : Int, got : Int], staged'.want = staged'.got,
           Owned', sock' \in [Socks -> Sockets], \A s \in Opened \ {seg.pre} : sock'[s] = sock[s],
           PreGone \/ PreStays,
           g_token' \in Nat, g_lock' \in Threads \cup {Nobody}, g_token <= g_token', g_token' <= issued,
           g_token' # g_token => g_lock = feed,
           \A u \in Threads \ {feed} : g_lock' = u <=> g_lock = u,
           g_lock' = feed <=> seg'.pc = "signing",
           req'[feed].pc = IF seg'.pc = "signing" THEN "start" ELSE "idle",
           seg'.pc = "signing" => req'[feed].asked = Asks("signin", 0, 0) /\ req'[feed].status = 0
    PROVE  RInv'
<1>1. req[feed].s = NoSock /\ feed \in Threads
    BY TheFeed
<1>2. HttpTypeOK' /\ ApiTypeOK' /\ PlacesInv' /\ CancelInv' /\ CallInv' /\ TokenInv'
    BY <1>1, FeedTurns DEF InFlight
<1>3. DeadInv' /\ (seg'.pre # NoSock =>
             sock'[seg'.pre].asked.kind = "seg" /\ sock'[seg'.pre].asked.seg = seg'.pre_seg)
    BY PreIsFine
<1>4. SegInv'
    BY <1>3 DEF SegInv
<1>5. SegTypeOK'
    BY DEF RInv, RequestsTypeOK, SegTypeOK
<1> QED BY <1>2, <1>3, <1>4, <1>5 DEF RInv, RequestsTypeOK

LEMMA FetchEndsKeeps ==
    ASSUME RInv, FetchEnds
    PROVE  RInv'
<1>0. /\ seg.pc = "wire" /\ req[feed].pc = "over" /\ req' = Idled(feed)
      /\ UNCHANGED <<g_cancel, g_reading, canceller, apiVars, epoch, sleeps, leaving>>
      /\ UNCHANGED <<call, live, issued, refused, g_user_id, g_token, g_lock>>
    BY DEF FetchEnds, Over, apiVars
<1>1. /\ seg \in Fetches /\ seg.taken = NoSock /\ seg.index \in Int
      /\ req[feed].s = NoSock /\ req[feed].pre = NoSock /\ feed \in Threads
      /\ g_lock # feed /\ g_lock \in Threads \cup {Nobody} /\ g_token \in Nat /\ g_token <= issued
      /\ g_next_seg \in Nat /\ staged \in [want : Int, got : Int] /\ staged.want = staged.got
    BY <1>0, TheFeed DEF RInv, RequestsTypeOK, ApiTypeOK, SegTypeOK, SegInv
<1>2. /\ req' \in [Threads -> Reqs] /\ \A u \in Threads \ {feed} : req'[u] = req[u]
      /\ req'[feed].pc = "idle" /\ req'[feed].pre = NoSock /\ req'[feed].s = NoSock
    BY <1>0, TheFeed, IdledIs
<1>3. \A u \in Threads : req'[u].s = req[u].s /\ req'[u].pre = req[u].pre
    BY <1>1, <1>2
<1>4. CASE Arrives
    <2>1. /\ seg' = Rest(seg) /\ sock' = sock
          /\ staged' = [want |-> seg.index, got |-> req[feed].came.seg]
          /\ g_next_seg' \in {g_next_seg, g_next_seg + 1}
        BY <1>4 DEF Arrives
    <2>2. req[feed].rc = "OK"
        BY <1>1, <1>4 DEF Arrives, Verdict, seg_verdict
    <2>3. req[feed].came.seg = seg.index
        BY <1>0, <2>2 DEF RInv, SegInv, HasCome
    <2>4. staged' \in [want : Int, got : Int] /\ staged'.want = staged'.got /\ g_next_seg' \in Nat
        BY <1>1, <2>1, <2>3
    <2>5. /\ seg' \in Fetches /\ seg'.pc = "idle" /\ seg'.pre = seg.pre /\ seg'.taken = NoSock
          /\ seg'.pre_seg = seg.pre_seg /\ seg'.pre_epoch = seg.pre_epoch /\ (seg'.torn <=> seg.torn)
        BY <1>1, <2>1, Rested
    <2>6. /\ Owned' /\ sock' \in [Socks -> Sockets] /\ \A s \in Opened \ {seg.pre} : sock'[s] = sock[s]
        BY <1>1, <1>3, <2>1, <2>5, NothingGoes
    <2>7. PreStays
        BY <2>1, <2>5 DEF PreStays
    <2> QED BY <1>0, <1>1, <1>2, <2>4, <2>5, <2>6, <2>7, LeavesTheWire
<1>5. CASE FetchFails
    <2>0. UNCHANGED <<staged, g_next_seg>>
        BY <1>5 DEF FetchFails
    <2>1. CASE seg' = [seg EXCEPT !.pc = "refused"] /\ UNCHANGED sock
        <3>1. /\ seg' \in Fetches /\ seg'.pc = "refused" /\ seg'.pre = seg.pre /\ seg'.taken = NoSock
              /\ seg'.pre_seg = seg.pre_seg /\ seg'.pre_epoch = seg.pre_epoch /\ (seg'.torn <=> seg.torn)
            BY <1>1, <2>1 DEF Fetches
        <3>2. /\ Owned' /\ sock' \in [Socks -> Sockets] /\ \A s \in Opened \ {seg.pre} : sock'[s] = sock[s]
            BY <1>1, <1>3, <2>1, <3>1, NothingGoes
        <3>3. PreStays
            BY <2>1, <3>1 DEF PreStays
        <3> QED BY <1>0, <1>1, <1>2, <2>0, <3>1, <3>2, <3>3, LeavesTheWire
    <2>2. CASE seg' = Rest(seg_close(seg)) /\ sock' = Closed(seg.pre)
        <3>1. PICK q \in Fetches :
                 q = seg_close(seg) /\ q.pre = NoSock /\ q.pre_epoch = 0 /\ q.taken = NoSock
            BY <1>1, SegClosed
        <3>2. /\ seg' \in Fetches /\ seg'.pc = "idle" /\ seg'.pre = NoSock /\ seg'.pre_epoch = 0
              /\ seg'.taken = NoSock
            BY <2>2, <3>1, Rested
        <3>3. /\ Owned' /\ sock' \in [Socks -> Sockets] /\ \A s \in Opened \ {seg.pre} : sock'[s] = sock[s]
            BY <1>1, <1>3, <2>2, <3>2, KeepGoes
        <3>4. PreGone
            BY <3>2 DEF PreGone
        <3> QED BY <1>0, <1>1, <1>2, <2>0, <3>2, <3>3, <3>4, LeavesTheWire
    <2>3. CASE seg' = Rest(seg) /\ UNCHANGED sock
        <3>1. /\ seg' \in Fetches /\ seg'.pc = "idle" /\ seg'.pre = seg.pre /\ seg'.taken = NoSock
              /\ seg'.pre_seg = seg.pre_seg /\ seg'.pre_epoch = seg.pre_epoch /\ (seg'.torn <=> seg.torn)
            BY <1>1, <2>3, Rested
        <3>2. /\ Owned' /\ sock' \in [Socks -> Sockets] /\ \A s \in Opened \ {seg.pre} : sock'[s] = sock[s]
            BY <1>1, <1>3, <2>3, <3>1, NothingGoes
        <3>3. PreStays
            BY <2>3, <3>1 DEF PreStays
        <3> QED BY <1>0, <1>1, <1>2, <2>0, <3>1, <3>2, <3>3, LeavesTheWire
    <2> QED BY <1>5, <2>1, <2>2, <2>3 DEF FetchFails
<1> QED BY <1>4, <1>5 DEF FetchEnds

\* The segment is asked anew, and what was sent ahead is gone.
LEMMA AsksAnew ==
    ASSUME RInv, seg' = AskAnew, sock' = Closed(seg.pre), seg.pc # "ask",
           \A u \in Threads : req'[u].s = req[u].s /\ req'[u].pre = req[u].pre
    PROVE  /\ seg' \in Fetches /\ seg'.pc = "check" /\ seg'.taken = NoSock /\ PreGone
           /\ Owned' /\ sock' \in [Socks -> Sockets] /\ \A s \in Opened \ {seg.pre} : sock'[s] = sock[s]
<1>1. PICK q \in Fetches :
         q = seg_close(seg) /\ q.pre = NoSock /\ q.pre_epoch = 0 /\ q.taken = NoSock
    BY TheFeed, SegClosed
<1>2. PICK again \in BOOLEAN : again = TRUE
    OBVIOUS
<1>3. PICK r : r = [q EXCEPT !.pc = "check", !.again = again]
    OBVIOUS
<1>4. r \in Fetches /\ r.pc = "check" /\ r.taken = NoSock /\ r.pre = NoSock /\ r.pre_epoch = 0
    BY <1>1, <1>3 DEF Fetches
<1>5. seg' = r
    BY <1>1, <1>2, <1>3, Zenon DEF AskAnew
<1>6. seg.taken = NoSock
    BY TheFeed
<1>7. Owned' /\ sock' \in [Socks -> Sockets] /\ \A s \in Opened \ {seg.pre} : sock'[s] = sock[s]
    BY <1>4, <1>5, <1>6, KeepGoes
<1> QED BY <1>4, <1>5, <1>7 DEF PreGone

LEMMA FeedReauthKeeps ==
    ASSUME RInv, FeedReauth
    PROVE  RInv'
<1>0. /\ seg.pc = "refused" /\ g_lock = Nobody
      /\ UNCHANGED <<g_cancel, g_reading, canceller, g_token, g_user_id, call, live, issued, refused,
                     g_next_seg, staged, epoch, sleeps, leaving>>
    BY DEF FeedReauth, Unlocked
<1>1. /\ seg \in Fetches /\ seg.taken = NoSock
      /\ req[feed].pc = "idle" /\ req[feed].s = NoSock /\ req[feed].pre = NoSock
      /\ feed \in Threads /\ feed # Nobody /\ g_token \in Nat /\ g_token <= issued
      /\ g_next_seg \in Nat /\ staged \in [want : Int, got : Int] /\ staged.want = staged.got
      /\ HttpTypeOK
    BY <1>0, TheFeed DEF RInv, RequestsTypeOK, SegTypeOK, SegInv
<1>2. CASE InForce(seg.token)
    <2>1. /\ g_lock' = feed /\ req' = Begun(feed, Asks("signin", 0, 0), NoSock, FALSE)
          /\ seg' = [seg EXCEPT !.pc = "signing"] /\ sock' = sock
        BY <1>2 DEF FeedReauth, SignInBegins
    <2>2. PICK a \in Askeds : a = Asks("signin", 0, 0)
        BY TheAsked
    <2>3. PICK hears \in BOOLEAN : hears = FALSE
        OBVIOUS
    <2>4. req' = Begun(feed, a, NoSock, hears)
        BY <2>1, <2>2, <2>3, Zenon
    <2>5. NoSock \in MaybeSock
        BY DEF MaybeSock
    <2>6. /\ req' \in [Threads -> Reqs] /\ \A u \in Threads \ {feed} : req'[u] = req[u]
          /\ req'[feed].pc = "start" /\ req'[feed].asked = a /\ req'[feed].pre = NoSock
          /\ req'[feed].s = NoSock /\ req'[feed].status = 0
        BY <1>1, <2>4, <2>5, BegunIs
    <2>7. /\ seg' \in Fetches /\ seg'.pc = "signing" /\ seg'.pre = seg.pre /\ seg'.taken = NoSock
          /\ seg'.pre_seg = seg.pre_seg /\ seg'.pre_epoch = seg.pre_epoch /\ (seg'.torn <=> seg.torn)
        BY <1>1, <2>1 DEF Fetches
    <2>8. \A u \in Threads : req'[u].s = req[u].s /\ req'[u].pre = req[u].pre
        BY <1>1, <2>6
    <2>9. /\ Owned' /\ sock' \in [Socks -> Sockets] /\ \A s \in Opened \ {seg.pre} : sock'[s] = sock[s]
        BY <1>1, <2>1, <2>7, <2>8, NothingGoes
    <2>10. PreStays
        BY <2>1, <2>7 DEF PreStays
    <2>11. \A u \in Threads \ {feed} : g_lock' = u <=> g_lock = u
        BY <1>0, <2>1, SegmentsAssumption
    <2>12. /\ req[feed].pc \in {"idle", "over"} /\ seg.pc \in {"wire", "refused", "signing"}
           /\ seg'.pc \in {"idle", "refused", "check", "signing"}
           /\ g_next_seg' \in Nat /\ staged' \in [want : Int, got : Int] /\ staged'.want = staged'.got
           /\ g_token' \in Nat /\ g_lock' \in Threads \cup {Nobody}
           /\ g_token <= g_token' /\ g_token' <= issued
        BY <1>0, <1>1, <2>1, <2>7
    <2>13. /\ req'[feed].pc = IF seg'.pc = "signing" THEN "start" ELSE "idle"
           /\ g_lock' = feed <=> seg'.pc = "signing"
           /\ req'[feed].asked = Asks("signin", 0, 0) /\ req'[feed].status = 0
           /\ g_token' = g_token
        BY <1>0, <2>1, <2>2, <2>6, <2>7
    <2> QED BY <1>0, <2>6, <2>7, <2>9, <2>10, <2>11, <2>12, <2>13, LeavesTheWire
<1>3. CASE ~InForce(seg.token)
    <2>1. g_lock' = g_lock /\ req' = req /\ seg' = AskAnew /\ sock' = Closed(seg.pre)
        BY <1>3 DEF FeedReauth
    <2>2. /\ seg' \in Fetches /\ seg'.pc = "check" /\ seg'.taken = NoSock /\ PreGone
          /\ Owned' /\ sock' \in [Socks -> Sockets] /\ \A s \in Opened \ {seg.pre} : sock'[s] = sock[s]
        BY <1>0, <2>1, AsksAnew
    <2>3. req' \in [Threads -> Reqs]
        BY <1>1, <2>1 DEF HttpTypeOK
    <2> QED BY <1>0, <1>1, <2>1, <2>2, <2>3, LeavesTheWire
<1> QED BY <1>2, <1>3

LEMMA FeedReauthDoneKeeps ==
    ASSUME RInv, FeedReauthDone
    PROVE  RInv'
<1>0. /\ seg.pc = "signing" /\ req[feed].pc = "over" /\ req' = Idled(feed)
      /\ g_lock' = Nobody /\ g_token' = TokenNow(feed)
      /\ UNCHANGED <<g_cancel, g_reading, canceller, g_user_id, call, live, issued, refused,
                     g_next_seg, staged, epoch, sleeps, leaving>>
    BY DEF FeedReauthDone, Over
<1>1. /\ seg \in Fetches /\ seg.taken = NoSock
      /\ req[feed].s = NoSock /\ req[feed].pre = NoSock
      /\ feed \in Threads /\ feed # Nobody /\ g_lock = feed
      /\ g_next_seg \in Nat /\ staged \in [want : Int, got : Int] /\ staged.want = staged.got
    BY <1>0, TheFeed DEF RInv, RequestsTypeOK, SegTypeOK, SegInv
<1>2. /\ req' \in [Threads -> Reqs] /\ \A u \in Threads \ {feed} : req'[u] = req[u]
      /\ req'[feed].pc = "idle" /\ req'[feed].pre = NoSock /\ req'[feed].s = NoSock
    BY <1>0, TheFeed, IdledIs
<1>3. \A u \in Threads : req'[u].s = req[u].s /\ req'[u].pre = req[u].pre
    BY <1>1, <1>2
<1>4. g_token' \in Nat /\ g_token <= g_token' /\ g_token' <= issued
    <2>1. Signing(feed)
        BY <1>0 DEF Signing
    <2> QED BY <1>0, <1>1, <2>1, TheTokenNow
<1>5. \A u \in Threads \ {feed} : g_lock' = u <=> g_lock = u
    BY <1>0, <1>1, SegmentsAssumption
<1>6. CASE SignedIn(feed)
    <2>1. seg' = AskAnew /\ sock' = Closed(seg.pre)
        BY <1>6 DEF FeedReauthDone
    <2>2. /\ seg' \in Fetches /\ seg'.pc = "check" /\ seg'.taken = NoSock /\ PreGone
          /\ Owned' /\ sock' \in [Socks -> Sockets] /\ \A s \in Opened \ {seg.pre} : sock'[s] = sock[s]
        BY <1>0, <1>3, <2>1, AsksAnew
    <2> QED BY <1>0, <1>1, <1>2, <1>4, <1>5, <2>2, LeavesTheWire
<1>7. CASE ~SignedIn(feed)
    <2>1. seg' = Rest(seg) /\ sock' = sock
        BY <1>7 DEF FeedReauthDone
    <2>2. /\ seg' \in Fetches /\ seg'.pc = "idle" /\ seg'.pre = seg.pre /\ seg'.taken = NoSock
          /\ seg'.pre_seg = seg.pre_seg /\ seg'.pre_epoch = seg.pre_epoch /\ (seg'.torn <=> seg.torn)
        BY <1>1, <2>1, Rested
    <2>3. /\ Owned' /\ sock' \in [Socks -> Sockets] /\ \A s \in Opened \ {seg.pre} : sock'[s] = sock[s]
        BY <1>1, <1>3, <2>1, <2>2, NothingGoes
    <2>4. PreStays
        BY <2>1, <2>2 DEF PreStays
    <2> QED BY <1>0, <1>1, <1>2, <1>4, <1>5, <2>2, <2>3, <2>4, LeavesTheWire
<1> QED BY <1>6, <1>7

LEMMA FeedKeeps ==
    ASSUME RInv, FeedStep
    PROVE  RInv'
<1>1. CASE PresendSkips
    BY <1>1, PresendSkipped DEF PresendSkips
<1> QED BY <1>1, FetchBeginsKeeps, FetchChecksKeeps, FetchAsksKeeps, PresendSendsKeeps,
           PresendNotesKeeps, FetchEndsKeeps, FeedReauthKeeps, FeedReauthDoneKeeps DEF FeedStep
-----------------------------------------------------------------------------
(* The invariant holds, and what follows from it.                          *)

LEMMA RequestsBegin ==
    ASSUME RequestsInit
    PROVE  RInv
<1>1. NoReq \in Reqs /\ NoReq.pc = "idle" /\ NoReq.s = NoSock /\ NoReq.pre = NoSock /\ NoReq.status = 0
    BY TheShut DEF NoReq, Reqs, MaybeSock, Rcs
<1>2. NoCancel \in Cancels /\ NoCancel.pc = "idle" /\ NoCancel.caught = {}
    BY SegmentsAssumption DEF NoCancel, Cancels, MaybeSock
<1>3. NoCall \in Calls /\ NoCall.pc = "idle" /\ NoCall.token = 0
    BY DEF NoCall, Calls
<1>4. /\ NoFetch \in Fetches /\ NoFetch.pc = "idle" /\ NoFetch.taken = NoSock /\ NoFetch.pre = NoSock
      /\ NoFetch.pre_epoch = 0
    <2>1. PICK false \in BOOLEAN : false = FALSE
        OBVIOUS
    <2>2. PICK n \in Int : n = NoSeg
        BY DEF NoSeg
    <2>3. PICK f : f = [pc |-> "idle", index |-> n, again |-> false, token |-> 0, taken |-> NoSock,
                        pre |-> NoSock, pre_seg |-> n, pre_epoch |-> 0, torn |-> false]
        OBVIOUS
    <2>4. f \in Fetches /\ f.pc = "idle" /\ f.taken = NoSock /\ f.pre = NoSock /\ f.pre_epoch = 0
        BY <2>3 DEF Fetches, MaybeSock
    <2>5. NoFetch = f
        BY <2>1, <2>2, <2>3, Zenon DEF NoFetch
    <2> QED BY <2>4, <2>5
<1> USE DEF RequestsInit, HttpInit, ApiInit, SegmentsInit
<1>5. HttpTypeOK
    BY <1>1, <1>2, TheShut DEF HttpTypeOK, MaybeSock
<1>6. ApiTypeOK
    BY <1>3 DEF ApiTypeOK
<1>7. SegTypeOK
    <2>1. seg \in Fetches /\ g_next_seg \in Int /\ epoch \in Nat /\ sleeps \in Nat
        BY <1>4
    <2>2. leaving \in BOOLEAN
        <3>1. leaving = FALSE
            OBVIOUS
        <3> QED BY <3>1, Zenon
    <2>3. staged \in [want : Int, got : Int]
        <3>1. staged = [want |-> NoSeg, got |-> NoSeg]
            OBVIOUS
        <3> QED BY <3>1 DEF NoSeg
    <2> QED BY <2>1, <2>2, <2>3 DEF SegTypeOK
<1>8. feed \in Threads /\ feed \notin ApiThreads /\ Nobody \notin Threads
    BY SegmentsAssumption
<1>9. Owned
    <2>1. \A k \in Kinds, t \in Threads : In(k, t) = NoSock
        BY <1>1, <1>4 DEF In, Kinds
    <2>2. \A s \in Socks : s \notin Opened /\ s # NoSock
        BY TheShut, SegmentsAssumption DEF Opened
    <2> QED BY <2>1, <2>2 DEF Owned
<1>10. \A t \in Threads : ~Busy(t) /\ ~Signing(t)
    BY <1>3, <1>4, <1>8 DEF Busy, Signing
<1>11. PlacesInv
    BY <1>1, <1>3, <1>4, <1>8, <1>10, ApiThreadsAssumption DEF PlacesInv, InFlight
<1>12. CancelInv
    BY <1>2 DEF CancelInv
<1>13. SegInv
    BY <1>4 DEF SegInv
<1>14. CallInv
    BY <1>3 DEF CallInv
<1>15. TokenInv
    BY <1>3, <1>10 DEF TokenInv
<1>16. DeadInv
    BY <1>4 DEF DeadInv
<1> HIDE DEF RequestsInit, HttpInit, ApiInit, SegmentsInit
<1> QED BY <1>5, <1>6, <1>7, <1>9, <1>11, <1>12, <1>13, <1>14, <1>15, <1>16 DEF RInv, RequestsTypeOK

LEMMA RequestsStand ==
    ASSUME RInv, UNCHANGED requestVars
    PROVE  RInv'
<1>1. /\ UNCHANGED <<g_cancel, g_reading, sock, req, canceller, call, g_lock, g_token, g_user_id, live,
                     issued, refused, seg, g_next_seg, staged, epoch, sleeps, leaving>>
    BY DEF requestVars, httpVars, apiVars, segVars
<1>2. Owned' /\ PlacesInv' /\ SegInv' /\ CallInv' /\ TokenInv'
    BY <1>1, SocketsMeet
<1>3. CancelInv'
    BY <1>1, CancelWaits
<1>4. DeadInv'
    BY <1>1 DEF RInv, DeadInv
<1>5. RequestsTypeOK'
    BY <1>1 DEF RInv, RequestsTypeOK, HttpTypeOK, ApiTypeOK, SegTypeOK
<1> QED BY <1>2, <1>3, <1>4, <1>5 DEF RInv

LEMMA RequestsStep ==
    ASSUME RInv, [RequestsNext]_requestVars
    PROVE  RInv'
<1>1. ASSUME NEW t \in Threads, (HttpStep(t) \/ HttpBound(t)) /\ UNCHANGED <<apiVars, segVars>>
      PROVE  RInv'
    BY <1>1, MovedKeeps
<1>2. ASSUME NEW t \in Threads, (ServerSignsIn(t) \/ ServerAnswers(t)) /\ UNCHANGED segVars
      PROVE  RInv'
    BY <1>2, MovedKeeps, SignsInKeeps
<1>3. CASE ServerRevokes /\ UNCHANGED segVars
    BY <1>3, RevokesKeeps
<1>4. ASSUME NEW t \in ApiThreads, ApiStep(t) /\ UNCHANGED segVars
      PROVE  RInv'
    BY <1>4, ApiKeeps
<1>5. CASE SegOpens \/ FeedStep
    BY <1>5, SegOpensKeeps, FeedKeeps
<1>6. CASE /\ CancelBegins \/ CancelLooks \/ CancelWakes \/ (~leaving /\ CancelCleared)
           /\ UNCHANGED <<apiVars, segVars>>
    BY <1>6, CancelKeeps
<1>7. CASE Sleep \/ SleepCounted \/ LeavesForGood
    BY <1>7, SleepKeeps, CountsKeep
<1>8. CASE UNCHANGED requestVars
    BY <1>8, RequestsStand
<1> QED BY <1>1, <1>2, <1>3, <1>4, <1>5, <1>6, <1>7, <1>8 DEF RequestsNext

\* Every part of the invariant holds of what exec_request, exchange, jf_reauth
\* and seg_fetch do, under any number of threads, sockets and sleeps.
THEOREM RequestsInvariant == RequestsSpec => []RInv
<1>1. RequestsInit => RInv
    BY RequestsBegin
<1>2. RInv /\ [RequestsNext]_requestVars => RInv'
    BY RequestsStep
<1> QED BY <1>1, <1>2, PTL DEF RequestsSpec

\* The state of requests, tokens and segments is well typed throughout.
THEOREM RequestsTypeCorrect == RequestsSpec => []RequestsTypeOK
<1>1. RInv => RequestsTypeOK
    BY DEF RInv
<1> QED BY <1>1, RequestsInvariant, PTL

\* What seg_fetch stages as a segment is the one that was asked for, also when
\* it came on a socket that seg_presend had sent ahead.
THEOREM RequestsStageTheAsked == RequestsSpec => []SegmentIsTheOneAsked
<1>1. RInv => SegmentIsTheOneAsked
    BY DEF RInv, SegInv, SegmentIsTheOneAsked
<1> QED BY <1>1, RequestsInvariant, PTL

LEMMA OwnedOnce == ASSUME RInv PROVE EverySocketIsOwned
<1> SUFFICES ASSUME NEW s \in Socks
             PROVE  Cardinality(Holders(s)) + Cardinality(Keeps(s)) = IF sock[s].open THEN 1 ELSE 0
    BY DEF EverySocketIsOwned
<1>0. s # NoSock /\ feed \in Threads
    BY SegmentsAssumption
<1>1. /\ \A t \in Threads : In("s", t) = req[t].s /\ In("pre", t) = req[t].pre
      /\ In("keep", feed) = seg.pre /\ In("taken", feed) = seg.taken
      /\ \A t \in Threads \ {feed} : In("keep", t) = NoSock /\ In("taken", t) = NoSock
      /\ "s" \in Kinds /\ "pre" \in Kinds /\ "keep" \in Kinds /\ "taken" \in Kinds
    BY DEF In, Kinds
<1>2. /\ \A k, l \in Kinds, t, u \in Threads :
            In(k, t) # NoSock /\ In(k, t) = In(l, u) => k = l /\ t = u
      /\ sock[s].open <=> \E k \in Kinds, t \in Threads : In(k, t) = s
    BY DEF RInv, Owned, Opened
<1>3. Cardinality({}) = 0
    BY FS_EmptySet
<1>4. \A x : Cardinality({x}) = 1
    BY FS_Singleton
<1>5. CASE ~sock[s].open
    <2>1. Holders(s) = {}
        BY <1>1, <1>2, <1>5 DEF Holders
    <2>2. Keeps(s) = {}
        BY <1>0, <1>1, <1>2, <1>5 DEF Keeps
    <2> QED BY <1>3, <1>5, <2>1, <2>2
<1>6. CASE sock[s].open
    <2>1. PICK k \in Kinds, t \in Threads : In(k, t) = s
        BY <1>2, <1>6
    <2>2. \A l \in Kinds, u \in Threads : In(l, u) = s => l = k /\ u = t
        BY <1>0, <1>2, <2>1
    <2>3. CASE k \in {"s", "pre"}
        <3>1. \A u \in Threads : s \in {req[u].s, req[u].pre} => u = t
            BY <1>1, <2>2
        <3>2. s \in {req[t].s, req[t].pre}
            BY <1>1, <2>1, <2>3
        <3>3. Holders(s) = {t}
            BY <3>1, <3>2 DEF Holders
        <3>4. seg.pre # s /\ seg.taken # s
            BY <1>0, <1>1, <2>2, <2>3
        <3>5. Keeps(s) = {}
            BY <3>4 DEF Keeps
        <3>6. Cardinality(Holders(s)) = 1 /\ Cardinality(Keeps(s)) = 0
            BY <1>3, <1>4, <3>3, <3>5
        <3> QED BY <1>6, <3>6
    <2>4. CASE k \in {"keep", "taken"}
        <3>1. \A u \in Threads : s \notin {req[u].s, req[u].pre}
            BY <1>1, <2>2, <2>4
        <3>2. Holders(s) = {}
            BY <3>1 DEF Holders
        <3>3. t = feed
            BY <1>0, <1>1, <2>1, <2>4
        <3>4. PICK x \in {"pre", "taken"} : x = IF k = "keep" THEN "pre" ELSE "taken"
            OBVIOUS
        <3>5. s = IF x = "pre" THEN seg.pre ELSE seg.taken
            BY <1>1, <2>1, <2>4, <3>3, <3>4
        <3>6. ASSUME NEW y \in {"pre", "taken"}, s = IF y = "pre" THEN seg.pre ELSE seg.taken
              PROVE  y = x
            BY <1>0, <1>1, <2>2, <2>4, <3>4, <3>6
        <3>7. Keeps(s) = {x}
            BY <3>5, <3>6 DEF Keeps
        <3>8. Cardinality(Holders(s)) = 0
            BY <1>3, <3>2
        <3>9. Cardinality(Keeps(s)) = 1
            BY <1>4, <3>7
        <3> QED BY <1>6, <3>8, <3>9
    <2> QED BY <2>3, <2>4 DEF Kinds
<1> QED BY <1>5, <1>6

\* Every open socket has one owner and is closed by it once, and http_cancel,
\* which walks the register without its lock, reaches every read that was in it.
THEOREM RequestsAnswerSockets == RequestsSpec => []SocketsAreAnswered
<1>1. RInv => CancelReachesReads
    BY DEF RInv, CancelInv, CancelReachesReads
<1>2. RInv => SocketsAreAnswered
    BY <1>1, OwnedOnce DEF SocketsAreAnswered
<1> QED BY <1>2, RequestsInvariant, PTL

LEMMA TakesTheLiving ==
    ASSUME RInv, [RequestsNext]_requestVars, seg.pc = "check", seg'.taken # NoSock, sock[seg'.taken].dead
    PROVE  epoch < sleeps \/ seg.torn
<1>0. seg.taken = NoSock
    BY TheFeed
<1>1. FetchChecks
    <2>1. seg' # seg
        BY <1>0
    <2>2. ~UNCHANGED segVars /\ ~UNCHANGED requestVars
        BY <2>1 DEF segVars, requestVars
    <2>3. ~SleepCounted /\ ~LeavesForGood /\ ~SegOpens
        BY <2>1 DEF SleepCounted, LeavesForGood, SegOpens
    <2>4. ~Sleep
        <3>1. ASSUME Sleep PROVE seg'.taken = seg.taken
            BY <3>1, TheFeed DEF Sleep, Fetches
        <3> QED BY <1>0, <3>1
    <2>5. FeedStep
        BY <2>2, <2>3, <2>4 DEF RequestsNext
    <2> QED BY <2>5 DEF FeedStep, FetchBegins, FetchAsks, PresendSkips, PresendSends, PresendNotes,
                        FetchEnds, FeedReauth, FeedReauthDone
<1>2. ~Stale(seg) /\ Takes(seg) /\ seg' = [seg_close(seg) EXCEPT !.pc = "ask", !.taken = seg.pre]
    <2>1. ASSUME NEW q \in Fetches, seg' = [q EXCEPT !.pc = "ask", !.taken = NoSock] PROVE FALSE
        BY <2>1 DEF Fetches
    <2> QED BY <1>1, <2>1, TheFeed, SegClosed DEF FetchChecks
<1>3. seg'.taken = seg.pre
    <2>1. PICK q \in Fetches : q = seg_close(seg)
        BY TheFeed, SegClosed
    <2> QED BY <1>2, <2>1 DEF Fetches
<1>4. seg.pre # NoSock /\ seg.pre_epoch = epoch
    BY <1>2 DEF Stale, Takes
<1> QED BY <1>3, <1>4 DEF RInv, DeadInv

\* fetch_once never takes over a socket that a sleep already counted has killed,
\* unless the sleep fell inside seg_presend's own sending.
THEOREM RequestsLeaveTheDead == RequestsSpec => DeadIsNotReused
<1>1. RInv /\ [RequestsNext]_requestVars
        => [seg.pc = "check" /\ seg'.taken # NoSock /\ sock[seg'.taken].dead
              => epoch < sleeps \/ seg.torn]_requestVars
    BY TakesTheLiving
<1> QED BY <1>1, RequestsInvariant, PTL DEF RequestsSpec, DeadIsNotReused

LEMMA SignsInForTheRefused ==
    ASSUME RInv, [RequestsNext]_requestVars, NEW t \in ApiThreads,
           call[t].pc = "refused", call'[t].pc = "signing"
    PROVE  g_token \in refused
<1>0. call' # call /\ call'[t] # call[t]
    OBVIOUS
<1>1. ASSUME NEW u \in ApiThreads, ApiStep(u) PROVE u = t /\ Reauth(t)
    <2>1. ASSUME NEW v \in ApiThreads \ {u} PROVE call'[v] = call[v]
        <3>1. PICK c : call' = [call EXCEPT ![u] = c]
            <4>1. CASE Exchange(u)
                BY <4>1, Zenon DEF Exchange, Sends
            <4>2. CASE ExchangeAgain(u)
                BY <4>2, Zenon DEF ExchangeAgain, Sends
            <4>3. CASE Answered(u)
                BY <4>3, Zenon DEF Answered
            <4>4. CASE Reauth(u)
                BY <4>4, Zenon DEF Reauth
            <4>5. CASE ReauthDone(u)
                BY <4>5, Zenon DEF ReauthDone
            <4>6. CASE Connects(u)
                BY <4>6, Zenon DEF Connects
            <4>7. CASE Connected(u)
                BY <4>7, Zenon DEF Connected
            <4> QED BY <1>1, <4>1, <4>2, <4>3, <4>4, <4>5, <4>6, <4>7 DEF ApiStep
        <3> QED BY <3>1, TheCall
    <2>2. u = t
        BY <1>0, <2>1
    <2>3. ~Exchange(t) /\ ~ExchangeAgain(t) /\ ~Answered(t) /\ ~ReauthDone(t) /\ ~Connects(t) /\ ~Connected(t)
        BY DEF Exchange, ExchangeAgain, Answered, ReauthDone, Connects, Connected
    <2> QED BY <1>1, <2>2, <2>3 DEF ApiStep
<1>2. Reauth(t)
    <2>1. ~UNCHANGED apiVars /\ ~UNCHANGED requestVars
        BY <1>0 DEF apiVars, requestVars
    <2>2. ASSUME NEW u \in Threads PROVE ~ServerSignsIn(u) /\ ~ServerAnswers(u)
        BY <1>0 DEF ServerSignsIn, ServerAnswers
    <2>3. ~ServerRevokes /\ ~SegOpens /\ ~FeedStep
        BY <1>0 DEF ServerRevokes, SegOpens, FeedStep, FetchBegins, FetchChecks, FetchAsks, PresendSkips,
                    PresendSends, PresendNotes, FetchEnds, FeedReauth, FeedReauthDone, apiVars
    <2>4. ~Sleep /\ ~SleepCounted /\ ~LeavesForGood
        BY <1>0 DEF Sleep, SleepCounted, LeavesForGood, apiVars
    <2> QED BY <1>1, <2>1, <2>2, <2>3, <2>4 DEF RequestsNext
<1>3. InForce(call[t].token)
    <2>1. PICK c : c = [call[t] EXCEPT !.pc = "again"]
        OBVIOUS
    <2>2. c.pc = "again"
        BY <2>1, TheCall DEF Calls
    <2>3. ~InForce(call[t].token) => call' = [call EXCEPT ![t] = c]
        BY <1>2, <2>1, TheCall DEF Reauth
    <2> QED BY <2>2, <2>3, TheCall
<1> QED BY <1>3 DEF InForce, RInv, CallInv

\* exchange signs in, through jf_reauth, only while the token in force is one
\* the server refused, and asks again only with another token than that one.
THEOREM RequestsSignInOnce == RequestsSpec => OneSignInPerRefusal
<1>1. ASSUME RInv, [RequestsNext]_requestVars, NEW t \in ApiThreads
      PROVE  /\ call[t].pc = "refused" /\ call'[t].pc = "signing" => g_token \in refused
             /\ call'[t].pc = "sent" /\ call'[t].retried => call'[t].token # call'[t].was
    <2>1. RInv'
        BY <1>1, RequestsStep
    <2>2. call'[t].token \in Nat /\ call'[t].was \in Nat
        BY <2>1 DEF RInv, RequestsTypeOK, ApiTypeOK, Calls
    <2>3. call'[t].pc = "sent" /\ call'[t].retried => call'[t].was < call'[t].token
        BY <2>1 DEF RInv, TokenInv
    <2> QED BY <1>1, <2>2, <2>3, SignsInForTheRefused
<1>2. RInv /\ [RequestsNext]_requestVars
        => [\A t \in ApiThreads :
              /\ call[t].pc = "refused" /\ call'[t].pc = "signing" => g_token \in refused
              /\ call'[t].pc = "sent" /\ call'[t].retried => call'[t].token # call'[t].was]_<<call>>
    BY <1>1
<1> QED BY <1>2, RequestsInvariant, PTL DEF RequestsSpec, OneSignInPerRefusal

-----------------------------------------------------------------------------
(* A body on its way (Http). Bytes fed one after another lead the          *)
(* dechunker from where it stands to where they leave it; what is still on *)
(* the wire leads, from where it stands, to the whole body kept, unless a  *)
(* sink refuses: wherever the reads fall, an end that is not early is the  *)
(* end of that way.                                                        *)

Sinks == Callers \cup {"drop_sink"}
Dechunkers ==
    [chunked : BOOLEAN, sink : Sinks, remaining : Nat, in_header : BOOLEAN, line : Seq(Int),
     done : BOOLEAN, kept : Seq(Int), over : BOOLEAN, stopped : BOOLEAN]

Leads(d, w, e) ==
    \E f \in [0 .. Len(w) -> Dechunkers] :
       f[0] = d /\ f[Len(w)] = e /\ \A i \in 1 .. Len(w) : f[i] = Fed(f[i - 1], w[i])

Deaf(d) == d.done \/ d.stopped

LEMMA SteppingUp ==
    ASSUME NEW n \in Nat, NEW T, 0 \in T, \A i \in T : i \in 0 .. n - 1 => i + 1 \in T
    PROVE  0 .. n \subseteq T
<1> SUFFICES ASSUME NEW k \in 0 .. n, k \notin T PROVE FALSE
    OBVIOUS
<1>1. PICK M : M = {i \in Nat : i <= n /\ i \notin T}
    OBVIOUS
<1>2. M \subseteq Nat /\ M # {}
    BY <1>1
<1>3. PICK m \in M : \A j \in M : ~(<<j, m>> \in OpToRel(<, Nat))
    BY <1>2, WFMin, NatLessThanWellFounded
<1>4. m \in Nat /\ m <= n /\ m \notin T /\ m # 0
    BY <1>1
<1>5. m - 1 \in Nat /\ m - 1 \in 0 .. n - 1 /\ m - 1 < m
    BY <1>4
<1>6. m - 1 \in M \/ m - 1 \in T
    BY <1>1, <1>4, <1>5
<1>7. m - 1 \notin M
    BY <1>2, <1>3, <1>5 DEF OpToRel
<1>8. (m - 1) + 1 \in T
    BY <1>5, <1>6, <1>7
<1> QED BY <1>4, <1>8

LEMMA SinkType ==
    ASSUME NEW d \in Dechunkers, NEW c \in Int PROVE Sink(d, c) \in Dechunkers
<1>1. d.kept \in Seq(Int) /\ Append(d.kept, c) \in Seq(Int)
    BY DEF Dechunkers
<1>2. [d EXCEPT !.kept = Append(@, c)] \in Dechunkers
    BY <1>1 DEF Dechunkers
<1>3. [d EXCEPT !.over = TRUE, !.stopped = TRUE] \in Dechunkers
    BY DEF Dechunkers
<1> QED BY <1>2, <1>3 DEF Sink

LEMMA SizeType == ASSUME NEW l \in Seq(Int) PROVE SizeOf(l) \in Nat
BY DEF SizeOf

LEMMA HeaderType ==
    ASSUME NEW d \in Dechunkers, NEW c \in Int PROVE InHeader(d, c) \in Dechunkers
<1>1. d.line \in Seq(Int) /\ Append(d.line, c) \in Seq(Int) /\ <<>> \in Seq(Int)
    BY DEF Dechunkers
<1>2. SizeOf(d.line) \in Nat
    BY <1>1, SizeType
<1>3. PICK n \in Nat : n = SizeOf(d.line)
    BY <1>2
<1>4. [d EXCEPT !.line = Append(@, c)] \in Dechunkers
    BY <1>1 DEF Dechunkers
<1>5. [d EXCEPT !.line = <<>>, !.remaining = n, !.in_header = FALSE, !.done = n = 0] \in Dechunkers
    BY <1>1 DEF Dechunkers
<1> QED BY <1>3, <1>4, <1>5 DEF InHeader

LEMMA FedType ==
    ASSUME NEW d \in Dechunkers, NEW c \in Int
    PROVE  /\ Fed(d, c) \in Dechunkers
           /\ Fed(d, c).sink = d.sink /\ Fed(d, c).chunked = d.chunked
           /\ d.sink = "drop_sink" => Fed(d, c).kept = d.kept
           /\ ~d.chunked => Fed(d, c).done = d.done
<1>1. PICK s : s = Sink(d, c)
    OBVIOUS
<1>2. s \in Dechunkers /\ s.sink = d.sink /\ s.chunked = d.chunked /\ s.done = d.done
      /\ s.remaining = d.remaining /\ (d.sink = "drop_sink" => s.kept = d.kept)
    BY <1>1, SinkType DEF Sink, Dechunkers
<1>3. CASE Deaf(d)
    BY <1>3 DEF Fed, Deaf
<1>4. CASE ~Deaf(d) /\ ~d.chunked
    <2>1. Fed(d, c) = s
        BY <1>1, <1>4 DEF Fed, Deaf, Byte, Dechunkers
    <2> QED BY <1>2, <1>4, <2>1
<1>5. CASE ~Deaf(d) /\ d.chunked /\ d.in_header
    <2>1. Fed(d, c) = InHeader(d, c)
        BY <1>5 DEF Fed, Deaf, Byte, Dechunkers
    <2>2. /\ InHeader(d, c).sink = d.sink /\ InHeader(d, c).chunked = d.chunked
          /\ InHeader(d, c).kept = d.kept
        BY DEF InHeader, Dechunkers
    <2> QED BY <1>5, <2>1, <2>2, HeaderType
<1>6. CASE ~Deaf(d) /\ d.chunked /\ ~d.in_header /\ d.remaining = 0
    <2>1. PICK h : h = [d EXCEPT !.in_header = TRUE]
        OBVIOUS
    <2>2. h \in Dechunkers /\ h.sink = d.sink /\ h.chunked = d.chunked /\ h.kept = d.kept
        BY <2>1 DEF Dechunkers
    <2>3. Fed(d, c) = d \/ Fed(d, c) = InHeader(h, c)
        BY <1>6, <2>1 DEF Fed, Deaf, Byte
    <2>4. /\ InHeader(h, c).sink = d.sink /\ InHeader(h, c).chunked = d.chunked
          /\ InHeader(h, c).kept = d.kept
        BY <2>2 DEF InHeader, Dechunkers
    <2> QED BY <1>6, <2>2, <2>3, <2>4, HeaderType
<1>7. CASE ~Deaf(d) /\ d.chunked /\ ~d.in_header /\ d.remaining # 0
    <2>1. d.remaining \in Nat /\ d.remaining > 0 /\ s.remaining - 1 \in Nat
        BY <1>2, <1>7 DEF Dechunkers
    <2>2. [s EXCEPT !.remaining = @ - 1] \in Dechunkers
        BY <1>2, <2>1 DEF Dechunkers
    <2>3. Fed(d, c) = IF s.stopped THEN s ELSE [s EXCEPT !.remaining = @ - 1]
        BY <1>1, <1>7, <2>1 DEF Fed, Deaf, Byte
    <2> QED BY <1>2, <1>7, <2>2, <2>3 DEF Dechunkers
<1> QED BY <1>3, <1>4, <1>5, <1>6, <1>7

LEMMA LeadsNone == ASSUME NEW d \in Dechunkers PROVE Leads(d, <<>>, d)
<1>1. PICK f : f = [i \in 0 .. 0 |-> d]
    OBVIOUS
<1>2. Len(<<>>) = 0 /\ f \in [0 .. 0 -> Dechunkers] /\ f[0] = d /\ 1 .. 0 = {}
    BY <1>1
<1> QED BY <1>2 DEF Leads

LEMMA LeadsOne ==
    ASSUME NEW d \in Dechunkers, NEW c \in Int
    PROVE  Leads(d, <<c>>, Fed(d, c)) /\ Fed(d, c) \in Dechunkers
<1>1. PICK e : e = Fed(d, c)
    OBVIOUS
<1>2. e \in Dechunkers
    BY <1>1, FedType
<1>3. PICK f : f = [i \in 0 .. 1 |-> IF i = 0 THEN d ELSE e]
    OBVIOUS
<1>4. f \in [0 .. 1 -> Dechunkers] /\ f[0] = d /\ f[1] = e
    BY <1>2, <1>3
<1>5. Len(<<c>>) = 1 /\ <<c>>[1] = c /\ 1 .. 1 = {1} /\ 1 - 1 = 0
    OBVIOUS
<1>6. \A i \in 1 .. 1 : f[i] = Fed(f[i - 1], <<c>>[i])
    BY <1>1, <1>4, <1>5
<1> QED BY <1>1, <1>2, <1>4, <1>5, <1>6 DEF Leads

LEMMA LeadsOn ==
    ASSUME NEW d, NEW e, NEW g, NEW w \in Seq(Int), NEW v \in Seq(Int), Leads(d, w, e), Leads(e, v, g)
    PROVE  Leads(d, w \o v, g)
<1>1. PICK f \in [0 .. Len(w) -> Dechunkers] :
         f[0] = d /\ f[Len(w)] = e /\ \A i \in 1 .. Len(w) : f[i] = Fed(f[i - 1], w[i])
    BY DEF Leads
<1>2. PICK h \in [0 .. Len(v) -> Dechunkers] :
         h[0] = e /\ h[Len(v)] = g /\ \A i \in 1 .. Len(v) : h[i] = Fed(h[i - 1], v[i])
    BY DEF Leads
<1>3. PICK m, n, x : m = Len(w) /\ n = Len(v) /\ x = w \o v
    OBVIOUS
<1>4. /\ m \in Nat /\ n \in Nat /\ Len(x) = m + n
      /\ \A i \in 1 .. m + n : x[i] = IF i <= m THEN w[i] ELSE v[i - m]
    BY <1>3
<1>5. PICK k : k = [i \in 0 .. m + n |-> IF i <= m THEN f[i] ELSE h[i - m]]
    OBVIOUS
<1>6. k \in [0 .. m + n -> Dechunkers]
    BY <1>3, <1>4, <1>5
<1>7. k[0] = d /\ k[m + n] = g
    <2>1. k[0] = d
        BY <1>1, <1>4, <1>5
    <2>2. CASE n = 0
        BY <1>1, <1>2, <1>3, <1>4, <1>5, <2>2
    <2>3. CASE n # 0
        <3>1. m + n \in 0 .. m + n /\ ~(m + n <= m) /\ (m + n) - m = n
            BY <1>4, <2>3
        <3>2. k[m + n] = h[n]
            BY <1>5, <3>1
        <3> QED BY <1>2, <1>3, <2>1, <3>2
    <2> QED BY <2>1, <2>2, <2>3
<1>8. ASSUME NEW i \in 1 .. m + n PROVE k[i] = Fed(k[i - 1], x[i])
    <2>1. CASE i <= m
        <3>1. i \in 1 .. m /\ i - 1 \in 0 .. m /\ k[i] = f[i] /\ k[i - 1] = f[i - 1] /\ x[i] = w[i]
            BY <1>4, <1>5, <2>1
        <3> QED BY <1>1, <1>3, <3>1
    <2>2. CASE i > m
        <3>1. i - m \in 1 .. n /\ k[i] = h[i - m] /\ x[i] = v[i - m] /\ (i - m) - 1 = (i - 1) - m
            BY <1>4, <1>5, <2>2
        <3>2. k[i - 1] = h[(i - m) - 1]
            <4>1. CASE i = m + 1
                BY <1>1, <1>2, <1>3, <1>4, <1>5, <4>1
            <4>2. CASE i # m + 1
                <5>1. i - 1 \in 0 .. m + n /\ ~(i - 1 <= m)
                    BY <1>4, <2>2, <4>2
                <5>2. k[i - 1] = h[(i - 1) - m]
                    BY <1>5, <5>1
                <5> QED BY <3>1, <5>2
            <4> QED BY <4>1, <4>2
        <3> QED BY <1>2, <1>3, <3>1, <3>2
    <2> QED BY <1>4, <2>1, <2>2
<1>9. /\ k \in [0 .. Len(x) -> Dechunkers] /\ k[0] = d /\ k[Len(x)] = g
      /\ \A i \in 1 .. Len(x) : k[i] = Fed(k[i - 1], x[i])
    BY <1>4, <1>6, <1>7, <1>8
<1> QED BY <1>3, <1>9 DEF Leads

LEMMA LeadsAlong ==
    ASSUME NEW d, NEW w \in Seq(Int), NEW e, Leads(d, w, e)
    PROVE  /\ d \in Dechunkers /\ e \in Dechunkers
           /\ e.sink = d.sink /\ e.chunked = d.chunked
           /\ d.sink = "drop_sink" => e.kept = d.kept
           /\ ~d.chunked => e.done = d.done
           /\ Deaf(d) => e = d
<1>1. PICK n \in Nat : n = Len(w)
    OBVIOUS
<1>2. PICK f \in [0 .. n -> Dechunkers] :
         f[0] = d /\ f[n] = e /\ \A i \in 1 .. n : f[i] = Fed(f[i - 1], w[i])
    BY <1>1 DEF Leads
<1>3. PICK T : T = {i \in 0 .. n : /\ f[i].sink = d.sink /\ f[i].chunked = d.chunked
                                   /\ d.sink = "drop_sink" => f[i].kept = d.kept
                                   /\ ~d.chunked => f[i].done = d.done
                                   /\ Deaf(d) => f[i] = d}
    OBVIOUS
<1>4. 0 \in T
    BY <1>2, <1>3
<1>5. ASSUME NEW i \in T, i \in 0 .. n - 1 PROVE i + 1 \in T
    <2>1. i + 1 \in 1 .. n /\ i + 1 \in 0 .. n /\ (i + 1) - 1 = i /\ i \in 0 .. n
        BY <1>5
    <2>2. f[i] \in Dechunkers /\ w[i + 1] \in Int /\ f[i + 1] = Fed(f[i], w[i + 1])
        BY <1>1, <1>2, <2>1
    <2>3. Deaf(f[i]) => f[i + 1] = f[i]
        BY <2>2 DEF Fed, Deaf
    <2>4. /\ f[i + 1].sink = f[i].sink /\ f[i + 1].chunked = f[i].chunked
          /\ f[i].sink = "drop_sink" => f[i + 1].kept = f[i].kept
          /\ ~f[i].chunked => f[i + 1].done = f[i].done
        <3>1. PICK g \in Dechunkers : g = f[i]
            BY <2>2
        <3>2. PICK c \in Int : c = w[i + 1]
            BY <2>2
        <3>3. /\ Fed(g, c).sink = g.sink /\ Fed(g, c).chunked = g.chunked
              /\ g.sink = "drop_sink" => Fed(g, c).kept = g.kept
              /\ ~g.chunked => Fed(g, c).done = g.done
            BY FedType
        <3>4. f[i + 1] = Fed(g, c)
            BY <2>2, <3>1, <3>2
        <3> QED BY <3>1, <3>3, <3>4
    <2> QED BY <1>3, <2>1, <2>3, <2>4
<1>6. n \in T
    <2>1. 0 .. n \subseteq T
        BY <1>4, <1>5, SteppingUp
    <2> QED BY <2>1
<1> QED BY <1>2, <1>3, <1>6

LEMMA LeadsStill ==
    ASSUME NEW d \in Dechunkers, Deaf(d), NEW w \in Seq(Int) PROVE Leads(d, w, d)
<1>1. PICK f : f = [i \in 0 .. Len(w) |-> d]
    OBVIOUS
<1>2. Len(w) \in Nat /\ f \in [0 .. Len(w) -> Dechunkers] /\ f[0] = d /\ f[Len(w)] = d
    BY <1>1
<1>3. \A i \in 1 .. Len(w) : f[i] = d /\ f[i - 1] = d /\ Fed(d, w[i]) = d
    BY <1>1, <1>2 DEF Fed, Deaf
<1> QED BY <1>2, <1>3 DEF Leads

LEMMA PartOf ==
    ASSUME NEW w \in Seq(Int), NEW m \in Nat \ {0}, NEW n \in Int, n <= Len(w)
    PROVE  SubSeq(w, m, n) \in Seq(Int) /\ Len(SubSeq(w, m, n)) = IF m <= n THEN n - m + 1 ELSE 0
<1>1. m \in Int /\ \A i \in m .. n : w[i] \in Int
    <2>1. \A i \in m .. n : i \in 1 .. Len(w)
        OBVIOUS
    <2> QED BY <2>1, ElementOfSeq
<1> QED BY <1>1, SubSeqProperties

LEMMA OneMoreOf ==
    ASSUME NEW w \in Seq(Int), NEW m \in Nat \ {0}, NEW i \in Int, i <= Len(w), m <= i
    PROVE  /\ SubSeq(w, m, i) = SubSeq(w, m, i - 1) \o <<w[i]>>
           /\ SubSeq(w, m, i - 1) \in Seq(Int) /\ <<w[i]>> \in Seq(Int) /\ w[i] \in Int
<1>1. m \in 1 .. Len(w) /\ i \in m .. Len(w) /\ i \in 1 .. Len(w) /\ i - 1 <= Len(w)
    OBVIOUS
<1>2. SubSeq(w, m, i) = SubSeq(w, m, i - 1) \o <<w[i]>>
    BY <1>1, SubSeqRecursiveSecond
<1>3. SubSeq(w, m, i - 1) \in Seq(Int)
    BY <1>1, PartOf
<1>4. w[i] \in Int
    BY <1>1, ElementOfSeq
<1> QED BY <1>2, <1>3, <1>4

LEMMA LeadsSomewhere ==
    ASSUME NEW d \in Dechunkers, NEW w \in Seq(Int)
    PROVE  \E e \in Dechunkers : Leads(d, w, e)
<1>1. PICK n \in Nat : n = Len(w)
    OBVIOUS
<1>2. PICK T : T = {i \in 0 .. n : \E e \in Dechunkers : Leads(d, SubSeq(w, 1, i), e)}
    OBVIOUS
<1>3. 0 \in T
    <2>1. SubSeq(w, 1, 0) = <<>>
        OBVIOUS
    <2>2. Leads(d, SubSeq(w, 1, 0), d)
        BY <2>1, LeadsNone
    <2> QED BY <1>1, <1>2, <2>2
<1>4. ASSUME NEW i \in T, i \in 0 .. n - 1 PROVE i + 1 \in T
    <2>1. PICK e \in Dechunkers : Leads(d, SubSeq(w, 1, i), e)
        BY <1>2
    <2>2. i + 1 \in 1 .. n /\ i + 1 \in 0 .. n /\ (i + 1) - 1 = i /\ 1 <= i + 1 /\ i + 1 <= n
        BY <1>1, <1>4
    <2>3. /\ SubSeq(w, 1, i + 1) = SubSeq(w, 1, i) \o <<w[i + 1]>> /\ SubSeq(w, 1, i) \in Seq(Int)
          /\ <<w[i + 1]>> \in Seq(Int) /\ w[i + 1] \in Int
        <3>1. PICK j \in Int : j = i + 1 /\ j - 1 = i /\ 1 <= j /\ j <= Len(w) /\ 1 \in Nat \ {0}
            BY <1>1, <2>2
        <3>2. /\ SubSeq(w, 1, j) = SubSeq(w, 1, j - 1) \o <<w[j]>>
              /\ SubSeq(w, 1, j - 1) \in Seq(Int) /\ <<w[j]>> \in Seq(Int) /\ w[j] \in Int
            BY <3>1, OneMoreOf
        <3> QED BY <3>1, <3>2
    <2>4. Leads(e, <<w[i + 1]>>, Fed(e, w[i + 1])) /\ Fed(e, w[i + 1]) \in Dechunkers
        BY <2>3, LeadsOne
    <2>6. Leads(d, SubSeq(w, 1, i + 1), Fed(e, w[i + 1]))
        BY <2>1, <2>3, <2>4, LeadsOn
    <2> QED BY <1>2, <2>2, <2>4, <2>6
<1>5. n \in T
    <2>1. 0 .. n \subseteq T
        BY <1>3, <1>4, SteppingUp
    <2> QED BY <2>1
<1>6. SubSeq(w, 1, n) = w
    BY <1>1
<1> QED BY <1>2, <1>5, <1>6

\* A read feeds the first bytes, and those it leaves lead on to the same end.
LEMMA ReadLeadsOn ==
    ASSUME NEW d, NEW w \in Seq(Int), NEW e, Leads(d, w, e), NEW n \in 0 .. Len(w), NEW m,
           m = dechunk_feed(d, SubSeq(w, 1, n))
    PROVE  Leads(d, SubSeq(w, 1, n), m) /\ Leads(m, SubSeq(w, n + 1, Len(w)), e)
<1>1. PICK f \in [0 .. Len(w) -> Dechunkers] :
         f[0] = d /\ f[Len(w)] = e /\ \A i \in 1 .. Len(w) : f[i] = Fed(f[i - 1], w[i])
    BY DEF Leads
<1>2. PICK p, q : p = SubSeq(w, 1, n) /\ q = SubSeq(w, n + 1, Len(w))
    OBVIOUS
<1>3. /\ Len(w) \in Nat /\ n \in Nat /\ n <= Len(w)
      /\ Len(p) = n /\ \A i \in 1 .. n : p[i] = w[i]
      /\ Len(q) = Len(w) - n /\ \A i \in 1 .. Len(w) - n : q[i] = w[n + i]
    BY <1>2
<1>4. PICK g : g = CHOOSE k : k = [i \in 0 .. Len(p) |-> IF i = 0 THEN d ELSE Fed(k[i - 1], p[i])]
    OBVIOUS
<1>5. m = g[n]
    BY <1>2, <1>3, <1>4 DEF dechunk_feed
<1>6. \E k : k = [i \in 0 .. n |-> IF i = 0 THEN d ELSE Fed(k[i - 1], p[i])]
    <2>1. PICK k : k = [i \in 0 .. n |-> f[i]]
        OBVIOUS
    <2>2. ASSUME NEW i \in 0 .. n PROVE k[i] = IF i = 0 THEN d ELSE Fed(k[i - 1], p[i])
        <3>1. CASE i = 0
            BY <1>1, <2>1, <3>1
        <3>2. CASE i # 0
            <4>1. i \in 1 .. n /\ i - 1 \in 0 .. n /\ i \in 1 .. Len(w) /\ p[i] = w[i]
                BY <1>3, <3>2
            <4> QED BY <1>1, <2>1, <3>2, <4>1
        <3> QED BY <3>1, <3>2
    <2>3. k = [i \in 0 .. n |-> IF i = 0 THEN d ELSE Fed(k[i - 1], p[i])]
        BY <2>1, <2>2
    <2> QED BY <2>3
<1>7. g = [i \in 0 .. n |-> IF i = 0 THEN d ELSE Fed(g[i - 1], p[i])]
    BY <1>3, <1>4, <1>6
<1>8. PICK T : T = {i \in 0 .. n : g[i] = f[i]}
    OBVIOUS
<1>9. 0 .. n \subseteq T
    <2>1. 0 \in T
        BY <1>1, <1>3, <1>7, <1>8
    <2>2. ASSUME NEW i \in T, i \in 0 .. n - 1 PROVE i + 1 \in T
        <3>1. /\ i + 1 \in 0 .. n /\ i + 1 \in 1 .. n /\ i + 1 \in 1 .. Len(w)
              /\ (i + 1) - 1 = i /\ i + 1 # 0 /\ p[i + 1] = w[i + 1]
            <4>1. /\ i + 1 \in 0 .. n /\ i + 1 \in 1 .. n /\ (i + 1) - 1 = i /\ i + 1 # 0
                BY <1>3, <2>2
            <4>2. i + 1 \in 1 .. Len(w)
                BY <1>3, <4>1
            <4> QED BY <1>3, <4>1, <4>2
        <3>2. g[i + 1] = Fed(g[i], p[i + 1])
            BY <1>7, <3>1
        <3>3. f[i + 1] = Fed(f[i], w[i + 1])
            BY <1>1, <3>1
        <3> QED BY <1>8, <3>1, <3>2, <3>3
    <2> QED BY <1>3, <2>1, <2>2, SteppingUp
<1>10. \A i \in 0 .. n : g[i] = f[i]
    BY <1>8, <1>9
<1>11. Leads(d, p, m)
    <2>1. PICK k : k = [i \in 0 .. n |-> f[i]]
        OBVIOUS
    <2>2. k \in [0 .. n -> Dechunkers]
        <3>1. \A i \in 0 .. n : i \in 0 .. Len(w)
            BY <1>3
        <3> QED BY <1>1, <2>1, <3>1
    <2>4. k[0] = d /\ k[n] = m
        <3>1. 0 \in 0 .. n /\ n \in 0 .. n
            BY <1>3
        <3> QED BY <1>1, <1>5, <1>10, <2>1, <3>1
    <2>3. ASSUME NEW i \in 1 .. n PROVE k[i] = Fed(k[i - 1], p[i])
        <3>1. i \in 0 .. n /\ i - 1 \in 0 .. n /\ i \in 1 .. Len(w) /\ p[i] = w[i]
            BY <1>3
        <3> QED BY <1>1, <2>1, <3>1
    <2> QED BY <1>3, <2>2, <2>3, <2>4 DEF Leads
<1>12. Leads(m, q, e)
    <2>1. PICK r : r = Len(w) - n
        OBVIOUS
    <2>5. r \in Nat /\ n + r = Len(w) /\ n + 0 = n
        BY <1>3, <2>1
    <2>2. PICK k : k = [i \in 0 .. r |-> f[n + i]]
        OBVIOUS
    <2>3. k \in [0 .. r -> Dechunkers]
        <3>1. \A i \in 0 .. r : n + i \in 0 .. Len(w)
            BY <1>3, <2>1
        <3> QED BY <1>1, <2>2, <3>1
    <2>6. k[0] = m /\ k[r] = e
        <3>1. 0 \in 0 .. r /\ r \in 0 .. r /\ n \in 0 .. n
            BY <1>3, <2>5
        <3> QED BY <1>1, <1>5, <1>10, <2>2, <2>5, <3>1
    <2>4. ASSUME NEW i \in 1 .. r PROVE k[i] = Fed(k[i - 1], q[i])
        <3>1. /\ i \in 0 .. r /\ i - 1 \in 0 .. r /\ n + i \in 1 .. Len(w) /\ q[i] = w[n + i]
              /\ n + (i - 1) = (n + i) - 1
            <4>1. r \in Nat /\ n \in Nat /\ n + r = Len(w) /\ Len(w) \in Nat /\ i \in 1 .. Len(w) - n
                BY <1>3, <2>1, <2>5
            <4>2. q[i] = w[n + i]
                BY <1>3, <4>1
            <4> QED BY <4>1, <4>2
        <3> QED BY <1>1, <2>2, <3>1
    <2> QED BY <1>3, <2>1, <2>3, <2>4, <2>5, <2>6 DEF Leads
<1> QED BY <1>2, <1>11, <1>12

Framings == {"chunked", "length", "none"}

\* Where it stands between two bytes of a body that is kept: the sink has k,
\* and n bytes of the chunk are to come.
Stands(d, fr, s, n, k) ==
    /\ d.chunked <=> fr = "chunked"
    /\ d.sink = s /\ d.remaining = n /\ d.kept = k /\ d.line = <<>>
    /\ ~d.in_header /\ ~d.done /\ ~d.stopped

\* A byte of the body is kept, or refused for good.
LEMMA ByteKept ==
    ASSUME NEW fr \in Framings, NEW s \in Callers, NEW n \in Nat, fr = "chunked" <=> n # 0,
           NEW k \in Seq(Int), NEW c \in Int, NEW d \in Dechunkers, Stands(d, fr, s, n, k),
           NEW e, e = Fed(d, c)
    PROVE  e.stopped \/ Stands(e, fr, s, IF n = 0 THEN 0 ELSE n - 1, Append(k, c))
<1>1. /\ d.sink = s /\ s # "drop_sink" /\ d.remaining = n /\ ~d.in_header /\ ~d.done /\ d.kept = k
      /\ ~d.stopped
    BY DEF Stands, Callers
<1>2. PICK r : r = Sink(d, c)
    OBVIOUS
<1>3. r \in Dechunkers
    BY <1>2, SinkType
<1>4. r.stopped \/ Stands(r, fr, s, n, Append(k, c))
    <2>1. CASE Fits(d)
        <3>1. r = [d EXCEPT !.kept = Append(@, c)]
            BY <1>1, <1>2, <2>1 DEF Sink
        <3> QED BY <1>1, <3>1 DEF Stands, Dechunkers
    <2>2. CASE ~Fits(d)
        <3>1. r = [d EXCEPT !.over = TRUE, !.stopped = TRUE]
            BY <1>1, <1>2, <2>2 DEF Sink
        <3> QED BY <3>1 DEF Dechunkers
    <2> QED BY <2>1, <2>2
<1>5. CASE fr # "chunked"
    <2>1. ~d.chunked /\ n = 0
        BY <1>5 DEF Stands
    <2>2. e = r
        BY <1>1, <1>2, <2>1 DEF Fed, Byte
    <2> QED BY <1>4, <2>1, <2>2
<1>6. CASE fr = "chunked" /\ r.stopped
    <2>1. d.chunked /\ n > 0
        BY <1>6 DEF Stands
    <2>2. e = r
        BY <1>1, <1>2, <1>6, <2>1 DEF Fed, Byte
    <2> QED BY <1>6, <2>2
<1>7. CASE fr = "chunked" /\ ~r.stopped
    <2>1. d.chunked /\ n > 0 /\ r.remaining = n
        BY <1>4, <1>7 DEF Stands
    <2>2. e = [r EXCEPT !.remaining = n - 1]
        BY <1>1, <1>2, <1>7, <2>1 DEF Fed, Byte
    <2> QED BY <1>3, <1>4, <1>7, <2>1, <2>2 DEF Stands, Dechunkers
<1> QED BY <1>5, <1>6, <1>7

LEMMA DataKept ==
    ASSUME NEW fr \in Framings, NEW s \in Callers, NEW b \in Seq(Int), NEW x \in Nat, NEW y \in Nat,
           x <= y, y <= Len(b), NEW d \in Dechunkers,
           Stands(d, fr, s, IF fr = "chunked" THEN y - x ELSE 0, SubSeq(b, 1, x))
    PROVE  \E e \in Dechunkers :
              /\ Leads(d, SubSeq(b, x + 1, y), e)
              /\ e.stopped \/ Stands(e, fr, s, 0, SubSeq(b, 1, y))
<1>1. PICK to : to = [j \in 0 .. y - x |-> IF fr = "chunked" THEN y - x - j ELSE 0]
    OBVIOUS
<1>2. Len(b) \in Nat /\ y - x \in Nat
    OBVIOUS
<1>3. PICK T : T = {j \in 0 .. y - x : \E e \in Dechunkers :
                      /\ Leads(d, SubSeq(b, x + 1, x + j), e)
                      /\ e.stopped \/ Stands(e, fr, s, to[j], SubSeq(b, 1, x + j))}
    OBVIOUS
<1>4. 0 \in T
    <2>1. SubSeq(b, x + 1, x) = <<>>
        BY SubSeqEmpty
    <2>2. Leads(d, SubSeq(b, x + 1, x), d)
        BY <2>1, LeadsNone
    <2>3. x + 0 = x /\ y - x - 0 = y - x /\ 0 \in 0 .. y - x
        BY <1>2
    <2>4. to[0] = IF fr = "chunked" THEN y - x ELSE 0
        BY <1>1, <2>3
    <2> QED BY <1>3, <2>2, <2>3, <2>4
<1>5. ASSUME NEW j \in T, j \in 0 .. (y - x) - 1 PROVE j + 1 \in T
    <2>1. PICK e \in Dechunkers :
             /\ Leads(d, SubSeq(b, x + 1, x + j), e)
             /\ e.stopped \/ Stands(e, fr, s, to[j], SubSeq(b, 1, x + j))
        BY <1>3
    <2>2. PICK z \in Int : z = x + j + 1
        BY <1>5
    <2>3. /\ j \in Nat /\ z - 1 = x + j /\ x + (j + 1) = z /\ 1 <= z /\ x + 1 <= z /\ z <= Len(b)
          /\ j + 1 \in 0 .. y - x /\ j \in 0 .. y - x /\ x + 1 \in Nat \ {0} /\ 1 \in Nat \ {0}
        BY <1>2, <1>5, <2>2
    <2>4. /\ SubSeq(b, x + 1, z) = SubSeq(b, x + 1, z - 1) \o <<b[z]>>
          /\ SubSeq(b, x + 1, z - 1) \in Seq(Int) /\ <<b[z]>> \in Seq(Int) /\ b[z] \in Int
        BY <2>3, OneMoreOf
    <2>5. SubSeq(b, 1, z) = SubSeq(b, 1, z - 1) \o <<b[z]>> /\ SubSeq(b, 1, z - 1) \in Seq(Int)
        BY <2>3, OneMoreOf
    <2>6. Append(SubSeq(b, 1, x + j), b[z]) = SubSeq(b, 1, z)
        BY <2>3, <2>4, <2>5, AppendIsConcat
    <2>7. PICK g \in Dechunkers : g = Fed(e, b[z]) /\ Leads(e, <<b[z]>>, g)
        BY <2>4, LeadsOne
    <2>8. Leads(d, SubSeq(b, x + 1, z), g)
        BY <2>1, <2>3, <2>4, <2>7, LeadsOn
    <2>9. g.stopped \/ Stands(g, fr, s, to[j + 1], SubSeq(b, 1, z))
        <3>1. CASE e.stopped
            BY <2>7, <3>1 DEF Fed
        <3>2. CASE ~e.stopped
            <4>1. PICK q \in Seq(Int) : q = SubSeq(b, 1, x + j)
                BY <2>3, <2>5
            <4>2. PICK m \in Nat : m = to[j]
                <5>1. y - x - j \in Nat
                    BY <1>2, <1>5, <2>3
                <5>2. to[j] = IF fr = "chunked" THEN y - x - j ELSE 0
                    BY <1>1, <2>3
                <5> QED BY <5>1, <5>2
            <4>3. fr = "chunked" <=> m # 0
                BY <1>1, <1>2, <1>5, <2>3, <4>2
            <4>4. to[j + 1] = IF m = 0 THEN 0 ELSE m - 1
                BY <1>1, <1>2, <1>5, <2>3, <4>2
            <4>5. Stands(e, fr, s, m, q)
                BY <2>1, <3>2, <4>1, <4>2
            <4>6. g.stopped \/ Stands(g, fr, s, IF m = 0 THEN 0 ELSE m - 1, Append(q, b[z]))
                BY <2>4, <2>7, <4>3, <4>5, ByteKept
            <4> QED BY <2>6, <4>1, <4>4, <4>6
        <3> QED BY <3>1, <3>2
    <2> QED BY <1>3, <2>3, <2>8, <2>9
<1>6. 0 .. y - x \subseteq T
    BY <1>2, <1>4, <1>5, SteppingUp
<1>7. y - x \in T /\ x + (y - x) = y /\ to[y - x] = 0
    BY <1>1, <1>2, <1>6
<1> QED BY <1>3, <1>7

LEMMA PairOf == ASSUME NEW x \in Int, NEW y \in Int PROVE <<x, y>> = <<x>> \o <<y>>
<1>1. <<x>> \in Seq(Int) /\ <<y>> \in Seq(Int) /\ <<x, y>> \in Seq(Int)
    OBVIOUS
<1>2. PICK q : q = <<x>> \o <<y>>
    OBVIOUS
<1>3. q \in Seq(Int) /\ Len(q) = 2 /\ q[1] = x /\ q[2] = y
    BY <1>1, <1>2, ConcatProperties
<1>4. \A i \in 1 .. 2 : i = 1 \/ i = 2
    OBVIOUS
<1>5. Len(<<x, y>>) = 2 /\ <<x, y>>[1] = x /\ <<x, y>>[2] = y
    OBVIOUS
<1>6. q = <<x, y>>
    BY <1>1, <1>3, <1>4, <1>5, SeqEqual
<1> QED BY <1>2, <1>6

\* A size line says how many bytes come; the last one, that none do.
LEMMA LineRead ==
    ASSUME NEW s \in Callers, NEW n \in Nat, NEW k \in Seq(Int), NEW ext \in BOOLEAN,
           NEW d \in Dechunkers, Stands(d, "chunked", s, 0, k)
    PROVE  \E e \in Dechunkers :
              /\ Leads(d, SizeLine(n, ext), e)
              /\ IF n = 0 THEN e.done /\ e.kept = k ELSE Stands(e, "chunked", s, n, k)
<1>0. DEFINE Lined(e, l) ==
                /\ e.chunked /\ e.sink = s /\ e.kept = k /\ e.line = l
                /\ e.in_header /\ ~e.done /\ ~e.stopped
<1>1. n \notin {CR, LF} /\ Extension \notin {CR, LF} /\ CR # LF /\ {CR, LF, Extension, n} \subseteq Int
    BY DEF CR, LF, Extension
<1>2. PICK d1 \in Dechunkers : Leads(d, <<n>>, d1) /\ d1 = Fed(d, n)
    BY LeadsOne
<1>3. Lined(d1, <<n>>)
    <2>1. d.chunked /\ ~d.in_header /\ d.remaining = 0 /\ ~d.done /\ ~d.stopped /\ d.line = <<>>
        BY DEF Stands
    <2>2. PICK h : h = [d EXCEPT !.in_header = TRUE]
        OBVIOUS
    <2>3. d1 = InHeader(h, n)
        BY <1>1, <1>2, <2>1, <2>2 DEF Fed, Byte
    <2>4. d1 = [h EXCEPT !.line = Append(@, n)]
        BY <1>1, <2>3 DEF InHeader
    <2>5. Append(<<>>, n) = <<n>>
        OBVIOUS
    <2> QED BY <2>1, <2>2, <2>4, <2>5 DEF Stands, Dechunkers
<1>4. PICK l, v : /\ l = IF ext THEN <<n, Extension>> ELSE <<n>>
                  /\ v = IF ext THEN <<Extension>> ELSE <<>>
    OBVIOUS
<1>5. PICK d2 \in Dechunkers : Leads(d1, v, d2) /\ Lined(d2, l)
    <2>1. CASE ~ext
        BY <1>3, <1>4, <2>1, LeadsNone
    <2>2. CASE ext
        <3>1. PICK e \in Dechunkers : Leads(d1, <<Extension>>, e) /\ e = Fed(d1, Extension)
            BY <1>1, LeadsOne
        <3>2. e = [d1 EXCEPT !.line = Append(@, Extension)]
            BY <1>1, <1>3, <3>1 DEF Fed, Byte, InHeader
        <3>3. Append(<<n>>, Extension) = <<n, Extension>>
            <4>1. Append(<<n>>, Extension) = <<n>> \o <<Extension>>
                BY <1>1, AppendIsConcat
            <4> QED BY <1>1, <4>1, PairOf
        <3>4. Lined(e, l)
            BY <1>3, <1>4, <2>2, <3>2, <3>3 DEF Dechunkers
        <3> QED BY <1>4, <2>2, <3>1, <3>4
    <2> QED BY <2>1, <2>2
<1>6. PICK d3 \in Dechunkers : Leads(d2, <<CR>>, d3) /\ d3 = Fed(d2, CR)
    BY <1>1, LeadsOne
<1>7. d3 = d2
    BY <1>1, <1>5, <1>6 DEF Fed, Byte, InHeader
<1>8. PICK d4 \in Dechunkers : Leads(d3, <<LF>>, d4) /\ d4 = Fed(d3, LF)
    BY <1>1, LeadsOne
<1>9. IF n = 0 THEN d4.done /\ d4.kept = k ELSE Stands(d4, "chunked", s, n, k)
    <2>1. SizeOf(l) = n
        BY <1>4 DEF SizeOf
    <2>2. d4 = InHeader(d2, LF)
        BY <1>5, <1>7, <1>8 DEF Fed, Byte
    <2>3. d4 = [d2 EXCEPT !.line = <<>>, !.remaining = SizeOf(d2.line), !.in_header = FALSE,
                          !.done = SizeOf(d2.line) = 0]
        BY <2>2 DEF InHeader
    <2>4. /\ d4.line = <<>> /\ d4.remaining = n /\ ~d4.in_header /\ (d4.done <=> n = 0)
          /\ d4.kept = k /\ d4.sink = s /\ d4.chunked /\ ~d4.stopped
        BY <1>5, <2>1, <2>3 DEF Dechunkers
    <2> QED BY <2>4 DEF Stands
<1>10. Leads(d, SizeLine(n, ext), d4)
    <2>1. <<n>> \in Seq(Int) /\ v \in Seq(Int) /\ <<CR>> \in Seq(Int) /\ <<LF>> \in Seq(Int)
        BY <1>1, <1>4
    <2>2. v \o <<CR>> \in Seq(Int) /\ v \o <<CR>> \o <<LF>> \in Seq(Int)
        BY <2>1
    <2>3. Leads(d1, v \o <<CR>>, d3)
        BY <1>5, <1>6, <2>1, LeadsOn
    <2>4. Leads(d1, v \o <<CR>> \o <<LF>>, d4)
        BY <1>8, <2>1, <2>2, <2>3, LeadsOn
    <2>5. Leads(d, <<n>> \o (v \o <<CR>> \o <<LF>>), d4)
        BY <1>2, <2>1, <2>2, <2>4, LeadsOn
    <2>6. SizeLine(n, ext) = <<n>> \o (v \o <<CR>> \o <<LF>>)
        <3>1. SizeLine(n, ext) = <<n>> \o v \o <<CR, LF>>
            BY <1>4 DEF SizeLine
        <3>2. <<CR, LF>> = <<CR>> \o <<LF>>
            BY <1>1, PairOf
        <3>3. (<<n>> \o v) \o (<<CR>> \o <<LF>>) = <<n>> \o (v \o (<<CR>> \o <<LF>>))
            BY <2>1, ConcatAssociative
        <3>4. v \o (<<CR>> \o <<LF>>) = v \o <<CR>> \o <<LF>>
            BY <2>1, ConcatAssociative
        <3> QED BY <3>1, <3>2, <3>3, <3>4
    <2> QED BY <2>5, <2>6
<1> QED BY <1>9, <1>10

LEMMA LineType ==
    ASSUME NEW n \in Nat, NEW ext \in BOOLEAN PROVE SizeLine(n, ext) \in Seq(Int)
<1>1. <<n>> \in Seq(Int) /\ <<Extension>> \in Seq(Int) /\ <<>> \in Seq(Int) /\ <<CR, LF>> \in Seq(Int)
    BY DEF CR, LF, Extension
<1> QED BY <1>1 DEF SizeLine

LEMMA ChunkType ==
    ASSUME NEW b \in Seq(Int), NEW x \in Nat, NEW y \in Nat, x < y, y <= Len(b), NEW ext \in BOOLEAN
    PROVE  Chunk(b, x, y, ext) \in Seq(Int)
<1>1. SizeLine(y - x, ext) \in Seq(Int)
    BY LineType
<1>2. SubSeq(b, x + 1, y) \in Seq(Int)
    BY PartOf
<1>3. <<CR, LF>> \in Seq(Int)
    BY DEF CR, LF
<1> QED BY <1>1, <1>2, <1>3 DEF Chunk

LEMMA LastLine ==
    ASSUME NEW no \in BOOLEAN, ~no
    PROVE  SizeLine(0, no) \o <<CR, LF>> = <<0, CR, LF, CR, LF>>
<1>1. PICK cr \in Int, lf \in Int : cr = CR /\ lf = LF
    BY DEF CR, LF
<1>2. <<0>> \in Seq(Int) /\ <<cr, lf>> \in Seq(Int) /\ <<0, cr, lf, cr, lf>> \in Seq(Int) /\ <<>> \in Seq(Int)
    BY <1>1
<1>3. PICK p, v, o : p = o \o v /\ v = <<cr, lf>> /\ o = <<0>>
    OBVIOUS
<1>12. v \in Seq(Int) /\ Len(v) = 2 /\ v[1] = cr /\ v[2] = lf
    BY <1>2, <1>3
<1>13. o \in Seq(Int) /\ <<0>> \o <<>> = o /\ Len(o) = 1 /\ o[1] = 0
    BY <1>2, <1>3, ConcatEmptySeq
<1>4. p \in Seq(Int) /\ Len(p) = 3 /\ p[1] = 0 /\ p[2] = cr /\ p[3] = lf
    <2>1. /\ p \in Seq(Int) /\ Len(p) = Len(o) + Len(v)
          /\ \A i \in 1 .. Len(o) + Len(v) : p[i] = IF i <= Len(o) THEN o[i] ELSE v[i - Len(o)]
        BY <1>3, <1>12, <1>13, ConcatProperties
    <2>2. /\ Len(p) = 3 /\ p[1] = o[1] /\ p[2] = v[1] /\ p[3] = v[2]
        BY <1>12, <1>13, <2>1
    <2> QED BY <1>12, <1>13, <2>1, <2>2
<1>5. PICK q : q = p \o v
    OBVIOUS
<1>6. q \in Seq(Int) /\ Len(q) = 5 /\ q[1] = 0 /\ q[2] = cr /\ q[3] = lf /\ q[4] = cr /\ q[5] = lf
    <2>1. /\ q \in Seq(Int) /\ Len(q) = Len(p) + Len(v)
          /\ \A i \in 1 .. Len(p) + Len(v) : q[i] = IF i <= Len(p) THEN p[i] ELSE v[i - Len(p)]
        BY <1>4, <1>5, <1>12, ConcatProperties
    <2>2. Len(q) = 5 /\ q[1] = p[1] /\ q[2] = p[2] /\ q[3] = p[3] /\ q[4] = v[1] /\ q[5] = v[2]
        BY <1>4, <1>12, <2>1
    <2> QED BY <1>4, <1>12, <2>1, <2>2
<1>7. \A i \in 1 .. 5 : i \in {1, 2, 3, 4, 5}
    OBVIOUS
<1>8. PICK r \in Seq(Int) : r = <<0, cr, lf, cr, lf>>
    BY <1>2
<1>9. Len(r) = 5 /\ r[1] = 0 /\ r[2] = cr /\ r[3] = lf /\ r[4] = cr /\ r[5] = lf
    BY <1>8
<1>10. \A i \in 1 .. 5 : q[i] = r[i]
    BY <1>6, <1>7, <1>9
<1>11. q = r
    BY <1>6, <1>9, <1>10, SeqEqual
<1> QED BY <1>1, <1>3, <1>5, <1>8, <1>11, <1>13 DEF SizeLine

LEMMA ChunkRead ==
    ASSUME NEW s \in Callers, NEW b \in Seq(Int), NEW x \in Nat, NEW y \in Nat, x < y, y <= Len(b),
           NEW ext \in BOOLEAN, NEW d \in Dechunkers, Stands(d, "chunked", s, 0, SubSeq(b, 1, x))
    PROVE  \E e \in Dechunkers :
              /\ Leads(d, Chunk(b, x, y, ext), e)
              /\ e.stopped \/ Stands(e, "chunked", s, 0, SubSeq(b, 1, y))
<1>1. /\ Len(b) \in Nat /\ y - x \in Nat /\ y - x # 0 /\ x <= y
      /\ SubSeq(b, 1, x) \in Seq(Int) /\ SubSeq(b, x + 1, y) \in Seq(Int)
    BY PartOf
<1>2. PICK d1 \in Dechunkers :
         Leads(d, SizeLine(y - x, ext), d1) /\ Stands(d1, "chunked", s, y - x, SubSeq(b, 1, x))
    BY <1>1, LineRead
<1>3. PICK d2 \in Dechunkers :
         /\ Leads(d1, SubSeq(b, x + 1, y), d2)
         /\ d2.stopped \/ Stands(d2, "chunked", s, 0, SubSeq(b, 1, y))
    BY <1>1, <1>2, DataKept DEF Framings
<1>4. CR \in Int /\ LF \in Int /\ <<CR>> \in Seq(Int) /\ <<LF>> \in Seq(Int)
    BY DEF CR, LF
<1>5. PICK d3 \in Dechunkers : Leads(d2, <<CR>>, d3) /\ d3 = Fed(d2, CR)
    BY <1>4, LeadsOne
<1>6. d3 = d2
    BY <1>3, <1>5 DEF Fed, Byte, Stands
<1>7. PICK d4 \in Dechunkers : Leads(d3, <<LF>>, d4) /\ d4 = Fed(d3, LF)
    BY <1>4, LeadsOne
<1>8. d4 = d2
    BY <1>3, <1>6, <1>7 DEF Fed, Byte, Stands
<1>9. Leads(d2, <<CR, LF>>, d4) /\ <<CR, LF>> \in Seq(Int)
    <2>1. <<CR, LF>> = <<CR>> \o <<LF>>
        BY <1>4, PairOf
    <2>2. <<CR>> \o <<LF>> \in Seq(Int)
        BY <1>4
    <2> QED BY <1>4, <1>5, <1>7, <2>1, <2>2, LeadsOn
<1>10. SizeLine(y - x, ext) \in Seq(Int)
    BY <1>1, LineType
<1>11. Leads(d, Chunk(b, x, y, ext), d4)
    <2>1. Leads(d, SizeLine(y - x, ext) \o SubSeq(b, x + 1, y), d2)
        BY <1>1, <1>2, <1>3, <1>10, LeadsOn
    <2>2. SizeLine(y - x, ext) \o SubSeq(b, x + 1, y) \in Seq(Int)
        BY <1>1, <1>10
    <2> QED BY <1>9, <2>1, <2>2, LeadsOn DEF Chunk
<1> QED BY <1>3, <1>8, <1>11

LEMMA CutOf ==
    ASSUME NEW b \in Seq(Int), NEW q \in Cuts(Len(b))
    PROVE  \E k \in Nat :
              /\ Cardinality(DOMAIN q) - 1 = k
              /\ q \in [0 .. k -> 0 .. Len(b)] /\ q[0] = 0 /\ q[k] = Len(b)
              /\ \A i \in 1 .. k : q[i - 1] < q[i]
<1>1. PICK k \in 0 .. Len(b) : q \in [0 .. k -> 0 .. Len(b)]
    BY DEF Cuts
<1>2. k \in Nat /\ DOMAIN q = 0 .. k
    BY <1>1
<1>3. Cardinality(DOMAIN q) - 1 = k
    <2>1. Cardinality(0 .. k) = k + 1
        BY <1>2, FS_Interval
    <2> QED BY <1>2, <2>1
<1> QED BY <1>1, <1>2, <1>3 DEF Cuts

\* What the server writes is chunk after chunk, and each leads on.
LEMMA ChunkedRead ==
    ASSUME NEW s \in Callers, NEW b \in Seq(Int), NEW q \in Cuts(Len(b)), NEW ext \in BOOLEAN,
           NEW d \in Dechunkers, Stands(d, "chunked", s, 0, <<>>)
    PROVE  /\ Chunked(b, q, ext) \in Seq(Int)
           /\ \E e \in Dechunkers : Leads(d, Chunked(b, q, ext), e) /\ (e.stopped \/ e.kept = b)
<1>1. PICK k \in Nat :
         /\ Cardinality(DOMAIN q) - 1 = k
         /\ q \in [0 .. k -> 0 .. Len(b)] /\ q[0] = 0 /\ q[k] = Len(b)
         /\ \A i \in 1 .. k : q[i - 1] < q[i]
    BY CutOf
<1>2. PICK chunk : chunk = [i \in 1 .. k |-> Chunk(b, q[i - 1], q[i], ext)]
    OBVIOUS
<1>3. ASSUME NEW i \in 1 .. k
      PROVE  /\ q[i - 1] \in Nat /\ q[i] \in Nat /\ q[i - 1] < q[i] /\ q[i] <= Len(b)
             /\ chunk[i] = Chunk(b, q[i - 1], q[i], ext) /\ chunk[i] \in Seq(Int)
    <2>1. i \in 0 .. k /\ i - 1 \in 0 .. k
        OBVIOUS
    <2>2. q[i - 1] \in Nat /\ q[i] \in Nat /\ q[i - 1] < q[i] /\ q[i] <= Len(b)
        BY <1>1, <2>1
    <2>3. Chunk(b, q[i - 1], q[i], ext) \in Seq(Int)
        BY <2>2, ChunkType
    <2> QED BY <1>2, <2>2, <2>3
<1>4. PICK T : T = {m \in 0 .. k : \E g : g = [i \in 0 .. m |-> IF i = 0 THEN <<>> ELSE g[i - 1] \o chunk[i]]}
    OBVIOUS
<1>5. k \in T
    <2>1. 0 \in T
        <3>1. PICK g : g = [i \in 0 .. 0 |-> <<>>]
            OBVIOUS
        <3>2. g = [i \in 0 .. 0 |-> IF i = 0 THEN <<>> ELSE g[i - 1] \o chunk[i]]
            BY <3>1
        <3>3. 0 \in 0 .. k
            BY <1>1
        <3> QED BY <1>1, <1>4, <3>2, <3>3
    <2>2. ASSUME NEW m \in T, m \in 0 .. k - 1 PROVE m + 1 \in T
        <3>1. m \in Nat /\ m + 1 \in 0 .. k /\ m + 1 # 0 /\ m + 1 \notin 0 .. m
            BY <2>2
        <3>2. PICK g : g = [i \in 0 .. m |-> IF i = 0 THEN <<>> ELSE g[i - 1] \o chunk[i]]
            BY <1>4
        <3>3. PICK h : h = [i \in 0 .. m + 1 |-> IF i = m + 1 THEN g[m] \o chunk[m + 1] ELSE g[i]]
            OBVIOUS
        <3>4. ASSUME NEW i \in 0 .. m + 1
              PROVE  h[i] = IF i = 0 THEN <<>> ELSE h[i - 1] \o chunk[i]
            <4>1. CASE i = 0
                BY <3>1, <3>2, <3>3, <4>1
            <4>2. CASE i = m + 1
                <5>1. i - 1 = m /\ h[m] = g[m]
                    BY <3>1, <3>3, <4>2
                <5> QED BY <3>1, <3>3, <4>2, <5>1
            <4>3. CASE i # 0 /\ i # m + 1
                <5>1. i \in 0 .. m /\ i - 1 \in 0 .. m /\ i - 1 \in 0 .. m + 1 /\ i - 1 # m + 1
                    BY <3>1, <4>3
                <5>2. h[i] = g[i] /\ h[i - 1] = g[i - 1]
                    BY <3>3, <4>3, <5>1
                <5>3. g[i] = g[i - 1] \o chunk[i]
                    BY <3>2, <4>3, <5>1
                <5> QED BY <4>3, <5>2, <5>3
            <4> QED BY <4>1, <4>2, <4>3
        <3>5. h = [i \in 0 .. m + 1 |-> IF i = 0 THEN <<>> ELSE h[i - 1] \o chunk[i]]
            BY <3>3, <3>4
        <3> QED BY <1>4, <3>1, <3>5
    <2>3. 0 .. k \subseteq T
        BY <2>1, <2>2, SteppingUp
    <2> QED BY <2>3
<1>6. ASSUME NEW g, NEW i \in 0 .. k
      PROVE  (IF i = 0 THEN <<>> ELSE g[i - 1] \o chunk[i]) =
             (IF i = 0 THEN <<>> ELSE g[i - 1] \o Chunk(b, q[i - 1], q[i], ext))
    <2>1. CASE i = 0
        BY <2>1
    <2>2. CASE i # 0
        <3>1. i \in 1 .. k
            BY <2>2
        <3> QED BY <1>3, <2>2, <3>1
    <2> QED BY <2>1, <2>2
<1>7. PICK sent : sent = CHOOSE g : g = [i \in 0 .. k |->
                             IF i = 0 THEN <<>> ELSE g[i - 1] \o Chunk(b, q[i - 1], q[i], ext)]
    OBVIOUS
<1>8. sent = [i \in 0 .. k |-> IF i = 0 THEN <<>> ELSE sent[i - 1] \o Chunk(b, q[i - 1], q[i], ext)]
    <2>1. PICK g : g = [i \in 0 .. k |-> IF i = 0 THEN <<>> ELSE g[i - 1] \o chunk[i]]
        BY <1>4, <1>5
    <2>2. g = [i \in 0 .. k |-> IF i = 0 THEN <<>> ELSE g[i - 1] \o Chunk(b, q[i - 1], q[i], ext)]
        BY <1>6, <2>1
    <2> QED BY <1>7, <2>2
<1>9. Chunked(b, q, ext) = sent[k] \o <<0, CR, LF, CR, LF>>
    BY <1>1, <1>7 DEF Chunked
<1>10. PICK U : U = {i \in 0 .. k : /\ sent[i] \in Seq(Int)
                                    /\ \E e \in Dechunkers :
                                          /\ Leads(d, sent[i], e)
                                          /\ e.stopped \/ Stands(e, "chunked", s, 0, SubSeq(b, 1, q[i]))}
    OBVIOUS
<1>11. k \in U
    <2>1. 0 \in U
        <3>1. sent[0] = <<>> /\ <<>> \in Seq(Int)
            BY <1>1, <1>8
        <3>2. SubSeq(b, 1, q[0]) = <<>>
            BY <1>1, SubSeqEmpty
        <3>3. Leads(d, sent[0], d)
            BY <3>1, LeadsNone
        <3>4. d.stopped \/ Stands(d, "chunked", s, 0, SubSeq(b, 1, q[0]))
            BY <3>2
        <3>5. 0 \in 0 .. k
            BY <1>1
        <3> QED BY <1>10, <3>1, <3>3, <3>4, <3>5
    <2>2. ASSUME NEW i \in U, i \in 0 .. k - 1 PROVE i + 1 \in U
        <3>1. i + 1 \in 1 .. k /\ i + 1 \in 0 .. k /\ (i + 1) - 1 = i /\ i + 1 # 0
            BY <2>2
        <3>2. PICK c : c = Chunk(b, q[i], q[i + 1], ext)
            OBVIOUS
        <3>3. /\ q[i] \in Nat /\ q[i + 1] \in Nat /\ q[i] < q[i + 1] /\ q[i + 1] <= Len(b)
              /\ c \in Seq(Int)
            BY <1>3, <3>1, <3>2
        <3>4. sent[i + 1] = sent[i] \o c
            BY <1>8, <3>1, <3>2
        <3>5. PICK e \in Dechunkers :
                 Leads(d, sent[i], e) /\ (e.stopped \/ Stands(e, "chunked", s, 0, SubSeq(b, 1, q[i])))
            BY <1>10
        <3>6. PICK g \in Dechunkers :
                 Leads(e, c, g) /\ (g.stopped \/ Stands(g, "chunked", s, 0, SubSeq(b, 1, q[i + 1])))
            <4>1. CASE e.stopped
                BY <3>3, <4>1, LeadsStill DEF Deaf
            <4>2. CASE ~e.stopped
                BY <3>2, <3>3, <3>5, <4>2, ChunkRead
            <4> QED BY <4>1, <4>2
        <3>7. sent[i] \in Seq(Int) /\ sent[i] \o c \in Seq(Int)
            BY <1>10, <3>3
        <3>8. Leads(d, sent[i + 1], g)
            BY <3>3, <3>4, <3>5, <3>6, <3>7, LeadsOn
        <3> QED BY <1>10, <3>1, <3>4, <3>6, <3>7, <3>8
    <2>3. 0 .. k \subseteq U
        BY <1>1, <2>1, <2>2, SteppingUp
    <2> QED BY <1>1, <2>3
<1>12. SubSeq(b, 1, q[k]) = b
    BY <1>1, SubSeqFull
<1>13. PICK e \in Dechunkers : Leads(d, sent[k], e) /\ (e.stopped \/ Stands(e, "chunked", s, 0, b))
    BY <1>10, <1>11, <1>12
<1>14. <<0, CR, LF, CR, LF>> \in Seq(Int) /\ sent[k] \in Seq(Int)
    BY <1>10, <1>11 DEF CR, LF
<1>15. PICK g \in Dechunkers : Leads(e, <<0, CR, LF, CR, LF>>, g) /\ (g.stopped \/ g.kept = b)
    <2>1. CASE e.stopped
        BY <1>14, <2>1, LeadsStill DEF Deaf
    <2>2. CASE ~e.stopped
        <3>1. Stands(e, "chunked", s, 0, b)
            BY <1>13, <2>2
        <3>7. PICK no \in BOOLEAN : ~no
            OBVIOUS
        <3>8. 0 \in Nat
            OBVIOUS
        <3>2. PICK g \in Dechunkers : Leads(e, SizeLine(0, no), g) /\ g.done /\ g.kept = b
            BY <3>1, <3>8, LineRead
        <3>3. <<CR, LF>> \in Seq(Int) /\ SizeLine(0, no) \in Seq(Int)
            BY <3>8, LineType DEF CR, LF
        <3>4. Leads(g, <<CR, LF>>, g)
            BY <3>2, <3>3, LeadsStill DEF Deaf
        <3>5. Leads(e, SizeLine(0, no) \o <<CR, LF>>, g)
            BY <3>2, <3>3, <3>4, LeadsOn
        <3>6. SizeLine(0, no) \o <<CR, LF>> = <<0, CR, LF, CR, LF>>
            BY <3>7, LastLine
        <3> QED BY <3>2, <3>5, <3>6
    <2> QED BY <2>1, <2>2
<1>16. Leads(d, Chunked(b, q, ext), g) /\ Chunked(b, q, ext) \in Seq(Int)
    <2>1. sent[k] \o <<0, CR, LF, CR, LF>> \in Seq(Int)
        BY <1>14
    <2>2. Leads(d, sent[k] \o <<0, CR, LF, CR, LF>>, g)
        BY <1>13, <1>14, <1>15, LeadsOn
    <2> QED BY <1>9, <2>1, <2>2
<1> QED BY <1>15, <1>16

\* What the rest of the wire leads to, and what the caller may hear of it.
BodyInv ==
    /\ framing \in Framings /\ caller \in Callers /\ body \in Seq(Int)
    /\ wire \in Seq(Int) /\ dc \in Dechunkers
    /\ dc.chunked <=> framing = "chunked"
    /\ dc.sink = SinkOf
    /\ DropsIt => dc.kept = <<>>
    /\ framing # "chunked" => ~dc.done
    /\ framing # "chunked" => got = Len(body) - Len(wire)
    /\ bodyPc = "headers" => ~dc.stopped /\ ~dc.done
    /\ \E e : Leads(dc, wire, e) /\ (DropsIt \/ e.stopped \/ e.kept = body)

LEMMA SomeStand ==
    \E d \in Dechunkers, s \in Callers : Stands(d, "chunked", s, 0, <<>>)
<1>1. <<>> \in Seq(Int) /\ "request" \in Callers
    BY DEF Callers
<1>2. PICK d : d = [chunked |-> TRUE, sink |-> "request", remaining |-> 0, in_header |-> FALSE, line |-> <<>>,
                    done |-> FALSE, kept |-> <<>>, over |-> FALSE, stopped |-> FALSE]
    OBVIOUS
<1>3. d \in Dechunkers
    BY <1>1, <1>2 DEF Dechunkers, Sinks
<1>4. Stands(d, "chunked", "request", 0, <<>>)
    BY <1>2 DEF Stands
<1> QED BY <1>1, <1>3, <1>4

LEMMA BodyBegins == BodyInit => BodyInv
<1> SUFFICES ASSUME BodyInit PROVE BodyInv
    OBVIOUS
<1>1. /\ framing \in Framings /\ caller \in Callers /\ body \in Seq(Int) /\ got = 0 /\ dc = Fresh
      /\ wire \in Wires(body, framing) /\ bodyPc = "headers"
    BY HttpAssumption DEF BodyInit, Framings
<1>2. /\ dc \in Dechunkers /\ (dc.chunked <=> framing = "chunked") /\ dc.sink = SinkOf
      /\ dc.kept = <<>> /\ ~dc.done /\ ~dc.stopped
      /\ ~DropsIt => Stands(dc, framing, caller, 0, <<>>)
    <2>1. SinkOf \in Sinks /\ (~DropsIt => SinkOf = caller)
        BY <1>1 DEF SinkOf, Sinks
    <2>2. <<>> \in Seq(Int)
        OBVIOUS
    <2> QED BY <1>1, <2>1, <2>2 DEF Fresh, Dechunkers, Stands
<1>3. /\ wire \in Seq(Int)
      /\ \E e : Leads(dc, wire, e) /\ (DropsIt \/ e.stopped \/ e.kept = body)
    <2>1. CASE framing = "chunked"
        <3>1. PICK q \in Cuts(Len(body)), ext \in BOOLEAN : wire = Chunked(body, q, ext)
            BY <1>1, <2>1 DEF Wires
        <3>2. PICK d \in Dechunkers, s \in Callers : Stands(d, "chunked", s, 0, <<>>) /\ (~DropsIt => d = dc /\ s = caller)
            <4>1. CASE DropsIt
                BY <4>1, SomeStand
            <4>2. CASE ~DropsIt
                BY <1>1, <1>2, <2>1, <4>2
            <4> QED BY <4>1, <4>2
        <3>3. /\ wire \in Seq(Int)
              /\ \E e \in Dechunkers : Leads(d, wire, e) /\ (e.stopped \/ e.kept = body)
            BY <1>1, <3>1, <3>2, ChunkedRead
        <3>4. \E e \in Dechunkers : Leads(dc, wire, e)
            BY <1>2, <3>3, LeadsSomewhere
        <3> QED BY <3>2, <3>3, <3>4
    <2>2. CASE framing # "chunked"
        <3>1. wire = body
            BY <1>1, <2>2 DEF Wires
        <3>2. CASE DropsIt
            BY <1>1, <1>2, <3>1, <3>2, LeadsSomewhere
        <3>3. CASE ~DropsIt
            <4>1. SubSeq(body, 1, 0) = <<>> /\ SubSeq(body, 0 + 1, Len(body)) = body
                  /\ SubSeq(body, 1, Len(body)) = body
                BY <1>1, SubSeqEmpty, SubSeqFull
            <4>2. Len(body) \in Nat /\ 0 \in Nat /\ 0 <= Len(body)
                BY <1>1
            <4>3. Stands(dc, framing, caller, IF framing = "chunked" THEN Len(body) - 0 ELSE 0, SubSeq(body, 1, 0))
                BY <1>2, <2>2, <3>3, <4>1
            <4>4. \E e \in Dechunkers :
                     /\ Leads(dc, SubSeq(body, 0 + 1, Len(body)), e)
                     /\ e.stopped \/ Stands(e, framing, caller, 0, SubSeq(body, 1, Len(body)))
                <5>1. PICK d \in Dechunkers, fr \in Framings, s \in Callers, b \in Seq(Int), y \in Nat :
                         d = dc /\ fr = framing /\ s = caller /\ b = body /\ y = Len(body)
                    BY <1>1, <1>2, <4>2
                <5>2. Stands(d, fr, s, IF fr = "chunked" THEN y - 0 ELSE 0, SubSeq(b, 1, 0))
                    BY <4>3, <5>1
                <5>3. 0 \in Nat /\ 0 <= y /\ y <= Len(b)
                    BY <5>1
                <5>4. \E e \in Dechunkers :
                         /\ Leads(d, SubSeq(b, 0 + 1, y), e)
                         /\ e.stopped \/ Stands(e, fr, s, 0, SubSeq(b, 1, y))
                    BY <5>2, <5>3, DataKept
                <5> QED BY <5>1, <5>4
            <4> QED BY <1>1, <3>1, <4>1, <4>4 DEF Stands
        <3> QED BY <3>2, <3>3
    <2> QED BY <2>1, <2>2
<1>4. framing # "chunked" => got = Len(body) - Len(wire)
    BY <1>1 DEF Wires
<1> QED BY <1>1, <1>2, <1>3, <1>4 DEF BodyInv

LEMMA ReadsKeepIt ==
    ASSUME BodyInv, NEW n \in Nat, Read(n) PROVE BodyInv'
<1>1. PICK w, m : w = wire /\ m = dechunk_feed(dc, SubSeq(wire, 1, n))
    OBVIOUS
<1>2. /\ w \in Seq(Int) /\ Len(w) \in Nat /\ n <= Len(w) /\ dc' = m /\ wire' = SubSeq(w, n + 1, Len(w))
      /\ got' = got + n /\ bodyPc' \in {"done", "body"}
      /\ UNCHANGED <<body, framing, replied, caller>>
    BY <1>1 DEF BodyInv, Read
<1>3. PICK e : Leads(dc, w, e) /\ (DropsIt \/ e.stopped \/ e.kept = body)
    BY <1>1 DEF BodyInv
<1>4. Leads(dc, SubSeq(w, 1, n), m) /\ Leads(m, SubSeq(w, n + 1, Len(w)), e)
    BY <1>1, <1>2, <1>3, ReadLeadsOn
<1>5. SubSeq(w, 1, n) \in Seq(Int)
    BY <1>2, PartOf
<1>6. /\ m \in Dechunkers /\ m.sink = dc.sink /\ m.chunked = dc.chunked
      /\ dc.sink = "drop_sink" => m.kept = dc.kept
      /\ ~dc.chunked => m.done = dc.done
    BY <1>4, <1>5, LeadsAlong
<1>7. wire' \in Seq(Int) /\ Len(wire') = Len(w) - n
    <2>1. /\ SubSeq(w, n + 1, Len(w)) \in Seq(Int)
          /\ Len(SubSeq(w, n + 1, Len(w))) = IF n + 1 <= Len(w) THEN Len(w) - (n + 1) + 1 ELSE 0
        BY <1>2, PartOf
    <2> QED BY <1>2, <2>1
<1>8. DropsIt' = DropsIt /\ SinkOf' = SinkOf
    BY <1>2 DEF DropsIt, SinkOf
<1>9. DropsIt => dc.sink = "drop_sink"
    BY DEF BodyInv, SinkOf
<1>10. \E g : Leads(dc', wire', g) /\ (DropsIt' \/ g.stopped \/ g.kept = body')
    BY <1>2, <1>3, <1>4, <1>8
<1>11. framing # "chunked" => got' = Len(body) - Len(wire')
    <2>1. Len(body) \in Nat
        BY DEF BodyInv
    <2>2. ASSUME framing # "chunked" PROVE got' = Len(body) - Len(wire')
        <3>1. got = Len(body) - Len(w)
            BY <1>1, <2>2 DEF BodyInv
        <3>2. PICK lb \in Nat, lw \in Nat : lb = Len(body) /\ lw = Len(w)
            BY <1>2, <2>1
        <3>3. got' = got + n /\ got = lb - lw /\ body' = body /\ Len(wire') = lw - n
            BY <1>2, <1>7, <3>1, <3>2
        <3> QED BY <3>2, <3>3
    <2> QED BY <2>2
<1> QED BY <1>2, <1>6, <1>7, <1>8, <1>9, <1>10, <1>11 DEF BodyInv

LEMMA BodyGoesOn == BodyInv /\ [BodyNext]_bodyVars => BodyInv'
<1> SUFFICES ASSUME BodyInv, [BodyNext]_bodyVars PROVE BodyInv'
    OBVIOUS
<1>1. CASE BodyHeaders
    BY <1>1, ReadsKeepIt, HttpAssumption DEF BodyHeaders
<1>2. CASE BodyRead
    BY <1>2, ReadsKeepIt, HttpAssumption DEF BodyRead
<1>3. CASE BodyEnds
    <2>1. bodyPc' = "done" /\ UNCHANGED <<wire, body, framing, replied, caller, dc, got>>
        BY <1>3 DEF BodyEnds
    <2> QED BY <2>1 DEF BodyInv, DropsIt, SinkOf
<1>4. CASE BodyCancelled
    <2>1. /\ bodyPc' = "done" /\ dc' = [dc EXCEPT !.stopped = TRUE]
          /\ UNCHANGED <<wire, body, framing, replied, caller, got>>
        BY <1>4 DEF BodyCancelled
    <2>2. /\ dc' \in Dechunkers /\ dc'.stopped /\ dc'.chunked = dc.chunked /\ dc'.sink = dc.sink
          /\ dc'.kept = dc.kept /\ dc'.done = dc.done
        BY <2>1 DEF BodyInv, Dechunkers
    <2>3. Leads(dc', wire', dc')
        <3>1. PICK d \in Dechunkers, w \in Seq(Int) : d = dc' /\ w = wire /\ Deaf(d)
            BY <2>2 DEF BodyInv, Deaf
        <3>2. Leads(d, w, d)
            BY <3>1, LeadsStill
        <3> QED BY <2>1, <3>1, <3>2
    <2>4. DropsIt' = DropsIt /\ SinkOf' = SinkOf
        BY <2>1 DEF DropsIt, SinkOf
    <2> QED BY <2>1, <2>2, <2>3, <2>4 DEF BodyInv
<1>5. CASE UNCHANGED bodyVars
    BY <1>5 DEF bodyVars, BodyInv, DropsIt, SinkOf
<1> QED BY <1>1, <1>2, <1>3, <1>4, <1>5 DEF BodyNext

LEMMA WholeBody == BodyInv => BodyIsWhole
<1> SUFFICES ASSUME BodyInv PROVE BodyIsWhole
    OBVIOUS
<1>1. DropsIt => dc.kept = <<>>
    BY DEF BodyInv
<1>2. ASSUME bodyPc = "done", Taken PROVE dc.kept = body \/ (framing = "none" /\ wire # <<>>)
    <2>1. exec_result = "OK" /\ ~DropsIt
        BY <1>2 DEF Taken, http_request_result, seg_arrived, DropsIt, BodyInv, Callers
    <2>2. ~dc.stopped /\ ~(dc.chunked /\ ~dc.done) /\ ~(framing = "length" /\ got < Len(body))
        <3>1. ~dc.stopped
            BY <2>1 DEF exec_result
        <3>2. ~EndsEarly
            BY <2>1, <3>1 DEF exec_result
        <3> QED BY <3>1, <3>2 DEF EndsEarly
    <2>3. PICK e : Leads(dc, wire, e) /\ (e.stopped \/ e.kept = body)
        BY <2>1 DEF BodyInv
    <2>4. dc \in Dechunkers /\ wire \in Seq(Int)
        BY DEF BodyInv
    <2>5. CASE framing = "chunked"
        <3>1. Deaf(dc)
            BY <2>2, <2>5 DEF BodyInv, Deaf
        <3>2. e = dc
            <4>1. PICK d \in Dechunkers, w \in Seq(Int) : d = dc /\ w = wire
                BY <2>4
            <4>2. Leads(d, w, e) /\ Deaf(d)
                BY <2>3, <3>1, <4>1
            <4>3. e = d
                BY <4>2, LeadsAlong
            <4> QED BY <4>1, <4>3
        <3> QED BY <2>2, <2>3, <3>2
    <2>6. CASE wire = <<>>
        <3>1. e = dc
            BY <2>3, <2>6 DEF Leads
        <3> QED BY <2>2, <2>3, <3>1
    <2>7. CASE framing = "length" /\ wire # <<>>
        <3>1. got = Len(body) - Len(wire) /\ Len(wire) > 0 /\ Len(body) \in Nat /\ Len(wire) \in Nat
            BY <2>4, <2>7 DEF BodyInv
        <3> QED BY <2>2, <2>7, <3>1
    <2> QED BY <2>5, <2>6, <2>7 DEF BodyInv, Framings
<1> QED BY <1>1, <1>2 DEF BodyIsWhole

\* A body taken for a reply is the whole of what was sent, for any body, any
\* way to cut it into chunks and any splits of the wire: the dechunker, the
\* sinks and exec_request's two checks of the end (io/http.c).
THEOREM BodiesStayWhole == BodySpec => []BodyIsWhole
<1>1. BodyInv /\ [BodyNext]_bodyVars => BodyInv'
    BY BodyGoesOn
<1>2. BodySpec => []BodyInv
    BY <1>1, BodyBegins, PTL DEF BodySpec
<1> QED BY <1>2, WholeBody, PTL
=============================================================================
