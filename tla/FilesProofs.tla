----------------------------- MODULE FilesProofs -----------------------------
(***************************************************************************)
(* What TLC checks of the machine's sleep (Standby), of the cable (Link),  *)
(* of the log and the settings on the card (Card) and of the pack of       *)
(* pictures there (Pack), proved for any number of sleeps, lines, rows,    *)
(* readers, commands, breaks and boots, any room in the queue, the buffer  *)
(* and the pack, any dial and any pictures.                                *)
(***************************************************************************)
EXTENDS Link, Card, Pack, SequenceTheorems, WellFoundedInduction, TLAPS

-----------------------------------------------------------------------------
(* Standby. A sleep that is not counted yet shows in the phase or in the   *)
(* edge still to be taken, or its edge was dropped; and asleep nothing     *)
(* moves.                                                                  *)

Uncounted == phase # "UP" \/ going \/ dropped

StandbyInv ==
    /\ StandbyTypeOK
    /\ power = "on" /\ epoch = sleptAt => Uncounted
    /\ power = "asleep" => Uncounted

LEMMA StandbyBegins == StandbyInit => StandbyInv
<1> SUFFICES ASSUME StandbyInit PROVE StandbyInv
  OBVIOUS
<1>1. phase = "UP" /\ look = "begin" /\ power = "on"
  BY DEF StandbyInit
<1>2. epoch \in Nat /\ sleptAt \in 0 .. epoch /\ epoch # sleptAt
  BY DEF StandbyInit
<1>3. sleeps \in 0 .. MaxSleeps
  BY StandbyAssumption DEF StandbyInit
<1>4. /\ going \in BOOLEAN /\ back \in BOOLEAN /\ acquired \in BOOLEAN
      /\ dropped \in BOOLEAN /\ hurried \in BOOLEAN
  BY Zenon DEF StandbyInit
<1> QED
  BY <1>1, <1>2, <1>3, <1>4 DEF StandbyInv, StandbyTypeOK

LEMMA StandbyStep == StandbyInv /\ [StandbyNext]_standbyVars => StandbyInv'
<1> SUFFICES ASSUME StandbyInv, [StandbyNext]_standbyVars PROVE StandbyInv'
  OBVIOUS
<1> USE StandbyAssumption DEF StandbyInv, Uncounted, StandbyTypeOK
<1>1. CASE NoteGoing
  BY <1>1 DEF NoteGoing
<1>2. CASE FallAsleep
  <2>1. dropped' \in BOOLEAN
    BY <1>2, Zenon DEF FallAsleep
  <2>2. sleptAt' \in 0 .. epoch' /\ epoch' \in Nat
    BY <1>2 DEF FallAsleep
  <2>3. phase # "UP" \/ going \/ dropped'
    BY <1>2, Zenon DEF FallAsleep
  <2>4. Uncounted'
    BY <1>2, <2>3, Zenon DEF FallAsleep
  <2>5. power' = "asleep" /\ UNCHANGED <<phase, going, back, acquired, look,
                                        sleeps, hurried>>
    BY <1>2 DEF FallAsleep
  <2> QED
    BY <2>1, <2>2, <2>4, <2>5
<1>3. CASE NoteBack
  BY <1>3 DEF NoteBack
<1>4. CASE NoteBackAlone
  BY <1>4 DEF NoteBackAlone
<1>5. CASE TakeGoing
  BY <1>5 DEF TakeGoing
<1>6. CASE Lose
  BY <1>6 DEF Lose, Switch
<1>7. CASE StayDown
  BY <1>7 DEF StayDown, Switch
<1>8. CASE StayUp
  BY <1>8 DEF StayUp, Switch
<1>9. ASSUME NEW works \in BOOLEAN, Restore(works) PROVE StandbyInv'
  BY <1>9 DEF Restore, Switch
<1>10. CASE UNCHANGED standbyVars
  BY <1>10 DEF standbyVars
<1> QED
  BY <1>1, <1>2, <1>3, <1>4, <1>5, <1>6, <1>7, <1>8, <1>9, <1>10 DEF StandbyNext

\* standby.c:89's "Only here, and only once", of any number of sleeps at any
\* point of the loop: what is up again after one is in a generation of its own.
THEOREM StandbySleepsAreCounted == StandbySpec => []SleepsAreCounted
<1>1. StandbyInv => SleepsAreCounted
  BY DEF StandbyInv, Uncounted, StandbyTypeOK, SleepsAreCounted
<1> QED
  BY StandbyBegins, StandbyStep, <1>1, PTL DEF StandbySpec

-----------------------------------------------------------------------------
(* A read for a caller. A caller past its ask has the one request, which   *)
(* stands until it leaves; the thread reads for the request that stands or *)
(* for an older one; and what has been answered is answered by its own.    *)

SlurpInv ==
    /\ request \in [leaf : Readers \cup {None}, gen : Nat, asked : BOOLEAN, done : BOOLEAN,
                    abandoned : BOOLEAN]
    /\ reader \in [leaf : Readers \cup {None}, gen : Nat]
    /\ calling \subseteq Readers /\ mine \in [Readers -> Nat]
    /\ got \in [Readers -> Readers \cup {None}]
    /\ \A r \in calling : mine[r] # 0 =>
          /\ request.leaf = r /\ request.gen = mine[r]
          /\ request.asked /\ ~request.abandoned
    /\ reader.gen <= request.gen /\ (reader # Nothing => reader.gen # 0)
    /\ reader.gen = request.gen => reader.leaf = request.leaf
    /\ request.done => answer \in {request.leaf, None} /\ reader = Nothing
    /\ request.asked => request.gen # 0
    /\ ReadIsItsOwn

LEMMA SlurpBegins == SlurpInit => SlurpInv
<1> SUFFICES ASSUME SlurpInit PROVE SlurpInv
    OBVIOUS
<1>1. PICK false \in BOOLEAN : false = FALSE
    OBVIOUS
<1>2. PICK q : q = [leaf |-> None, gen |-> 0, asked |-> false, done |-> false, abandoned |-> false]
    OBVIOUS
<1>3. request = q
    BY <1>1, <1>2, Zenon DEF SlurpInit
<1>4. q \in [leaf : Readers \cup {None}, gen : Nat, asked : BOOLEAN, done : BOOLEAN, abandoned : BOOLEAN]
    BY <1>2
<1>5. ~request.asked /\ ~request.done /\ request.leaf = None /\ request.gen = 0
    BY <1>1, <1>2, <1>3
<1>6. reader \in [leaf : Readers \cup {None}, gen : Nat] /\ reader.leaf = None /\ reader.gen = 0
    BY DEF SlurpInit, Nothing
<1> QED BY <1>3, <1>4, <1>5, <1>6 DEF SlurpInit, SlurpInv, ReadIsItsOwn

LEMMA SlurpStep == SlurpInv /\ [SlurpNext]_slurpVars => SlurpInv'
<1> SUFFICES ASSUME SlurpInv, [SlurpNext]_slurpVars PROVE SlurpInv'
    OBVIOUS
<1> USE DEF SlurpInv, ReadIsItsOwn
<1>1. ASSUME NEW r \in Readers, Call(r) PROVE SlurpInv'
    BY <1>1 DEF Call
<1>2. ASSUME NEW r \in Readers, Ask(r) PROVE SlurpInv'
    <2>1. PICK true \in BOOLEAN, false \in BOOLEAN : true = TRUE /\ false = FALSE
        OBVIOUS
    <2>2. PICK q : q = [leaf |-> r, gen |-> request.gen + 1, asked |-> true, done |-> false,
                        abandoned |-> false]
        OBVIOUS
    <2>3. request' = q
        BY <1>2, <2>1, <2>2, Zenon DEF Ask
    <2>4. q \in [leaf : Readers \cup {None}, gen : Nat, asked : BOOLEAN, done : BOOLEAN, abandoned : BOOLEAN]
        BY <2>2
    <2>5. request'.leaf = r /\ request'.gen = request.gen + 1
        BY <2>2, <2>3
    <2>6. request'.asked /\ ~request'.done /\ ~request'.abandoned
        BY <2>1, <2>2, <2>3
    <2>7. \A u \in calling : u # r => mine[u] = 0
        BY <1>2 DEF Ask
    <2> QED BY <1>2, <2>3, <2>4, <2>5, <2>6, <2>7 DEF Ask
<1>3. ASSUME NEW r \in Readers, Collect(r) PROVE SlurpInv'
    <2>1. PICK false \in BOOLEAN : false = FALSE
        OBVIOUS
    <2>2. PICK q : q = [request EXCEPT !.asked = false]
        OBVIOUS
    <2>3. request' = q
        BY <1>3, <2>1, <2>2, Zenon DEF Collect
    <2>4. /\ q \in [leaf : Readers \cup {None}, gen : Nat, asked : BOOLEAN, done : BOOLEAN, abandoned : BOOLEAN]
          /\ q.leaf = request.leaf /\ q.gen = request.gen /\ q.done = request.done /\ ~q.asked
        BY <2>1, <2>2
    <2>5. \A u \in calling : u # r => mine[u] = 0
        BY <1>3 DEF Collect, Answered
    <2>6. answer \in {r, None}
        BY <1>3 DEF Collect, Answered
    <2> QED BY <1>3, <2>3, <2>4, <2>5, <2>6 DEF Collect
<1>4. ASSUME NEW r \in Readers, SlurpGivesUp(r) PROVE SlurpInv'
    <2>1. CASE mine[r] # 0 /\ mine[r] = request.gen
        <3>1. PICK true \in BOOLEAN : true = TRUE
            OBVIOUS
        <3>2. PICK q : q = [request EXCEPT !.abandoned = true]
            OBVIOUS
        <3>3. request' = q
            BY <1>4, <2>1, <3>1, <3>2, Zenon DEF SlurpGivesUp
        <3>4. /\ q \in [leaf : Readers \cup {None}, gen : Nat, asked : BOOLEAN, done : BOOLEAN, abandoned : BOOLEAN]
              /\ q.leaf = request.leaf /\ q.gen = request.gen /\ q.done = request.done /\ q.asked = request.asked
            BY <3>2
        <3>5. \A u \in calling : u # r => mine[u] = 0
            BY <1>4, <2>1 DEF SlurpGivesUp
        <3> QED BY <1>4, <3>3, <3>4, <3>5 DEF SlurpGivesUp
    <2>2. CASE ~(mine[r] # 0 /\ mine[r] = request.gen)
        BY <1>4, <2>2 DEF SlurpGivesUp
    <2> QED BY <2>1, <2>2
<1>5. CASE ReadBegins
    BY <1>5 DEF ReadBegins
<1>6. CASE ReadEnds
    <2>1. CASE request.gen = reader.gen
        <3>1. PICK true \in BOOLEAN : true = TRUE
            OBVIOUS
        <3>2. PICK q : q = [request EXCEPT !.done = true]
            OBVIOUS
        <3>3. request' = q
            BY <1>6, <2>1, <3>1, <3>2, Zenon DEF ReadEnds
        <3>4. /\ q \in [leaf : Readers \cup {None}, gen : Nat, asked : BOOLEAN, done : BOOLEAN, abandoned : BOOLEAN]
              /\ q.leaf = request.leaf /\ q.gen = request.gen
              /\ q.asked = request.asked /\ q.abandoned = request.abandoned
            BY <3>2
        <3>5. /\ reader' = Nothing /\ answer' \in {request.leaf, None} /\ reader.gen # 0
              /\ UNCHANGED <<calling, mine, got>>
            BY <1>6, <2>1 DEF ReadEnds
        <3>6. /\ reader' \in [leaf : Readers \cup {None}, gen : Nat]
              /\ reader'.gen = 0
            BY <3>5 DEF Nothing
        <3> QED BY <2>1, <3>3, <3>4, <3>5, <3>6
    <2>2. CASE request.gen # reader.gen
        BY <1>6, <2>2 DEF ReadEnds, Nothing
    <2> QED BY <2>1, <2>2
<1>7. CASE UNCHANGED slurpVars
    BY <1>7 DEF slurpVars
<1> QED BY <1>1, <1>2, <1>3, <1>4, <1>5, <1>6, <1>7 DEF SlurpNext

-----------------------------------------------------------------------------
(* The commands. A number on its way back is of a command that is over,    *)
(* and until the script has written the watch has seen no change, unless   *)
(* its first open failed.                                                  *)

RemoteInv ==
    /\ ackIs = "whole" => ackFile \in {0} \cup ran \cup refused
    /\ ackPut \in {-1, 0} \cup ran \cup refused
    /\ writes \in Nat /\ blind \in BOOLEAN
    /\ writes = 0 /\ ~blind =>
          /\ ran = {} /\ refused = {} /\ flight = 0 /\ ~watch.fresh
          /\ watch.seen => cmdFile = Absent \/ cmdFile = watch.line
    /\ cmdFile \in Lines \cup {Absent, Empty}
    /\ watch \in [line : Lines \cup {Absent, Empty}, fresh : BOOLEAN, seen : BOOLEAN]

LEMMA RemoteBegins == RemoteInit => RemoteInv
<1> SUFFICES ASSUME RemoteInit PROVE RemoteInv
    OBVIOUS
<1>1. PICK false \in BOOLEAN : false = FALSE
    OBVIOUS
<1>2. PICK w : w = [line |-> Empty, fresh |-> false, seen |-> false]
    OBVIOUS
<1>3. watch = w
    BY <1>1, <1>2, Zenon DEF RemoteInit
<1>4. w \in [line : Lines \cup {Absent, Empty}, fresh : BOOLEAN, seen : BOOLEAN] /\ ~w.fresh /\ ~w.seen
    BY <1>1, <1>2
<1>5. blind \in BOOLEAN
    BY Zenon DEF RemoteInit
<1> QED BY <1>3, <1>4, <1>5 DEF RemoteInit, RemoteInv

LEMMA RemoteStep == RemoteInv /\ [RemoteNext]_remoteVars => RemoteInv'
<1> SUFFICES ASSUME RemoteInv, [RemoteNext]_remoteVars PROVE RemoteInv'
    OBVIOUS
<1> USE DEF RemoteInv
<1>1. CASE Watch
    <2>1. /\ watch' \in [line : Lines \cup {Absent, Empty}, fresh : BOOLEAN, seen : BOOLEAN]
          /\ watch'.fresh => watch.fresh \/ (watch.seen /\ cmdFile # Absent /\ cmdFile # watch.line)
          /\ watch'.seen => cmdFile = Absent \/ cmdFile = watch'.line \/ watch' = watch
        BY <1>1 DEF Watch
    <2> QED BY <1>1, <2>1 DEF Watch
<1>2. CASE PutLands \/ PutRefused \/ PutBreaks
    <2>1. UNCHANGED <<cmdFile, watch, flight, ran, refused, blind, writes>> /\ ackPut' = -1
        BY <1>2 DEF PutLands, PutRefused, PutBreaks, TakeAck
    <2>2. ackIs' = "whole" => ackFile' \in {0} \cup ran \cup refused
        BY <1>2 DEF PutLands, PutRefused, PutBreaks, TakeAck
    <2> QED BY <2>1, <2>2
<1>3. CASE Take
    <2>1. /\ watch' \in [line : Lines \cup {Absent, Empty}, fresh : BOOLEAN, seen : BOOLEAN]
          /\ writes # 0 \/ blind
        BY <1>3 DEF Take
    <2>2. UNCHANGED <<cmdFile, ackFile, ackIs, ran, blind, writes>>
        BY <1>3 DEF Take
    <2>3. ackPut' \in {-1, 0} \cup ran \cup refused' /\ refused \subseteq refused'
        BY <1>3 DEF Take, Refuse
    <2> QED BY <2>1, <2>2, <2>3
<1>4. CASE Serve
    BY <1>4 DEF Serve
<1>5. CASE Done
    BY <1>5 DEF Done
<1>6. ASSUME NEW l \in Lines, Write(l) PROVE RemoteInv'
    BY <1>6 DEF Write
<1>7. CASE WatchFails
    <2>1. watch' \in [line : Lines \cup {Absent, Empty}, fresh : BOOLEAN, seen : BOOLEAN]
          /\ watch'.fresh = watch.fresh /\ watch'.line = watch.line
          /\ UNCHANGED <<cmdFile, ackFile, ackIs, ackPut, flight, ran, refused, writes>>
        BY <1>7 DEF WatchFails
    <2>2. blind' \in BOOLEAN /\ (~blind' => ~blind /\ watch.seen)
        BY <1>7, Zenon DEF WatchFails
    <2> QED BY <2>1, <2>2
<1>8. CASE UNCHANGED remoteVars
    BY <1>8 DEF remoteVars
<1> QED BY <1>1, <1>2, <1>3, <1>4, <1>5, <1>6, <1>7, <1>8 DEF RemoteNext, LinkThread, Loop, Puts

-----------------------------------------------------------------------------
(* The queue and what is appended of it. The lines of a log are a chain,   *)
(* each After() the one before.                                            *)

Count(n) == [i \in 1 .. n |-> i]
Chain(from, w, to) ==
    /\ \A i \in 1 .. Len(w) : w[i] = IF i = 1 THEN After(from) ELSE After(w[i - 1])
    /\ to = IF w = <<>> THEN from ELSE w[Len(w)]

LEMMA TailFacts ==
    ASSUME NEW S, NEW q \in Seq(S), NEW n \in 0 .. Len(q)
    PROVE  /\ SubSeq(q, n + 1, Len(q)) \in Seq(S)
           /\ Len(SubSeq(q, n + 1, Len(q))) = Len(q) - n
           /\ \A i \in 1 .. Len(q) - n : SubSeq(q, n + 1, Len(q))[i] = q[i + n]
<1>1. Len(q) \in Nat /\ n \in Nat /\ n <= Len(q) /\ \A i \in 1 .. Len(q) : q[i] \in S
    OBVIOUS
<1>2. \A i \in n + 1 .. Len(q) : q[i] \in S
    BY <1>1
<1>3. /\ SubSeq(q, n + 1, Len(q)) \in Seq(S)
      /\ Len(SubSeq(q, n + 1, Len(q))) = IF n + 1 <= Len(q) THEN Len(q) - (n + 1) + 1 ELSE 0
      /\ \A i \in 1 .. Len(q) - (n + 1) + 1 : SubSeq(q, n + 1, Len(q))[i] = q[n + 1 + i - 1]
    <2>1. n + 1 \in Int /\ Len(q) \in Int
        BY <1>1
    <2> QED BY ONLY <2>1, <1>2, SubSeqProperties
<1>4. \A i \in 1 .. Len(q) - n : n + 1 + i - 1 = i + n /\ i \in 1 .. Len(q) - (n + 1) + 1
    BY <1>1
<1>5. Len(SubSeq(q, n + 1, Len(q))) = Len(q) - n
    BY <1>1, <1>3
<1> QED BY <1>3, <1>4, <1>5

LEMMA Halves ==
    ASSUME NEW S, NEW q \in Seq(S), NEW n \in 0 .. Len(q)
    PROVE  SubSeq(q, 1, n) \o SubSeq(q, n + 1, Len(q)) = q
<1>1. \A m \in 1 .. Len(q) + 1 : \A k \in m - 1 .. Len(q) : \A l \in k .. Len(q) :
         SubSeq(q, m, k) \o SubSeq(q, k + 1, l) = SubSeq(q, m, l)
    BY ConcatAdjacentSubSeq
<1>2. 1 \in 1 .. Len(q) + 1 /\ n \in 1 - 1 .. Len(q) /\ Len(q) \in n .. Len(q)
    OBVIOUS
<1>3. SubSeq(q, 1, n) \o SubSeq(q, n + 1, Len(q)) = SubSeq(q, 1, Len(q))
    BY <1>1, <1>2, Zenon
<1>4. SubSeq(q, 1, Len(q)) = q
    BY SubSeqFull
<1> QED BY <1>3, <1>4

LEMMA ChainAppend ==
    ASSUME NEW from \in Nat, NEW w \in Seq(Nat), NEW to \in Nat, Chain(from, w, to)
    PROVE  Chain(from, Append(w, After(to)), After(to))
<1>1. PICK a : a = After(to)
    OBVIOUS
<1>2. PICK v : v = Append(w, a)
    OBVIOUS
<1>3. /\ Len(v) = Len(w) + 1 /\ v # <<>> /\ v[Len(v)] = a
      /\ \A i \in 1 .. Len(w) : v[i] = w[i]
    BY <1>2
<1>4. ASSUME NEW i \in 1 .. Len(v) PROVE v[i] = IF i = 1 THEN After(from) ELSE After(v[i - 1])
    <2>1. CASE i \in 1 .. Len(w)
        <3>1. v[i] = w[i] /\ (i # 1 => v[i - 1] = w[i - 1])
            BY <1>3, <2>1
        <3> QED BY <2>1, <3>1 DEF Chain
    <2>2. CASE i = Len(w) + 1 /\ w = <<>>
        <3>1. i = 1 /\ to = from
            BY <2>2 DEF Chain
        <3> QED BY <1>1, <1>3, <2>2, <3>1
    <2>3. CASE i = Len(w) + 1 /\ w # <<>>
        <3>1. i # 1 /\ to = w[Len(w)] /\ v[i - 1] = w[Len(w)]
            BY <1>3, <2>3 DEF Chain
        <3> QED BY <1>1, <1>3, <2>3, <3>1
    <2> QED BY <1>3, <2>1, <2>2, <2>3
<1> QED BY <1>1, <1>2, <1>3, <1>4 DEF Chain

LEMMA ChainDrop ==
    ASSUME NEW from \in Nat, NEW w \in Seq(Nat), NEW to \in Nat, Chain(from, w, to),
           NEW k \in 1 .. Len(w)
    PROVE  Chain(w[k], SubSeq(w, k + 1, Len(w)), to)
<1>1. PICK v : v = SubSeq(w, k + 1, Len(w))
    OBVIOUS
<1>0. Len(w) \in Nat /\ k \in Nat /\ 1 <= k /\ k <= Len(w)
    OBVIOUS
<1>2. v \in Seq(Nat) /\ Len(v) = Len(w) - k /\ Len(v) \in Nat /\ \A i \in 1 .. Len(v) : v[i] = w[i + k]
    <2>1. v \in Seq(Nat) /\ Len(v) = Len(w) - k
        BY <1>0, <1>1
    <2>2. ASSUME NEW i \in 1 .. Len(v) PROVE v[i] = w[i + k]
        BY <1>0, <1>1, <2>1
    <2>3. Len(v) \in Nat
        BY ONLY <1>0, <2>1
    <2> QED BY ONLY <2>1, <2>2, <2>3
<1>3. w # <<>> /\ to = w[Len(w)]
    BY DEF Chain
<1>4. ASSUME NEW i \in 1 .. Len(v) PROVE v[i] = IF i = 1 THEN After(w[k]) ELSE After(v[i - 1])
    <2>0. i \in Nat /\ 1 <= i /\ i <= Len(v)
        BY <1>2
    <2>1. i + k \in 1 .. Len(w) /\ i + k # 1
        BY <1>0, <1>2, <2>0
    <2>2. w[i + k] = After(w[i + k - 1])
        BY <2>1 DEF Chain
    <2>3. CASE i = 1
        BY <1>2, <2>2, <2>3
    <2>4. CASE i # 1
        <3>1. v[i - 1] = w[i + k - 1]
            <4>1. i - 1 \in 1 .. Len(v) /\ (i - 1) + k = i + k - 1
                BY <1>0, <1>2, <2>0, <2>4
            <4> QED BY <1>2, <4>1
        <3> QED BY <1>2, <2>2, <2>4, <3>1
    <2> QED BY <2>3, <2>4
<1>5. to = IF v = <<>> THEN w[k] ELSE v[Len(v)]
    <2>1. CASE k = Len(w)
        BY <1>2, <1>3, <2>1
    <2>2. CASE k # Len(w)
        <3>1. Len(v) \in 1 .. Len(v) /\ Len(v) + k = Len(w) /\ v # <<>>
            BY <1>0, <1>2, <2>2
        <3> QED BY <1>2, <1>3, <3>1
    <2> QED BY <2>1, <2>2
<1> QED BY <1>1, <1>4, <1>5 DEF Chain

LEMMA Joined ==
    ASSUME NEW S, NEW p \in Seq(S), NEW q \in Seq(S), NEW r \in Seq(S)
    PROVE  p \o (q \o r) = (p \o q) \o r
BY ConcatAssociative, SMTT(60)

LEMMA SecondHalf ==
    ASSUME NEW p \in Seq(Nat), NEW q \in Seq(Nat)
    PROVE  SubSeq(p \o q, Len(p) + 1, Len(p \o q)) = q
<1>1. PICK m : m = Len(p)
    OBVIOUS
<1>2. PICK n : n = Len(q)
    OBVIOUS
<1>3. m \in Nat /\ n \in Nat /\ Len(p \o q) = m + n /\ p \o q \in Seq(Nat)
    BY <1>1, <1>2, ConcatProperties
<1>4. CASE q = <<>>
    <2>1. n = 0
        BY <1>2, <1>4
    <2>2. SubSeq(p \o q, m + 1, m + n) = <<>>
        BY <1>3, <2>1, SubSeqEmpty
    <2> QED BY <1>1, <1>3, <1>4, <2>2
<1>5. CASE q # <<>>
    <2>1. n >= 1
        BY <1>2, <1>3, <1>5
    <2>2. m + 1 \in m + 1 .. m + n /\ m + n \in m + 1 .. m + n
        BY ONLY <1>3, <2>1
    <2>3. SubSeq(p \o q, m + 1, m + n) = SubSeq(q, m + 1 - m, m + n - m)
        BY <1>1, <1>2, <2>2, SubSeqOfConcat2
    <2>4. m + 1 - m = 1 /\ m + n - m = n
        BY ONLY <1>3
    <2> QED BY <1>1, <1>2, <1>3, <2>3, <2>4, SubSeqFull
<1> QED BY <1>4, <1>5

\* Of what stands behind a and the first n of h: the rest of h, and r.
LEMMA MiddleFacts ==
    ASSUME NEW a \in Seq(Nat), NEW h \in Seq(Nat), NEW r \in Seq(Nat), NEW n \in 1 .. Len(h)
    PROVE  \E j \in 1 .. Len(a \o (h \o r)) :
               /\ (a \o (h \o r))[j] = h[n]
               /\ SubSeq(a \o (h \o r), j + 1, Len(a \o (h \o r))) = SubSeq(h, n + 1, Len(h)) \o r
<1>0. Len(h) \in Nat /\ n \in Nat /\ 1 <= n /\ n <= Len(h) /\ n \in 0 .. Len(h)
    OBVIOUS
<1>1. PICK b : b = SubSeq(h, 1, n)
    OBVIOUS
<1>2. PICK s : s = SubSeq(h, n + 1, Len(h))
    OBVIOUS
<1>3. b \in Seq(Nat) /\ Len(b) = n /\ b[n] = h[n]
    BY <1>0, <1>1
<1>4. s \in Seq(Nat) /\ b \o s = h
    BY <1>0, <1>1, <1>2, TailFacts, Halves
<1>5. PICK p : p = a \o b
    OBVIOUS
<1>6. PICK q : q = s \o r
    OBVIOUS
<1>7. p \in Seq(Nat) /\ q \in Seq(Nat) /\ Len(p) = Len(a) + Len(b) /\ Len(a) \in Nat
    <2>1. a \o b \in Seq(Nat) /\ Len(a \o b) = Len(a) + Len(b)
        BY <1>3, ConcatProperties
    <2>2. s \o r \in Seq(Nat)
        BY <1>4, ConcatProperties
    <2> QED BY <1>5, <1>6, <2>1, <2>2
<1>8. a \o (h \o r) = p \o q
    <2>1. a \in Seq(Nat) /\ b \in Seq(Nat) /\ s \in Seq(Nat) /\ r \in Seq(Nat) /\ q \in Seq(Nat)
        BY <1>3, <1>4, <1>7
    <2>2. b \o (s \o r) = (b \o s) \o r
        BY ONLY <2>1, Joined, SMTT(60)
    <2>3. a \o (b \o q) = (a \o b) \o q
        BY ONLY <2>1, Joined, SMTT(60)
    <2> QED BY ONLY <1>4, <1>5, <1>6, <2>2, <2>3
<1>9. PICK v : v = p \o q
    OBVIOUS
<1>10. v \in Seq(Nat) /\ Len(v) = Len(p) + Len(q) /\ \A i \in 1 .. Len(p) : v[i] = p[i]
    <2>1. p \in Seq(Nat) /\ q \in Seq(Nat) /\ Len(p) \in Nat /\ Len(q) \in Nat
        BY <1>7
    <2>2. /\ p \o q \in Seq(Nat) /\ Len(p \o q) = Len(p) + Len(q)
          /\ \A i \in 1 .. Len(p) + Len(q) : (p \o q)[i] = IF i <= Len(p) THEN p[i] ELSE q[i - Len(p)]
        BY <2>1, ConcatProperties
    <2>3. \A i \in 1 .. Len(p) : i \in 1 .. Len(p) + Len(q) /\ i <= Len(p)
        BY <2>1
    <2> QED BY <1>9, <2>2, <2>3
<1>11. PICK j : j = Len(p)
    OBVIOUS
<1>12. j \in 1 .. Len(v) /\ j \in 1 .. Len(p) /\ j = Len(a) + n
    <2>1. /\ j = Len(p) /\ Len(p) = Len(a) + n /\ Len(a) \in Nat /\ Len(q) \in Nat
          /\ Len(v) = Len(p) + Len(q)
        BY <1>3, <1>7, <1>10, <1>11
    <2> QED BY ONLY <1>0, <2>1
<1>13. p[j] = b[n]
    <2>1. /\ \A i \in 1 .. Len(a) + Len(b) : p[i] = IF i <= Len(a) THEN a[i] ELSE b[i - Len(a)]
        BY <1>3, <1>5, ConcatProperties
    <2>2. j \in 1 .. Len(a) + Len(b) /\ ~(j <= Len(a)) /\ j - Len(a) = n
        BY <1>0, <1>3, <1>7, <1>12
    <2> QED BY ONLY <2>1, <2>2
<1>14. SubSeq(v, j + 1, Len(v)) = q
    BY <1>7, <1>9, <1>11, SecondHalf
<1> QED BY <1>2, <1>3, <1>6, <1>8, <1>9, <1>10, <1>12, <1>13, <1>14

PictureRows == Nat \cup {"old"}

LEMMA AppendLater ==
    ASSUME NEW e \in Seq(PictureRows), NEW w \in Seq(Nat), NEW x \in Nat
    PROVE  e \o Append(w, x) = Append(e \o w, x)
<1>1. PICK S : S = PictureRows
    OBVIOUS
<1>2. e \in Seq(S) /\ w \in Seq(S) /\ x \in S
    BY <1>1, SeqMonotonic DEF PictureRows
<1> QED BY ONLY <1>2

LEMMA CountGrows == ASSUME NEW n \in Nat PROVE Append(Count(n), n + 1) = Count(n + 1) /\ Count(n) \in Seq(Nat)
<1>1. Count(n) \in Seq(Nat) /\ Len(Count(n)) = n
    BY DEF Count
<1>2. PICK v : v = Append(Count(n), n + 1)
    OBVIOUS
<1>3. /\ v \in Seq(Nat) /\ Len(v) = n + 1 /\ v[n + 1] = n + 1
      /\ \A i \in 1 .. n : v[i] = Count(n)[i]
    BY <1>1, <1>2
<1>4. \A i \in 1 .. n + 1 : v[i] = i
    BY <1>3 DEF Count
<1>5. v = Count(n + 1)
    BY <1>3, <1>4 DEF Count
<1> QED BY <1>1, <1>2, <1>5

\* Where the thread is and what it has in its hands.
Places == {<<"loop", 0>>, <<"appends", 1>>, <<"appends", 2>>, <<"puts", 0>>, <<"puts", 1>>}

LineTypeOK ==
    /\ queue \in [leaf : {"log", "picture"}, lines : Seq(Nat)]
    /\ pending \in [{"alive", "picture"} -> BOOLEAN]
    /\ at \in Places
    /\ at # <<"puts", 1>> => held \in Seq(Nat)
    /\ at = <<"puts", 1>> => held \in {<<"alive">>, <<"picture">>}
    /\ missed \in BOOLEAN /\ given \in Nat /\ logFile \in Nat /\ lost \in Seq(Nat)
    /\ shot \in {"none", "emptying", "rows", "landed", "failed"} \X (0 .. ShotRows)
    /\ picture \in Seq(PictureRows) /\ shots \in 0 .. MaxShots

LinkTypeOK ==
    /\ StandbyTypeOK /\ LineTypeOK
    /\ paused \in BOOLEAN /\ cable \in BOOLEAN
    /\ writeOk \in {"untried", "yes", "no"}

\* The copy is the head of the queue until it is removed: no one else may take
\* the queue meanwhile.
HeldInv ==
    at \in {<<"appends", 1>>, <<"appends", 2>>} =>
        /\ held # <<>> /\ Len(held) <= Len(queue.lines)
        /\ held = SubSeq(queue.lines, 1, Len(held))

\* A put of the picture under way empties it, sooner or later.
InHand == at = <<"puts", 1>> /\ held = <<"picture">>
Emptier == IF InHand THEN <<>> ELSE picture
RowsWaiting == IF queue.leaf = "picture" THEN Waiting ELSE <<>>
LogWaiting == IF queue.leaf = "log" THEN Waiting ELSE <<>>
LogBehind == lost \o LogWaiting

\* The rows on the other side and those that wait behind them are those pushed.
ShotInv ==
    ~missed =>
        /\ shot[1] = "emptying" =>
              RowsWaiting = <<>> /\ (pending["picture"] \/ Emptier = <<>>)
        /\ shot[1] = "rows" =>
              ~pending["picture"] /\ Emptier \o RowsWaiting = Count(shot[2])
        /\ shot[1] = "landed" =>
              ~pending["picture"] /\ RowsWaiting = <<>> /\ ~InHand /\ picture = Count(ShotRows)

LineInv == HeldInv /\ Chain(logFile, LogBehind, given) /\ ShotInv
LinkInv == LinkTypeOK /\ StandbyInv /\ LineInv

LEMMA LinkBegins == LinkInit => LinkInv
<1> SUFFICES ASSUME LinkInit PROVE LinkInv
    OBVIOUS
<1>1. StandbyInv /\ StandbyTypeOK
    BY StandbyBegins DEF LinkInit, StandbyInv
<1>2. /\ queue \in [leaf : {"log", "picture"}, lines : Seq(Nat)]
      /\ queue.leaf = "log" /\ queue.lines = <<>>
    BY DEF LinkInit
<1>3. at = <<"loop", 0>> /\ held = <<>> /\ shot = <<"none", 0>>
    BY DEF LinkInit
<1>4. pending \in [{"alive", "picture"} -> BOOLEAN]
    <2>1. PICK false \in BOOLEAN : false = FALSE
        OBVIOUS
    <2>2. PICK f : f = [l \in {"alive", "picture"} |-> false]
        OBVIOUS
    <2>3. pending = f
        BY <2>1, <2>2, Zenon DEF LinkInit
    <2> QED BY <2>2, <2>3
<1>5. paused \in BOOLEAN /\ cable \in BOOLEAN /\ missed \in BOOLEAN
    BY Zenon DEF LinkInit
<1>6. /\ writeOk = "untried" /\ given = 0 /\ logFile = 0 /\ lost = <<>> /\ picture = <<"old">> /\ shots = 0
    BY DEF LinkInit
<1>7. LinkTypeOK
    BY <1>1, <1>2, <1>3, <1>4, <1>5, <1>6, LinkAssumption DEF LinkTypeOK, LineTypeOK, Places, PictureRows
<1>8. LogBehind = <<>>
    BY <1>2, <1>3, <1>6 DEF LogBehind, LogWaiting, Waiting
<1>9. LineInv
    BY <1>3, <1>6, <1>8 DEF LineInv, HeldInv, Chain, ShotInv
<1> QED BY <1>1, <1>7, <1>9 DEF LinkInv

\* What the lines are to those who wait, by the thread's place.
LEMMA TheWaiting ==
    ASSUME LinkInv
    PROVE  /\ queue.lines \in Seq(Nat) /\ queue.leaf \in {"log", "picture"}
           /\ Waiting \in Seq(Nat)
           /\ at # <<"appends", 2>> => Waiting = queue.lines
           /\ at \in {<<"appends", 1>>, <<"appends", 2>>} =>
                 /\ held \in Seq(Nat) /\ Len(held) \in 1 .. Len(queue.lines) /\ queue.lines # <<>>
                 /\ held[Len(held)] = queue.lines[Len(held)]
                 /\ queue.lines = held \o SubSeq(queue.lines, Len(held) + 1, Len(queue.lines))
<1> USE DEF LinkInv, LinkTypeOK, LineTypeOK, LineInv, HeldInv
<1>1. queue.lines \in Seq(Nat) /\ queue.leaf \in {"log", "picture"}
    OBVIOUS
<1>2. ASSUME at \in {<<"appends", 1>>, <<"appends", 2>>}
      PROVE  /\ held \in Seq(Nat) /\ Len(held) \in 1 .. Len(queue.lines) /\ queue.lines # <<>>
             /\ held[Len(held)] = queue.lines[Len(held)]
             /\ queue.lines = held \o SubSeq(queue.lines, Len(held) + 1, Len(queue.lines))
    <2>1. PICK q \in Seq(Nat) : q = queue.lines
        BY <1>1
    <2>2. PICK n : n = Len(held)
        OBVIOUS
    <2>3. held \in Seq(Nat) /\ n \in 1 .. Len(q) /\ Len(q) \in Nat /\ n \in Nat
        BY <1>2, <2>1, <2>2
    <2>4. held = SubSeq(q, 1, n)
        BY <1>2, <2>1, <2>2
    <2>5. held[n] = q[n] /\ \A i \in 1 .. n : held[i] = q[i]
        BY <2>3, <2>4
    <2>6. q = held \o SubSeq(q, n + 1, Len(q))
        <3>1. n \in 0 .. Len(q)
            BY <2>3
        <3> QED BY <2>4, <3>1, Halves
    <2>7. q # <<>>
        BY <2>3
    <2> QED BY <2>1, <2>2, <2>3, <2>5, <2>6, <2>7
<1>3. Waiting \in Seq(Nat)
    <2>1. CASE at = <<"appends", 2>>
        <3>1. SubSeq(queue.lines, Len(held) + 1, Len(queue.lines)) \in Seq(Nat)
            <4>1. PICK q \in Seq(Nat) : q = queue.lines
                BY <1>1
            <4>0. Len(held) \in 1 .. Len(q)
                BY <1>2, <2>1, <4>1
            <4>2. PICK n \in 0 .. Len(q) : n = Len(held)
                BY <4>0
            <4>3. SubSeq(q, n + 1, Len(q)) \in Seq(Nat)
                BY <4>2, TailFacts
            <4> QED BY <4>1, <4>2, <4>3
        <3> QED BY <2>1, <3>1 DEF Waiting
    <2>2. CASE at # <<"appends", 2>>
        BY <1>1, <2>2 DEF Waiting
    <2> QED BY <2>1, <2>2
<1> QED BY <1>1, <1>2, <1>3 DEF Waiting

LEMMA SameChain ==
    ASSUME LineInv, LogWaiting' = LogWaiting, UNCHANGED <<lost, given, logFile>>
    PROVE  Chain(logFile, LogBehind, given)'
BY DEF LineInv, LogBehind, Chain, After

\* What waits and where it goes are as they were.
LEMMA SameLines ==
    ASSUME LineInv, Waiting' = Waiting, Emptier' = Emptier, InHand' <=> InHand,
           queue'.leaf = queue.leaf, pending'["picture"] = pending["picture"],
           UNCHANGED <<given, logFile, lost, shot, picture, missed>>
    PROVE  Chain(logFile, LogBehind, given)' /\ ShotInv'
<1>1. LogWaiting' = LogWaiting /\ RowsWaiting' = RowsWaiting
    BY DEF LogWaiting, RowsWaiting
<1>2. Chain(logFile, LogBehind, given)'
    BY <1>1, SameChain
<1>3. ShotInv'
    BY <1>1 DEF LineInv, ShotInv, Count
<1> QED BY <1>2, <1>3

LEMMA LinesStand ==
    ASSUME LinkInv, UNCHANGED lineVars
    PROVE  LineTypeOK' /\ LineInv'
<1>1. Waiting' = Waiting /\ HeldInv' /\ Emptier' = Emptier /\ (InHand' <=> InHand)
    BY DEF lineVars, Waiting, LinkInv, LineInv, HeldInv, Emptier, InHand
<1>2. Chain(logFile, LogBehind, given)' /\ ShotInv'
    BY <1>1, SameLines DEF lineVars, LinkInv
<1> QED BY <1>1, <1>2 DEF LineInv, LineTypeOK, LinkInv, LinkTypeOK, lineVars, Places

-----------------------------------------------------------------------------
(* The link's thread.                                                      *)

LEMMA CopyKeeps == ASSUME LinkInv, CopyLines PROVE LineTypeOK' /\ LineInv'
<1> USE DEF CopyLines
<1>1. /\ at = <<"loop", 0>> /\ queue.lines \in Seq(Nat) /\ Waiting = queue.lines /\ ~InHand
    BY TheWaiting DEF InHand
<1>2. at' \in {<<"puts", 0>>, <<"appends", 1>>} /\ Waiting' = queue.lines /\ ~InHand'
    BY DEF Waiting, InHand
<1>3. Emptier' = Emptier
    BY <1>1, <1>2 DEF Emptier
<1>4. HeldInv'
    <2>1. CASE queue.lines = <<>>
        BY <2>1 DEF HeldInv
    <2>2. CASE queue.lines # <<>>
        <3>1. queue.lines = SubSeq(queue.lines, 1, Len(queue.lines)) /\ Len(queue.lines) \in Nat
            BY <1>1, SubSeqFull
        <3> QED BY <2>2, <3>1 DEF HeldInv
    <2> QED BY <2>1, <2>2
<1>5. Chain(logFile, LogBehind, given)' /\ ShotInv'
    BY <1>1, <1>2, <1>3, SameLines DEF LinkInv
<1>6. LineTypeOK'
    <2>1. held' \in Seq(Nat) /\ at' \in Places
        BY <1>1, <1>2 DEF Places
    <2> QED BY <1>2, <2>1 DEF LinkInv, LinkTypeOK, LineTypeOK
<1> QED BY <1>4, <1>5, <1>6 DEF LineInv

LEMMA WriteKeeps ==
    ASSUME LinkInv, WriteLines PROVE LineTypeOK' /\ LineInv' /\ writeOk' \in {"yes", "no"}
<1> USE DEF WriteLines
<1>1. /\ at = <<"appends", 1>> /\ Waiting = queue.lines /\ ~InHand
      /\ queue.lines \in Seq(Nat) /\ held \in Seq(Nat) /\ Len(held) \in 1 .. Len(queue.lines)
      /\ queue.lines # <<>> /\ held[Len(held)] = queue.lines[Len(held)]
      /\ queue.lines = held \o SubSeq(queue.lines, Len(held) + 1, Len(queue.lines))
      /\ queue.leaf \in {"log", "picture"}
    BY TheWaiting, SMTT(60) DEF InHand
<1>2. UNCHANGED <<queue, pending, held, given, shot, shots>>
    OBVIOUS
<1>3. PICK w \in Seq(Nat) : w = queue.lines
    BY <1>1
<1>4. PICK k \in 1 .. Len(w) : k = Len(held)
    BY <1>1, <1>3
<1>5. PICK rest : rest = SubSeq(w, k + 1, Len(w))
    OBVIOUS
<1>6. rest \in Seq(Nat) /\ w = held \o rest /\ k \in 0 .. Len(w)
    <2>1. k \in 0 .. Len(w)
        OBVIOUS
    <2> QED BY <1>1, <1>3, <1>4, <1>5, <2>1, TailFacts
<1>7. CASE ~cable
    <2>1. at' = <<"puts", 0>> /\ UNCHANGED <<logFile, lost, picture, missed>> /\ writeOk' = "no"
        BY <1>7
    <2>2. Waiting' = Waiting /\ ~InHand' /\ Emptier' = Emptier
        BY <1>1, <1>2, <2>1 DEF Waiting, InHand, Emptier
    <2>3. HeldInv'
        BY <2>1 DEF HeldInv
    <2>4. Chain(logFile, LogBehind, given)' /\ ShotInv'
        BY <1>1, <1>2, <2>1, <2>2, SameLines DEF LinkInv
    <2>5. LineTypeOK'
        BY <1>1, <1>2, <2>1 DEF LinkInv, LinkTypeOK, LineTypeOK, Places
    <2> QED BY <2>1, <2>3, <2>4, <2>5 DEF LineInv
<1>8. CASE cable
    <2>1. at' = <<"appends", 2>> /\ writeOk' = "yes"
        BY <1>8
    <2>2. Waiting' = rest /\ ~InHand' /\ HeldInv'
        BY <1>1, <1>2, <1>3, <1>4, <1>5, <2>1 DEF Waiting, InHand, HeldInv, LinkInv, LineInv
    <2>3. PICK n \in 0 .. k :
             \/ /\ queue.leaf = "log" /\ UNCHANGED <<picture, missed>>
                /\ logFile' = IF n = 0 THEN logFile ELSE held[n]
                /\ lost' = (IF n = 0 THEN lost ELSE <<>>) \o SubSeq(held, n + 1, k)
             \/ /\ queue.leaf = "picture" /\ UNCHANGED <<logFile, lost>>
                /\ picture' = picture \o SubSeq(held, 1, n)
                /\ missed' = (missed \/ n < k)
        BY <1>4, <1>8
    <2>4. CASE queue.leaf = "log"
        <3>1. PICK l \in Seq(Nat) : l = lost
            BY DEF LinkInv, LinkTypeOK, LineTypeOK
        <3>2. /\ Chain(logFile, l \o w, given) /\ l \o w \in Seq(Nat)
              /\ logFile \in Nat /\ given \in Nat
            BY <1>1, <1>3, <2>4, <3>1 DEF LinkInv, LinkTypeOK, LineTypeOK, LineInv, LogBehind, LogWaiting
        <3>3. LogWaiting' = rest
            BY <1>2, <2>2, <2>4 DEF LogWaiting
        <3>4. logFile' \in Nat /\ lost' \in Seq(Nat) /\ Chain(logFile', lost' \o rest, given)
            <4>1. CASE n = 0
                <5>1. SubSeq(held, n + 1, k) = held
                    BY <1>1, <1>4, <4>1, SubSeqFull
                <5>2. logFile' = logFile /\ lost' = l \o held /\ lost' \in Seq(Nat)
                    <6>1. l \o held \in Seq(Nat)
                        BY <1>1, ConcatProperties
                    <6> QED BY <2>3, <2>4, <3>1, <4>1, <5>1, <6>1
                <5>3. l \o w = (l \o held) \o rest
                    <6> HIDE DEF WriteLines
                    <6>0. held \in Seq(Nat) /\ rest \in Seq(Nat)
                        BY <1>1, <1>6
                    <6>1. l \o (held \o rest) = (l \o held) \o rest
                        BY ONLY <6>0, Joined, SMTT(60)
                    <6> QED BY ONLY <1>6, <6>1
                <5> QED BY <3>2, <5>2, <5>3
            <4>2. CASE n # 0
                <5>2. PICK h \in Seq(Nat) : h = held
                    BY <1>1
                <5>1. n \in 1 .. Len(h)
                    BY <1>4, <4>2, <5>2
                <5>3. w = h \o rest
                    BY <1>6, <5>2
                <5>4. PICK j \in 1 .. Len(l \o w) :
                         /\ (l \o w)[j] = h[n]
                         /\ SubSeq(l \o w, j + 1, Len(l \o w)) = SubSeq(h, n + 1, Len(h)) \o rest
                    <6>1. l \in Seq(Nat) /\ h \in Seq(Nat) /\ rest \in Seq(Nat)
                        BY <1>6
                    <6>2. \E j \in 1 .. Len(l \o (h \o rest)) :
                             /\ (l \o (h \o rest))[j] = h[n]
                             /\ SubSeq(l \o (h \o rest), j + 1, Len(l \o (h \o rest)))
                                   = SubSeq(h, n + 1, Len(h)) \o rest
                        BY ONLY <5>1, <6>1, MiddleFacts, Zenon
                    <6> QED BY ONLY <5>3, <6>2, Zenon
                <5>5. Chain((l \o w)[j], SubSeq(l \o w, j + 1, Len(l \o w)), given)
                    BY <3>2, <5>4, ChainDrop
                <5>6. PICK r : r = SubSeq(h, n + 1, Len(h))
                    OBVIOUS
                <5>7. r \in Seq(Nat) /\ h[n] \in Nat
                    <6>1. n \in 0 .. Len(h) /\ h \in Seq(Nat)
                        BY <5>1
                    <6>2. r \in Seq(Nat)
                        BY ONLY <5>6, <6>1, TailFacts
                    <6>3. h[n] \in Nat
                        BY ONLY <5>1, <6>1
                    <6> QED BY <6>2, <6>3
                <5>8. logFile' = h[n] /\ lost' = <<>> \o r
                    BY <1>4, <2>3, <2>4, <4>2, <5>2, <5>6
                <5>9. <<>> \o r = r
                    BY <5>7, ConcatEmptySeq
                <5> QED BY <5>4, <5>5, <5>6, <5>7, <5>8, <5>9
            <4> QED BY <4>1, <4>2
        <3>5. Chain(logFile, LogBehind, given)'
            BY <1>2, <3>3, <3>4 DEF LogBehind, Chain, After
        <3>6. RowsWaiting' = RowsWaiting /\ picture' = picture /\ missed' = missed
            BY <1>2, <2>3, <2>4 DEF RowsWaiting
        <3>7. Emptier' = Emptier
            BY <1>1, <2>2, <3>6 DEF Emptier
        <3>8. ShotInv'
            BY <1>1, <1>2, <2>2, <3>6, <3>7 DEF ShotInv, LinkInv, LineInv, Count
        <3>9. LineTypeOK'
            BY <1>1, <1>2, <2>1, <3>4, <3>6 DEF LinkInv, LinkTypeOK, LineTypeOK, Places
        <3> QED BY <2>1, <2>2, <3>5, <3>8, <3>9 DEF LineInv
    <2>5. CASE queue.leaf = "picture"
        <3>1. PICK h : h = SubSeq(held, 1, n)
            OBVIOUS
        <3>2. UNCHANGED <<logFile, lost>> /\ picture' = picture \o h /\ missed' = (missed \/ n < k)
            BY <2>3, <2>5, <3>1
        <3>3. LogWaiting' = LogWaiting
            BY <1>2, <2>5 DEF LogWaiting
        <3>4. Chain(logFile, LogBehind, given)'
            BY <1>2, <3>2, <3>3, SameChain DEF LinkInv
        <3>5. RowsWaiting = w /\ RowsWaiting' = rest /\ w # <<>>
            BY <1>1, <1>2, <1>3, <2>2, <2>5 DEF RowsWaiting
        <3>6. /\ picture \in Seq(PictureRows) /\ held \in Seq(PictureRows) /\ rest \in Seq(PictureRows)
              /\ h \in Seq(PictureRows)
            <4>0. held \in Seq(Nat) /\ n \in 0 .. Len(held)
                BY <1>1, <1>4
            <4>1. h \in Seq(Nat)
                BY ONLY <3>1, <4>0
            <4> QED BY <1>1, <1>6, <4>1, SeqMonotonic DEF LinkInv, LinkTypeOK, LineTypeOK, PictureRows
        <3>7. picture \o w = (picture \o held) \o rest
            <4> HIDE DEF WriteLines
            <4>1. picture \o (held \o rest) = (picture \o held) \o rest
                BY ONLY <3>6, Joined, SMTT(60)
            <4> QED BY ONLY <1>6, <4>1
        <3>8. ~missed' => ~missed /\ h = held
            <4>1. k \in Nat /\ n \in Nat
                BY <1>6
            <4>2. missed' \/ (~missed /\ ~(n < k))
                BY <3>2, Zenon
            <4>3. ~(n < k) => n = k
                BY <4>1
            <4>4. SubSeq(held, 1, k) = held
                BY <1>1, <1>4, SubSeqFull
            <4> QED BY <3>1, <4>2, <4>3, <4>4
        <3>9. Emptier = picture /\ (~missed' => Emptier' = picture \o held)
            BY <1>1, <2>2, <3>2, <3>8 DEF Emptier
        <3>10. ShotInv'
            <4>1. shot[1] \notin {"emptying", "landed"} \/ missed
                BY <3>5 DEF LinkInv, LineInv, ShotInv
            <4> QED BY <1>2, <3>5, <3>7, <3>8, <3>9, <4>1 DEF LinkInv, LineInv, ShotInv, Count
        <3>11. picture \o h \in Seq(PictureRows)
            BY <3>6, ConcatProperties
        <3>12. missed' \in BOOLEAN
            BY <3>2, Zenon
        <3>13. LineTypeOK'
            BY <1>1, <1>2, <2>1, <3>2, <3>11, <3>12 DEF LinkInv, LinkTypeOK, LineTypeOK, Places
        <3> QED BY <2>1, <2>2, <3>4, <3>10, <3>13 DEF LineInv
    <2> QED BY <1>1, <2>4, <2>5
<1> QED BY <1>7, <1>8

LEMMA RemoveKeeps == ASSUME LinkInv, RemoveLines PROVE LineTypeOK' /\ LineInv'
<1>1. at = <<"appends", 2>> /\ Waiting \in Seq(Nat) /\ ~InHand
      /\ at' = <<"puts", 0>> /\ held' = <<>>
      /\ UNCHANGED <<pending, given, logFile, lost, shot, picture, shots, missed>>
    BY TheWaiting DEF RemoveLines, InHand
<1>2. PICK q : q = [queue EXCEPT !.lines = Waiting]
    OBVIOUS
<1>3. queue' = q
    BY <1>1, <1>2 DEF RemoveLines, Waiting
<1>4. q \in [leaf : {"log", "picture"}, lines : Seq(Nat)] /\ q.leaf = queue.leaf /\ q.lines = Waiting
    BY <1>1, <1>2 DEF LinkInv, LinkTypeOK, LineTypeOK
<1>5. Waiting' = Waiting /\ ~InHand' /\ HeldInv'
    BY <1>1, <1>3, <1>4 DEF Waiting, InHand, HeldInv
<1>6. Emptier' = Emptier
    BY <1>1, <1>5 DEF Emptier
<1>7. Chain(logFile, LogBehind, given)' /\ ShotInv'
    BY <1>1, <1>3, <1>4, <1>5, <1>6, SameLines DEF LinkInv
<1>8. LineTypeOK'
    BY <1>1, <1>3, <1>4 DEF LinkInv, LinkTypeOK, LineTypeOK, Places
<1> QED BY <1>5, <1>7, <1>8 DEF LineInv

LEMMA TakePutKeeps == ASSUME LinkInv, TakePut PROVE LineTypeOK' /\ LineInv'
<1>1. at = <<"puts", 0>> /\ ~InHand /\ Emptier = picture
      /\ UNCHANGED <<queue, given, logFile, lost, shot, picture, shots, missed>>
      /\ pending \in [{"alive", "picture"} -> BOOLEAN]
    BY DEF TakePut, InHand, Emptier, LinkInv, LinkTypeOK, LineTypeOK
<1>2. ASSUME NEW l \in {"alive", "picture"}, pending[l], pending' = [pending EXCEPT ![l] = FALSE],
             at' = <<"puts", 1>>, held' = <<l>>
      PROVE  LineTypeOK' /\ LineInv'
    <2>1. Waiting' = Waiting /\ HeldInv'
        BY <1>1, <1>2 DEF Waiting, HeldInv
    <2>2. pending' \in [{"alive", "picture"} -> BOOLEAN] /\ ~pending'[l]
        BY <1>1, <1>2, Zenon
    <2>3. LineTypeOK'
        BY <1>1, <1>2, <2>2 DEF LinkInv, LinkTypeOK, LineTypeOK, Places
    <2>4. CASE l = "alive"
        <3>1. ~InHand' /\ Emptier' = picture
            BY <1>1, <1>2, <2>4 DEF InHand, Emptier
        <3>2. pending'["picture"] = pending["picture"]
            BY <1>1, <1>2, <2>4
        <3> QED BY <1>1, <2>1, <2>3, <3>1, <3>2, SameLines DEF LinkInv, LineInv
    <2>5. CASE l = "picture"
        <3>1. Emptier' = <<>>
            BY <1>1, <1>2, <2>5 DEF InHand, Emptier
        <3>2. LogWaiting' = LogWaiting /\ RowsWaiting' = RowsWaiting
            BY <1>1, <2>1 DEF LogWaiting, RowsWaiting
        <3>3. Chain(logFile, LogBehind, given)'
            BY <1>1, <3>2, SameChain DEF LinkInv
        <3>4. ShotInv'
            BY <1>1, <1>2, <2>5, <3>1, <3>2 DEF LinkInv, LineInv, ShotInv
        <3> QED BY <2>1, <2>3, <3>3, <3>4 DEF LineInv
    <2> QED BY <2>4, <2>5
<1>3. ASSUME at' = <<"loop", 0>>, UNCHANGED <<pending, held>>, held \in Seq(Nat)
      PROVE  LineTypeOK' /\ LineInv'
    <2>1. Waiting' = Waiting /\ HeldInv' /\ ~InHand' /\ Emptier' = picture
        BY <1>1, <1>3 DEF Waiting, HeldInv, InHand, Emptier
    <2>2. LineTypeOK'
        BY <1>1, <1>3 DEF LinkInv, LinkTypeOK, LineTypeOK, Places
    <2> QED BY <1>1, <1>3, <2>1, <2>2, SameLines DEF LinkInv, LineInv
<1> QED BY <1>1, <1>2, <1>3 DEF TakePut, LinkInv, LinkTypeOK, LineTypeOK

LEMMA WritePutKeeps ==
    ASSUME LinkInv, WritePut PROVE LineTypeOK' /\ LineInv' /\ writeOk' \in {"yes", "no"}
<1>1. at = <<"puts", 1>> /\ held \in {<<"alive">>, <<"picture">>} /\ (InHand <=> held = <<"picture">>)
      /\ at' = <<"puts", 0>> /\ held' = <<>>
      /\ UNCHANGED <<queue, pending, given, logFile, lost, shot, shots>>
      /\ missed \in BOOLEAN /\ picture \in Seq(PictureRows)
    BY DEF WritePut, InHand, LinkInv, LinkTypeOK, LineTypeOK
<1>2. Waiting' = Waiting /\ HeldInv' /\ ~InHand' /\ Emptier' = picture'
    BY <1>1 DEF Waiting, HeldInv, InHand, Emptier
<1>3. LogWaiting' = LogWaiting /\ RowsWaiting' = RowsWaiting
    BY <1>1, <1>2 DEF LogWaiting, RowsWaiting
<1>4. Chain(logFile, LogBehind, given)'
    BY <1>1, <1>3, SameChain DEF LinkInv
<1>5. missed' \in BOOLEAN /\ (~missed' => ~missed)
    BY <1>1, Zenon DEF WritePut
<1>6. picture' \in {picture, <<>>} /\ (~missed' => picture' = Emptier)
    BY <1>1 DEF WritePut, Emptier
<1>7. ShotInv'
    <2>1. ASSUME ~missed', shot[1] = "landed"
          PROVE  ~pending["picture"] /\ RowsWaiting = <<>> /\ picture' = Count(ShotRows)
        BY <1>5, <1>6, <2>1 DEF LinkInv, LineInv, ShotInv, Emptier
    <2> QED BY <1>1, <1>2, <1>3, <1>5, <1>6, <2>1 DEF LinkInv, LineInv, ShotInv, Count
<1>8. LineTypeOK'
    <2>1. picture' \in Seq(PictureRows)
        <3>1. <<>> \in Seq(PictureRows)
            OBVIOUS
        <3> QED BY <1>1, <1>6, <3>1
    <2>2. at' \in Places /\ held' \in Seq(Nat) /\ at' # <<"puts", 1>>
        BY <1>1 DEF Places
    <2> QED BY <1>1, <1>5, <2>1, <2>2 DEF LinkInv, LinkTypeOK, LineTypeOK
<1> QED BY <1>2, <1>4, <1>7, <1>8 DEF LineInv, WritePut

-----------------------------------------------------------------------------
(* The callers: what is appended goes behind all that waits.               *)

LEMMA AppendFacts ==
    ASSUME NEW q \in Seq(Nat), NEW x \in Nat, NEW n \in 0 .. Len(q)
    PROVE  /\ Append(q, x) \in Seq(Nat) /\ Len(Append(q, x)) = Len(q) + 1 /\ Append(q, x) # <<>>
           /\ SubSeq(Append(q, x), 1, n) = SubSeq(q, 1, n)
           /\ SubSeq(Append(q, x), n + 1, Len(Append(q, x))) = Append(SubSeq(q, n + 1, Len(q)), x)
<1>0. Len(q) \in Nat /\ n \in Nat /\ n <= Len(q)
    OBVIOUS
<1>1. PICK v : v = Append(q, x)
    OBVIOUS
<1>2. v \in Seq(Nat) /\ Len(v) = Len(q) + 1 /\ v # <<>> /\ v[Len(q) + 1] = x /\ \A i \in 1 .. Len(q) : v[i] = q[i]
    BY <1>1
<1>3. SubSeq(v, 1, n) = SubSeq(q, 1, n)
    BY <1>0, <1>2
<1>4. SubSeq(v, n + 1, Len(v)) = Append(SubSeq(q, n + 1, Len(q)), x)
    <2>1. PICK s : s = SubSeq(q, n + 1, Len(q))
        OBVIOUS
    <2>2. s \in Seq(Nat) /\ Len(s) = Len(q) - n /\ \A i \in 1 .. Len(q) - n : s[i] = q[i + n]
        BY <2>1, TailFacts
    <2>3. PICK u : u = SubSeq(v, n + 1, Len(v))
        OBVIOUS
    <2>4. n \in 0 .. Len(v)
        BY <1>0, <1>2
    <2>5. u \in Seq(Nat) /\ Len(u) = Len(v) - n /\ \A i \in 1 .. Len(v) - n : u[i] = v[i + n]
        BY <1>2, <2>3, <2>4, TailFacts
    <2>6. PICK w : w = Append(s, x)
        OBVIOUS
    <2>7. /\ w \in Seq(Nat) /\ Len(w) = Len(s) + 1 /\ w[Len(s) + 1] = x
          /\ \A i \in 1 .. Len(s) : w[i] = s[i]
        BY <2>2, <2>6
    <2>8. Len(u) = Len(w) /\ Len(w) \in Nat /\ Len(s) \in Nat
        BY <1>0, <1>2, <2>2, <2>5, <2>7
    <2>9. ASSUME NEW i \in 1 .. Len(w) PROVE u[i] = w[i]
        <3>1. CASE i <= Len(s)
            <4>0. /\ i \in Nat /\ 1 <= i /\ i <= Len(s) /\ Len(s) = Len(q) - n /\ Len(v) = Len(q) + 1
                  /\ Len(s) \in Nat
                BY <1>2, <2>2, <2>8, <3>1
            <4>1. i \in 1 .. Len(s) /\ i + n \in 1 .. Len(q) /\ i \in 1 .. Len(v) - n /\ i \in 1 .. Len(q) - n
                BY ONLY <1>0, <4>0
            <4> QED BY <1>2, <2>2, <2>5, <2>7, <4>1
        <3>2. CASE i = Len(s) + 1
            <4>1. i + n = Len(q) + 1 /\ i \in 1 .. Len(v) - n
                BY <1>0, <1>2, <2>2, <2>8, <3>2
            <4> QED BY <1>2, <2>5, <2>7, <3>2, <4>1
        <3> QED BY <2>7, <2>8, <3>1, <3>2
    <2>10. u = w
        BY <2>5, <2>7, <2>8, <2>9
    <2> QED BY <2>1, <2>3, <2>6, <2>10
<1> QED BY <1>1, <1>2, <1>3, <1>4

LEMMA AppendKeeps ==
    ASSUME LinkInv, NEW leaf \in {"log", "picture"}, NEW x \in Nat, AppendLine(leaf, x),
           UNCHANGED <<at, held>>
    PROVE  /\ queue' \in [leaf : {"log", "picture"}, lines : Seq(Nat)] /\ queue'.leaf = leaf
           /\ HeldInv' /\ Waiting' = Append(Waiting, x) /\ Waiting \in Seq(Nat)
           /\ queue.leaf # leaf => Waiting = <<>>
<1>1. /\ queue.lines \in Seq(Nat) /\ Waiting \in Seq(Nat)
      /\ at # <<"appends", 2>> => Waiting = queue.lines
      /\ at \in {<<"appends", 1>>, <<"appends", 2>>} =>
            held \in Seq(Nat) /\ Len(held) \in 1 .. Len(queue.lines) /\ queue.lines # <<>>
    BY TheWaiting
<1>2. PICK w \in Seq(Nat) : w = queue.lines
    BY <1>1
<1>3. PICK v : v = Append(w, x)
    OBVIOUS
<1>4. PICK q : q = [leaf |-> leaf, lines |-> v]
    OBVIOUS
<1>5. queue' = q
    BY <1>2, <1>3, <1>4 DEF AppendLine
<1>6. v \in Seq(Nat) /\ Len(v) = Len(w) + 1 /\ Len(w) \in Nat
    BY <1>3
<1>7. q \in [leaf : {"log", "picture"}, lines : Seq(Nat)] /\ q.leaf = leaf /\ q.lines = v
    BY <1>4, <1>6
<1>8. queue.leaf # leaf => queue.lines = <<>>
    BY DEF AppendLine, HasRoom, Taker
<1>9. CASE at \in {<<"appends", 1>>, <<"appends", 2>>}
    <2>1. PICK n \in 0 .. Len(w) : n = Len(held) /\ n # 0
        <3>1. Len(held) \in 1 .. Len(w)
            BY <1>1, <1>2, <1>9
        <3> QED BY <3>1
    <2>2. held = SubSeq(w, 1, n) /\ held # <<>>
        BY <1>2, <1>9, <2>1 DEF LinkInv, LineInv, HeldInv
    <2>3. SubSeq(v, 1, n) = SubSeq(w, 1, n) /\ SubSeq(v, n + 1, Len(v)) = Append(SubSeq(w, n + 1, Len(w)), x)
        BY <1>3, AppendFacts
    <2>4. n <= Len(v)
        BY <1>6
    <2>5. HeldInv'
        BY <1>5, <1>7, <2>1, <2>2, <2>3, <2>4 DEF HeldInv
    <2>6. Waiting' = Append(Waiting, x)
        <3>1. CASE at = <<"appends", 2>>
            BY <1>2, <1>5, <1>7, <2>1, <2>3, <3>1 DEF Waiting
        <3>2. CASE at # <<"appends", 2>>
            BY <1>2, <1>3, <1>5, <1>7, <3>2 DEF Waiting
        <3> QED BY <3>1, <3>2
    <2>7. queue.leaf # leaf => Waiting = <<>>
        BY <1>1, <1>8, <1>9
    <2> QED BY <1>1, <1>5, <1>7, <2>5, <2>6, <2>7
<1>10. CASE at \notin {<<"appends", 1>>, <<"appends", 2>>}
    <2>1. HeldInv'
        BY <1>10 DEF HeldInv
    <2>2. Waiting' = Append(Waiting, x)
        BY <1>2, <1>3, <1>5, <1>7, <1>10 DEF Waiting
    <2>3. queue.leaf # leaf => Waiting = <<>>
        BY <1>1, <1>8, <1>10
    <2> QED BY <1>1, <1>5, <1>7, <2>1, <2>2, <2>3
<1> QED BY <1>9, <1>10

LEMMA SayKeeps == ASSUME LinkInv, Say PROVE LineTypeOK' /\ LineInv'
<1>1. UNCHANGED <<pending, at, held, logFile, lost, shot, picture, shots, missed>>
    BY DEF Say
<1>2. CASE UNCHANGED <<queue, given>>
    BY <1>1, <1>2, LinesStand DEF lineVars
<1>3. CASE AppendLine("log", After(given)) /\ given' = After(given)
    <2>1. After(given) \in Nat /\ given \in Nat /\ logFile \in Nat
        BY LinkAssumption DEF LinkInv, LinkTypeOK, LineTypeOK, After
    <2>2. /\ queue' \in [leaf : {"log", "picture"}, lines : Seq(Nat)] /\ queue'.leaf = "log"
          /\ HeldInv' /\ Waiting' = Append(Waiting, After(given)) /\ Waiting \in Seq(Nat)
          /\ queue.leaf # "log" => Waiting = <<>>
        BY <1>1, <1>3, <2>1, AppendKeeps
    <2>3. LogWaiting = Waiting /\ LogWaiting' = Append(Waiting, After(given))
        BY <2>2 DEF LogWaiting
    <2>4. Chain(logFile, LogBehind, given)'
        <3>1. PICK q \in Seq(Nat) : q = Waiting
            BY <2>2
        <3>2. PICK l \in Seq(Nat) : l = lost /\ LogBehind = l \o q
            BY <2>3, <3>1 DEF LogBehind, LinkInv, LinkTypeOK, LineTypeOK
        <3>3. PICK x \in Nat : x = After(given)
            BY <2>1
        <3>4. l \o Append(q, x) = Append(l \o q, x) /\ l \o q \in Seq(Nat)
            BY ONLY <3>1
        <3>5. Chain(logFile, Append(l \o q, x), x)
            BY <2>1, <3>2, <3>3, <3>4, ChainAppend DEF LinkInv, LineInv
        <3>6. LogBehind' = Append(l \o q, x) /\ given' = x /\ logFile' = logFile
            BY <1>1, <1>3, <2>3, <3>1, <3>2, <3>3, <3>4 DEF LogBehind
        <3> QED BY <3>5, <3>6 DEF Chain, After
    <2>6. RowsWaiting = <<>> /\ RowsWaiting' = <<>>
        BY <2>2 DEF RowsWaiting
    <2>7. Emptier' = Emptier /\ (InHand' <=> InHand)
        BY <1>1 DEF Emptier, InHand
    <2>8. ShotInv'
        BY <1>1, <2>6, <2>7 DEF LinkInv, LineInv, ShotInv, Count
    <2>9. LineTypeOK'
        BY <1>1, <1>3, <2>1, <2>2 DEF LinkInv, LinkTypeOK, LineTypeOK, Places
    <2> QED BY <2>2, <2>4, <2>8, <2>9 DEF LineInv
<1> QED BY <1>2, <1>3 DEF Say, Posts

LEMMA ShootKeeps == ASSUME LinkInv, Shoot PROVE LineTypeOK' /\ LineInv'
<1>1. UNCHANGED <<at, held, given, logFile, lost, picture>>
    BY DEF Shoot
<1>2. Emptier' = Emptier /\ (InHand' <=> InHand)
    BY <1>1 DEF Emptier, InHand
<1>3. /\ ShotRows \in Nat /\ ShotRows # 0 /\ shots \in 0 .. MaxShots /\ MaxShots \in Nat
      /\ shot \in {"none", "emptying", "rows", "landed", "failed"} \X (0 .. ShotRows)
      /\ pending \in [{"alive", "picture"} -> BOOLEAN] /\ missed \in BOOLEAN
    BY LinkAssumption DEF LinkInv, LinkTypeOK, LineTypeOK
<1>4. ASSUME UNCHANGED queue
      PROVE  HeldInv' /\ Waiting' = Waiting /\ Chain(logFile, LogBehind, given)' /\ RowsWaiting' = RowsWaiting
    <2>1. Waiting' = Waiting /\ HeldInv'
        BY <1>1, <1>4 DEF Waiting, HeldInv, LinkInv, LineInv
    <2>2. LogWaiting' = LogWaiting /\ RowsWaiting' = RowsWaiting
        BY <1>4, <2>1 DEF LogWaiting, RowsWaiting
    <2> QED BY <1>1, <2>1, <2>2, SameChain DEF LinkInv
<1>5. CASE BeginShot
    <2>1. UNCHANGED queue /\ shot' = <<"emptying", 0>> /\ shots' = shots + 1 /\ shots < MaxShots
        BY <1>5 DEF BeginShot
    <2>2. pending' \in [{"alive", "picture"} -> BOOLEAN] /\ pending'["picture"]
        BY <1>3, <1>5, Zenon DEF BeginShot
    <2>3. missed' \in BOOLEAN /\ (~missed' => queue.leaf # "picture" \/ queue.lines = <<>>)
        BY <1>5, Zenon DEF BeginShot
    <2>4. ~missed' => RowsWaiting = <<>>
        BY <2>3, TheWaiting DEF RowsWaiting, Waiting
    <2>5. shot'[1] = "emptying"
        BY <2>1
    <2>6. ShotInv'
        BY <1>4, <2>1, <2>2, <2>4, <2>5 DEF ShotInv
    <2>7. LineTypeOK'
        BY <1>1, <1>3, <2>1, <2>2, <2>3 DEF LinkInv, LinkTypeOK, LineTypeOK, Places
    <2> QED BY <1>4, <2>1, <2>6, <2>7 DEF LineInv
<1>6. CASE Emptied
    <2>1. UNCHANGED <<queue, pending, missed, shots>> /\ shot' = <<"rows", 0>> /\ shot[1] = "emptying"
        BY <1>6 DEF Emptied
    <2>2. ~pending["picture"] /\ (queue.leaf = "picture" => queue.lines = <<>>)
        BY <1>6 DEF Emptied, Idle
    <2>3. ~missed => RowsWaiting = <<>> /\ Emptier = <<>>
        BY <2>1, <2>2 DEF LinkInv, LineInv, ShotInv
    <2>4. Count(0) = <<>> /\ <<>> \o <<>> = <<>>
        BY DEF Count
    <2>5. ShotInv'
        BY <1>2, <1>4, <2>1, <2>2, <2>3, <2>4 DEF ShotInv, Count
    <2>6. LineTypeOK'
        BY <1>1, <1>3, <2>1 DEF LinkInv, LinkTypeOK, LineTypeOK, Places
    <2> QED BY <1>4, <2>1, <2>5, <2>6 DEF LineInv
<1>7. CASE PushRow
    <2>1. PICK n \in 0 .. ShotRows : shot = <<"rows", n>> /\ shot[2] = n /\ shot[1] = "rows"
        BY <1>3, <1>7 DEF PushRow
    <2>2. /\ n < ShotRows /\ AppendLine("picture", n + 1) /\ shot' = <<"rows", n + 1>>
          /\ UNCHANGED <<pending, shots, missed>> /\ n + 1 \in 0 .. ShotRows /\ n \in Nat /\ n + 1 \in Nat
        BY <1>3, <1>7, <2>1 DEF PushRow
    <2>3. /\ queue' \in [leaf : {"log", "picture"}, lines : Seq(Nat)] /\ queue'.leaf = "picture"
          /\ HeldInv' /\ Waiting' = Append(Waiting, n + 1) /\ Waiting \in Seq(Nat)
          /\ queue.leaf # "picture" => Waiting = <<>>
        BY <1>1, <2>2, AppendKeeps
    <2>4. RowsWaiting = Waiting /\ RowsWaiting' = Append(Waiting, n + 1)
        BY <2>3 DEF RowsWaiting
    <2>5. LogWaiting = <<>> /\ LogWaiting' = <<>>
        BY <2>3, TheWaiting DEF LogWaiting
    <2>6. Chain(logFile, LogBehind, given)'
        BY <1>1, <2>5, SameChain DEF LinkInv
    <2>7. ~missed => Emptier \o Append(Waiting, n + 1) = Count(n + 1)
        <3>1. ASSUME ~missed PROVE Emptier \o Append(Waiting, n + 1) = Append(Emptier \o Waiting, n + 1)
            <4>0. <<>> \in Seq(PictureRows) /\ picture \in Seq(PictureRows)
                BY DEF LinkInv, LinkTypeOK, LineTypeOK
            <4>1. PICK e \in Seq(PictureRows) : e = Emptier
                BY <4>0 DEF Emptier
            <4>2. PICK w \in Seq(Nat) : w = Waiting
                BY <2>3
            <4>3. e \o Append(w, n + 1) = Append(e \o w, n + 1)
                BY ONLY <2>2, AppendLater
            <4> QED BY ONLY <4>1, <4>2, <4>3
        <3>2. ~missed => Emptier \o Waiting = Count(n)
            BY <2>1, <2>4 DEF LinkInv, LineInv, ShotInv
        <3>3. Append(Count(n), n + 1) = Count(n + 1)
            BY <2>2, CountGrows
        <3> QED BY ONLY <3>1, <3>2, <3>3
    <2>8. ShotInv'
        BY <1>2, <2>1, <2>2, <2>4, <2>7 DEF LinkInv, LineInv, ShotInv, Count
    <2>9. LineTypeOK'
        BY <1>1, <1>3, <2>2, <2>3 DEF LinkInv, LinkTypeOK, LineTypeOK, Places
    <2> QED BY <2>3, <2>6, <2>8, <2>9 DEF LineInv
<1>8. CASE RowsLand
    <2>1. UNCHANGED <<queue, pending, missed, shots>> /\ shot' = <<"landed", ShotRows>> /\ shot = <<"rows", ShotRows>>
        BY <1>8 DEF RowsLand
    <2>2. ~pending["picture"] /\ (queue.leaf = "picture" => queue.lines = <<>>)
        BY <1>8 DEF RowsLand, Idle
    <2>3. RowsWaiting = <<>>
        BY <2>2, TheWaiting DEF RowsWaiting, Waiting
    <2>4. ~missed => Emptier \o <<>> = Count(ShotRows)
        BY <2>1, <2>3 DEF LinkInv, LineInv, ShotInv
    <2>5. Emptier \in Seq(PictureRows) /\ Emptier \o <<>> = Emptier
        <3>1. Emptier \in Seq(PictureRows)
            BY DEF Emptier, LinkInv, LinkTypeOK, LineTypeOK
        <3> QED BY ONLY <3>1, ConcatEmptySeq
    <2>6. Count(ShotRows) # <<>>
        <3>1. Len(Count(ShotRows)) = ShotRows
            BY <1>3 DEF Count
        <3> QED BY <1>3, <3>1
    <2>7. ~missed => ~InHand /\ picture = Count(ShotRows)
        BY <2>4, <2>5, <2>6 DEF Emptier
    <2>8. ShotInv'
        BY <1>1, <1>2, <1>4, <2>1, <2>2, <2>3, <2>7 DEF ShotInv, Count
    <2>9. LineTypeOK'
        BY <1>1, <1>3, <2>1 DEF LinkInv, LinkTypeOK, LineTypeOK, Places
    <2> QED BY <1>4, <2>1, <2>8, <2>9 DEF LineInv
<1>9. CASE ShotFails
    <2>1. UNCHANGED <<queue, pending, missed, shots>> /\ shot' = <<"failed", 0>>
        BY <1>9 DEF ShotFails
    <2>2. ShotInv'
        BY <2>1 DEF ShotInv
    <2>3. LineTypeOK'
        BY <1>1, <1>3, <2>1 DEF LinkInv, LinkTypeOK, LineTypeOK, Places
    <2> QED BY <1>4, <2>1, <2>2, <2>3 DEF LineInv
<1> QED BY <1>5, <1>6, <1>7, <1>8, <1>9 DEF Shoot

-----------------------------------------------------------------------------
(* Every step, and what the lines and the rows come to.                    *)

LEMMA LinkStep == LinkInv /\ [LinkNext]_linkVars => LinkInv'
<1> SUFFICES ASSUME LinkInv, [LinkNext]_linkVars PROVE LinkInv'
    OBVIOUS
<1>1. /\ StandbyInv /\ paused \in BOOLEAN /\ cable \in BOOLEAN
      /\ writeOk \in {"untried", "yes", "no"}
    BY DEF LinkInv, LinkTypeOK
<1>2. ASSUME [StandbyNext]_standbyVars PROVE StandbyInv' /\ StandbyTypeOK'
    BY <1>1, <1>2, StandbyStep DEF StandbyInv
<1>3. CASE Thread
    <2>1. UNCHANGED standbyVars /\ UNCHANGED <<paused, cable>>
        BY <1>3 DEF Thread
    <2>2. LineTypeOK' /\ LineInv'
        BY <1>3, CopyKeeps, WriteKeeps, RemoveKeeps, TakePutKeeps, WritePutKeeps DEF Thread
    <2>3. writeOk' \in {"untried", "yes", "no"}
        <3>1. CASE CopyLines \/ RemoveLines \/ TakePut
            BY <1>1, <3>1 DEF CopyLines, RemoveLines, TakePut
        <3>2. CASE WriteLines \/ WritePut
            BY <3>2, WriteKeeps, WritePutKeeps
        <3> QED BY <1>3, <3>1, <3>2 DEF Thread
    <2> QED BY <1>1, <1>2, <2>1, <2>2, <2>3 DEF LinkInv, LinkTypeOK
<1>4. CASE Shoot
    <2>1. UNCHANGED standbyVars /\ UNCHANGED <<paused, writeOk, cable>>
        BY <1>4 DEF Shoot
    <2> QED BY <1>1, <1>2, <1>4, <2>1, ShootKeeps DEF LinkInv, LinkTypeOK
<1>5. CASE Say
    <2>1. UNCHANGED standbyVars /\ UNCHANGED <<paused, writeOk, cable>>
        BY <1>5 DEF Say
    <2> QED BY <1>1, <1>2, <1>5, <2>1, SayKeeps DEF LinkInv, LinkTypeOK
<1>6. CASE Release
    <2>1. /\ StandbyNext /\ paused' \in BOOLEAN /\ writeOk' = "untried"
          /\ UNCHANGED lineVars /\ UNCHANGED cable
        BY <1>6, Zenon DEF Release, StandbyNext
    <2> QED BY <1>1, <1>2, <2>1, LinesStand DEF LinkInv, LinkTypeOK
<1>7. CASE Reacquire
    <2>1. /\ Restore(Verified) /\ Verified \in BOOLEAN
          /\ UNCHANGED <<queue, at, held, given, logFile, lost, shot, picture, shots, missed, writeOk, cable>>
        BY <1>7, Zenon DEF Reacquire, Verified
    <2>2. StandbyNext
        BY <2>1, Zenon DEF StandbyNext
    <2>3. paused' \in BOOLEAN
        BY <1>1, <1>7, Zenon DEF Reacquire
    <2>4. pending' \in [{"alive", "picture"} -> BOOLEAN] /\ pending'["picture"] = pending["picture"]
        <3>1. pending \in [{"alive", "picture"} -> BOOLEAN]
            BY DEF LinkInv, LinkTypeOK, LineTypeOK
        <3>2. CASE acquired
            BY <1>7, <3>1, <3>2 DEF Reacquire
        <3>3. CASE ~acquired
            <4>1. pending' = [pending EXCEPT !["alive"] = TRUE]
                BY <1>7, <3>3 DEF Reacquire
            <4>2. pending' \in [{"alive", "picture"} -> BOOLEAN]
                BY <3>1, <4>1, Zenon
            <4>3. pending'["picture"] = pending["picture"]
                BY <3>1, <4>1
            <4> QED BY <4>2, <4>3
        <3> QED BY <3>2, <3>3
    <2>5. Waiting' = Waiting /\ HeldInv' /\ Emptier' = Emptier /\ (InHand' <=> InHand)
        BY <2>1 DEF Waiting, LinkInv, LineInv, HeldInv, Emptier, InHand
    <2>6. Chain(logFile, LogBehind, given)' /\ ShotInv'
        BY <2>1, <2>4, <2>5, SameLines DEF LinkInv
    <2>7. LineTypeOK'
        BY <2>1, <2>4 DEF LinkInv, LinkTypeOK, LineTypeOK, Places
    <2> QED BY <1>1, <1>2, <2>1, <2>2, <2>3, <2>5, <2>6, <2>7 DEF LinkInv, LinkTypeOK, LineInv
<1>8. CASE (TakeGoing \/ StayDown \/ StayUp) /\ UNCHANGED <<lineVars, paused, writeOk, cable>>
    <2>1. StandbyNext
        BY <1>8 DEF StandbyNext
    <2> QED BY <1>1, <1>2, <1>8, <2>1, LinesStand DEF LinkInv, LinkTypeOK
<1>9. CASE Machine
    <2>1. /\ NoteGoing \/ FallAsleep \/ NoteBack
          /\ UNCHANGED <<lineVars, paused, writeOk>>
        BY <1>9 DEF Machine, Moves
    <2>2. cable' \in BOOLEAN
        BY <1>1, <1>9, Zenon DEF Machine, Moves
    <2>3. StandbyNext
        BY <2>1 DEF StandbyNext
    <2> QED BY <1>1, <1>2, <2>1, <2>2, <2>3, LinesStand DEF LinkInv, LinkTypeOK
<1>10. CASE CableBack
    <2>1. cable' \in BOOLEAN /\ UNCHANGED <<standbyVars, lineVars, paused, writeOk>>
        BY <1>10, Zenon DEF CableBack
    <2> QED BY <1>1, <1>2, <2>1, LinesStand DEF LinkInv, LinkTypeOK
<1>11. CASE UNCHANGED linkVars
    BY <1>1, <1>2, <1>11, LinesStand DEF linkVars, LinkInv, LinkTypeOK
<1>12. Look => Release \/ Reacquire
               \/ ((TakeGoing \/ StayDown \/ StayUp) /\ UNCHANGED <<lineVars, paused, writeOk, cable>>)
    BY DEF Look
<1> QED BY <1>3, <1>4, <1>5, <1>6, <1>7, <1>8, <1>9, <1>10, <1>11, <1>12 DEF LinkNext

LEMMA LinesAndShots == LinkInv => LinesInOrder /\ ShotIsWhole
<1> SUFFICES ASSUME LinkInv PROVE LinesInOrder /\ ShotIsWhole
    OBVIOUS
<1>1. LinesInOrder
    <2>1. PICK w : w = lost \o (IF queue.leaf = "log" THEN Waiting ELSE <<>>)
        OBVIOUS
    <2>2. Chain(logFile, w, given)
        BY <2>1 DEF LinkInv, LineInv, LogBehind, LogWaiting
    <2> QED BY <2>1, <2>2 DEF Chain, LinesInOrder
<1>2. ShotIsWhole
    BY DEF LinkInv, LineInv, ShotInv, ShotIsWhole, Count
<1> QED BY <1>1, <1>2

\* The queue, the puts, the lines in the thread's hands, the screenshot and the
\* settings of the cable keep their shapes.
THEOREM LinkTypeCorrect == LinkSpec => []LinkTypeOK
<1>1. LinkInv => LinkTypeOK
    BY DEF LinkInv
<1> QED BY LinkBegins, LinkStep, <1>1, PTL DEF LinkSpec

\* With the cable's thread and its callers about, a sleep is counted too.
THEOREM LinkSleepsAreCounted == LinkSpec => []SleepsAreCounted
<1>1. LinkInv => SleepsAreCounted
    BY DEF LinkInv, StandbyInv, Uncounted, StandbyTypeOK, SleepsAreCounted
<1> QED BY LinkBegins, LinkStep, <1>1, PTL DEF LinkSpec

\* What goes over the cable is on the other side as it was handed over, but for
\* what a write takes that breaks after its open: of any log, any screenshots, any
\* readers with any gave-up-on reads, any script, any opens and writes that fail.
THEOREM CableStaysTrue == LinkSpec /\ SlurpSpec /\ RemoteSpec => []CableIsTrue
<1>1. LinkInv /\ SlurpInv /\ RemoteInv => CableIsTrue
    BY LinesAndShots DEF CableIsTrue, SlurpInv, RemoteInv, CommandsAreTheScripts
<1> QED BY LinkBegins, LinkStep, SlurpBegins, SlurpStep, RemoteBegins, RemoteStep, <1>1, PTL
        DEF LinkSpec, SlurpSpec, RemoteSpec

-----------------------------------------------------------------------------
(* The log on the card. The buffer holds lines in their order, and of what *)
(* was taken it holds all from its first line on and all past the file's   *)
(* last; so what a write puts behind the file leaves nothing out, broken   *)
(* or whole, made once or twice.                                           *)

Grows(q) == \A i, j \in 1 .. Len(q) : i < j => q[i] < q[j]

\* Line after line of a file: the next that was taken, or an earlier one.
Follows(f, lines) ==
    \A i \in 1 .. Len(f) - 1 : f[i + 1] <= f[i] \/ ~\E l \in lines : f[i] < l /\ l < f[i + 1]

LogTypeOK ==
    /\ card \in Seq(Nat) /\ copy \in Seq(Nat) /\ cardFile \in Seq(Nat) /\ cardSize \in Nat
    /\ writer \in {"idle", "writing", "removing", "ended"}
    /\ writerOn \in BOOLEAN /\ opened \in BOOLEAN /\ toCard \in BOOLEAN
    /\ mark \in {"out", "waiting", "returned", "late"} \X Nat
    /\ said \in Nat /\ taken \subseteq Nat /\ wiped \subseteq Nat /\ breaks \in Nat

\* What is said is numbered, and no later line is anywhere.
NumbersInv ==
    /\ Grows(card)
    /\ \A i \in 1 .. Len(card) : card[i] <= said
    /\ \A i \in 1 .. Len(cardFile) : cardFile[i] <= said
    /\ \A l \in taken : l <= said
    /\ mark[2] <= said

BufferInv ==
    /\ card # <<>> => \A l \in taken : l >= card[1] => l \in Range(card)
    /\ cardFile # <<>> => \A l \in taken : l > cardFile[Len(cardFile)] => l \in Range(card)

CopyInv ==
    /\ writer \in {"writing", "removing"} =>
          copy # <<>> /\ Len(copy) <= Len(card) /\ \A i \in 1 .. Len(copy) : copy[i] = card[i]
    /\ writer = "removing" =>
          /\ Range(copy) \subseteq OnCard
          /\ cardFile # <<>> /\ cardFile[Len(cardFile)] = copy[Len(copy)]

ReachInv ==
    /\ taken \subseteq Range(card) \cup OnCard
    /\ mark[1] = "returned" => mark[2] \in OnCard \/ mark[2] \notin taken
    /\ Follows(cardFile, taken)

LogInv == LogTypeOK /\ NumbersInv /\ BufferInv /\ CopyInv /\ ReachInv

LEMMA InRange == ASSUME NEW S, NEW q \in Seq(S), NEW x
                 PROVE  x \in Range(q) <=> \E i \in 1 .. Len(q) : q[i] = x
BY DEF Range

LEMMA RangeJoins ==
    ASSUME NEW a \in Seq(Nat), NEW b \in Seq(Nat)
    PROVE  Range(a \o b) = Range(a) \cup Range(b)
<1>1. /\ a \o b \in Seq(Nat) /\ Len(a \o b) = Len(a) + Len(b)
      /\ \A i \in 1 .. Len(a) + Len(b) : (a \o b)[i] = IF i <= Len(a) THEN a[i] ELSE b[i - Len(a)]
    BY ConcatProperties
<1>2. PICK v : v = a \o b
    OBVIOUS
<1>0. Len(a) \in Nat /\ Len(b) \in Nat
    OBVIOUS
<1>3. ASSUME NEW x \in Range(v) PROVE x \in Range(a) \cup Range(b)
    <2>1. PICK i \in 1 .. Len(v) : v[i] = x
        BY <1>1, <1>2, InRange
    <2>2. CASE i <= Len(a)
        <3>1. i \in 1 .. Len(a) /\ a[i] = x
            BY <1>1, <1>2, <2>1, <2>2
        <3> QED BY <3>1, InRange
    <2>3. CASE i > Len(a)
        <3>1. i - Len(a) \in 1 .. Len(b) /\ b[i - Len(a)] = x
            BY <1>0, <1>1, <1>2, <2>1, <2>3
        <3> QED BY <3>1, InRange
    <2> QED BY <1>0, <2>2, <2>3
<1>4. ASSUME NEW x \in Range(a) PROVE x \in Range(v)
    <2>1. PICK i \in 1 .. Len(a) : a[i] = x
        BY InRange
    <2>2. i \in 1 .. Len(v) /\ v[i] = x
        BY <1>0, <1>1, <1>2, <2>1
    <2> QED BY <1>1, <1>2, <2>2, InRange
<1>5. ASSUME NEW x \in Range(b) PROVE x \in Range(v)
    <2>1. PICK i \in 1 .. Len(b) : b[i] = x
        BY InRange
    <2>2. i + Len(a) \in 1 .. Len(v) /\ v[i + Len(a)] = x
        <3>1. i \in Nat /\ i >= 1 /\ i <= Len(b)
            OBVIOUS
        <3>2. i + Len(a) \in 1 .. Len(a) + Len(b) /\ ~(i + Len(a) <= Len(a)) /\ i + Len(a) - Len(a) = i
            BY ONLY <1>0, <3>1
        <3> QED BY <1>1, <1>2, <2>1, <3>2
    <2> QED BY <1>1, <1>2, <2>2, InRange
<1> QED BY <1>2, <1>3, <1>4, <1>5

\* What a write leaves, of the file or a new one and the copy's first lines.
LEMMA FileFollows ==
    ASSUME LogInv, NEW b \in Seq(Nat), b = <<>> \/ b = cardFile,
           NEW p \in Seq(Nat), Len(p) <= Len(card), \A i \in 1 .. Len(p) : p[i] = card[i]
    PROVE  /\ b \o p \in Seq(Nat) /\ Follows(b \o p, taken)
           /\ \A i \in 1 .. Len(b \o p) : (b \o p)[i] <= said
           /\ b \o p # <<>> => \A l \in taken : l > (b \o p)[Len(b \o p)] => l \in Range(card)
           /\ p # <<>> => b \o p # <<>> /\ (b \o p)[Len(b \o p)] = p[Len(p)]
<1>1. PICK f : f = b \o p
    OBVIOUS
<1>2. /\ f \in Seq(Nat) /\ Len(f) = Len(b) + Len(p)
      /\ \A i \in 1 .. Len(b) + Len(p) : f[i] = IF i <= Len(b) THEN b[i] ELSE p[i - Len(b)]
    BY <1>1, ConcatProperties
<1>3. Len(b) \in Nat /\ Len(p) \in Nat /\ Len(card) \in Nat /\ card \in Seq(Nat) /\ said \in Nat /\ taken \subseteq Nat
    BY DEF LogInv, LogTypeOK
<1>0. \A i \in 1 .. Len(card) : card[i] \in Nat
    BY <1>3
<1>4. \A i \in 1 .. Len(b) : f[i] = b[i]
    BY <1>2, <1>3
<1>5. ASSUME NEW i \in 1 .. Len(p) PROVE i + Len(b) \in 1 .. Len(f) /\ f[i + Len(b)] = card[i] /\ i \in 1 .. Len(card)
    <2>1. i \in Nat /\ i >= 1 /\ i <= Len(p)
        OBVIOUS
    <2>2. i + Len(b) \in 1 .. Len(b) + Len(p) /\ ~(i + Len(b) <= Len(b)) /\ i + Len(b) - Len(b) = i
        BY ONLY <1>3, <2>1
    <2>3. i \in 1 .. Len(card) /\ i + Len(b) \in 1 .. Len(f)
        BY <1>2, <1>3, <2>1, <2>2
    <2>4. f[i + Len(b)] = p[i]
        BY ONLY <1>2, <2>2, SMTT(60)
    <2> QED BY <2>3, <2>4
<1>6. ASSUME NEW i \in 1 .. Len(f), ~(i \in 1 .. Len(b)) PROVE \E j \in 1 .. Len(p) : i = j + Len(b)
    <2>1. i \in Nat /\ i >= 1 /\ i <= Len(b) + Len(p) /\ i > Len(b)
        BY <1>2, <1>3, <1>6
    <2>2. i - Len(b) \in 1 .. Len(p) /\ i = (i - Len(b)) + Len(b)
        BY ONLY <1>3, <2>1
    <2> QED BY <2>2
<1>7. \A i \in 1 .. Len(f) : f[i] <= said
    <2> TAKE i \in 1 .. Len(f)
    <2>1. CASE i \in 1 .. Len(b)
        BY <1>4, <2>1, SMTT(60) DEF LogInv, NumbersInv
    <2>2. CASE ~(i \in 1 .. Len(b))
        <3>1. PICK j \in 1 .. Len(p) : i = j + Len(b)
            BY <1>6, <2>2
        <3> QED BY <1>5, <3>1 DEF LogInv, NumbersInv
    <2> QED BY <2>1, <2>2
<1>8. ASSUME NEW l \in taken, NEW j \in 1 .. Len(card), l >= card[j]
      PROVE  \E k \in j .. Len(card) : card[k] = l
    <2>1. 1 \in 1 .. Len(card) /\ card # <<>> /\ j \in Nat /\ l \in Nat /\ card[1] \in Nat /\ card[j] \in Nat
        BY <1>3, SMTT(60)
    <2>2. card[1] <= card[j]
        BY <2>1, SMTT(60) DEF LogInv, NumbersInv, Grows
    <2>3. l \in Range(card)
        BY <1>8, <2>1, <2>2 DEF LogInv, BufferInv
    <2>4. PICK k \in 1 .. Len(card) : card[k] = l
        BY <1>3, <2>3, InRange
    <2>5. ~(k < j)
        <3>1. SUFFICES ASSUME k < j PROVE FALSE
            OBVIOUS
        <3>2. card[k] < card[j]
            BY <3>1 DEF LogInv, NumbersInv, Grows
        <3> QED BY <1>8, <2>1, <2>4, <3>2
    <2> QED BY <2>1, <2>4, <2>5
<1>9. p # <<>> => Len(p) \in 1 .. Len(p) /\ f # <<>> /\ f[Len(f)] = p[Len(p)] /\ p[Len(p)] = card[Len(p)]
    <2>1. SUFFICES ASSUME p # <<>>
                   PROVE  Len(p) \in 1 .. Len(p) /\ f # <<>> /\ f[Len(f)] = p[Len(p)] /\ p[Len(p)] = card[Len(p)]
        OBVIOUS
    <2>2. Len(p) \in 1 .. Len(p) /\ Len(p) + Len(b) = Len(f)
        BY <1>2, <1>3, <2>1
    <2>3. f # <<>> /\ p[Len(p)] = card[Len(p)]
        BY <1>2, <1>3, <2>1, <2>2
    <2>4. f[Len(p) + Len(b)] = card[Len(p)]
        BY <1>5, <2>2
    <2> QED BY <2>2, <2>3, <2>4
<1>10. f # <<>> => \A l \in taken : l > f[Len(f)] => l \in Range(card)
    <2>1. CASE p # <<>>
        <3>1. SUFFICES ASSUME NEW l \in taken, l > f[Len(f)] PROVE l \in Range(card)
            OBVIOUS
        <3>2. Len(p) \in 1 .. Len(card) /\ l >= card[Len(p)]
            BY <1>3, <1>5, <1>9, <2>1, <3>1
        <3>3. PICK k \in Len(p) .. Len(card) : card[k] = l
            BY <1>8, <3>2
        <3>4. k \in 1 .. Len(card)
            BY <1>3, <3>2
        <3> QED BY <1>3, <3>3, <3>4, InRange
    <2>2. CASE p = <<>>
        <3>1. f = b
            BY <1>1, <2>2, ConcatEmptySeq
        <3> QED BY <3>1 DEF LogInv, BufferInv
    <2> QED BY <2>1, <2>2
<1>11. Follows(f, taken)
    <2> SUFFICES ASSUME NEW i \in 1 .. Len(f) - 1, NEW l \in taken, f[i] < l, l < f[i + 1] PROVE f[i + 1] <= f[i]
        BY DEF Follows
    <2>0. i \in Nat /\ i >= 1 /\ i + 1 \in 1 .. Len(f) /\ i \in 1 .. Len(f) /\ l \in Nat
        BY <1>2, <1>3
    <2>1. CASE i + 1 \in 1 .. Len(b)
        <3>1. i \in 1 .. Len(b) - 1 /\ i \in 1 .. Len(b)
            BY <1>3, <2>0, <2>1, SMTT(60)
        <3>2. b = cardFile
            BY <2>1
        <3>3. f[i] = b[i] /\ f[i + 1] = b[i + 1]
            BY <1>4, <2>1, <3>1
        <3> QED BY <3>1, <3>2, <3>3 DEF LogInv, ReachInv, Follows
    <2>2. CASE ~(i + 1 \in 1 .. Len(b))
        <3>1. PICK j \in 1 .. Len(p) : i + 1 = j + Len(b)
            BY <1>6, <2>0, <2>2
        <3>2. f[i + 1] = card[j] /\ j \in 1 .. Len(card)
            BY <1>5, <3>1
        <3>3. CASE j = 1
            <4>1. i = Len(b) /\ i \in 1 .. Len(b) /\ b # <<>> /\ b = cardFile
                BY <1>3, <2>0, <3>1, <3>3
            <4>2. l \in Range(card)
                BY <1>4, <4>1 DEF LogInv, BufferInv
            <4>3. PICK k \in 1 .. Len(card) : card[k] = l
                BY <1>3, <4>2, InRange
            <4>4. 1 < k => card[1] < card[k]
                BY <3>2, <3>3, <4>3 DEF LogInv, NumbersInv, Grows
            <4>5. card[1] \in Nat /\ card[k] \in Nat /\ (k = 1 \/ 1 < k)
                BY <1>0, <3>2, <3>3, <4>3
            <4> QED BY <2>0, <3>2, <3>3, <4>3, <4>4, <4>5
        <3>4. CASE j # 1
            <4>1. j - 1 \in 1 .. Len(p) /\ i = (j - 1) + Len(b)
                <5>1. j \in Nat /\ j >= 1 /\ j <= Len(p)
                    BY <1>3
                <5> QED BY ONLY <1>3, <2>0, <3>1, <3>4, <5>1
            <4>2. f[i] = card[j - 1] /\ j - 1 \in 1 .. Len(card)
                BY <1>5, <4>1
            <4>3. l >= card[j - 1]
                <5>1. card[j - 1] \in Nat
                    BY <1>0, <4>2
                <5> QED BY <2>0, <4>2, <5>1, SMTT(60)
            <4>4. PICK k \in j - 1 .. Len(card) : card[k] = l
                BY <1>8, <4>2, <4>3
            <4>5. k \in 1 .. Len(card) /\ (k = j - 1 \/ k = j \/ j < k)
                BY <1>3, <4>2, <4>4
            <4>6. j < k => card[j] < card[k]
                BY <3>2, <4>5 DEF LogInv, NumbersInv, Grows
            <4>7. card[j] \in Nat /\ card[k] \in Nat
                BY <1>0, <3>2, <4>5
            <4> QED BY <2>0, <3>2, <4>2, <4>4, <4>5, <4>6, <4>7, SMTT(60)
        <3> QED BY <3>3, <3>4
    <2> QED BY <2>1, <2>2
<1> QED BY <1>1, <1>2, <1>7, <1>9, <1>10, <1>11

LEMMA LogBegins == LogInit => LogInv
<1> SUFFICES ASSUME LogInit PROVE LogInv
    OBVIOUS
<1>1. /\ card = <<0>> /\ copy = <<>> /\ cardFile = <<>> /\ cardSize = 0 /\ writer = "idle"
      /\ toCard \in BOOLEAN /\ mark = <<"out", 0>> /\ said = 0 /\ taken = {0} /\ wiped = {}
      /\ breaks = 0
    BY DEF LogInit
<1>2. writerOn \in BOOLEAN /\ opened \in BOOLEAN
    BY Zenon DEF LogInit
<1>3. LogTypeOK
    BY <1>1, <1>2 DEF LogTypeOK
<1>4. 0 \in Range(card)
    BY <1>1 DEF Range
<1> QED BY <1>1, <1>3, <1>4 DEF LogInv, NumbersInv, BufferInv, CopyInv, ReachInv, Grows, Follows

\* A line said: the buffer takes it behind the others, or drops it.
LEMMA EmitKeeps ==
    ASSUME LogInv, NEW forced \in BOOLEAN, Emit(forced),
           UNCHANGED <<copy, cardFile, writer, wiped>>
    PROVE  /\ card' \in Seq(Nat) /\ said' \in Nat /\ taken' \subseteq Nat /\ said' = said + 1
           /\ taken' \subseteq taken \cup {said + 1} /\ taken \subseteq taken'
           /\ Grows(card') /\ \A i \in 1 .. Len(card') : card'[i] <= said'
           /\ \A i \in 1 .. Len(cardFile') : cardFile'[i] <= said'
           /\ \A l \in taken' : l <= said'
           /\ BufferInv' /\ CopyInv' /\ OnCard' = OnCard
           /\ taken' \subseteq Range(card)' \cup OnCard' /\ Follows(cardFile, taken)'
<1>1. /\ card \in Seq(Nat) /\ said \in Nat /\ taken \subseteq Nat /\ cardFile \in Seq(Nat) /\ copy \in Seq(Nat)
      /\ Len(card) \in Nat /\ Len(cardFile) \in Nat /\ Len(copy) \in Nat
    BY DEF LogInv, LogTypeOK
<1>2. /\ \A i \in 1 .. Len(card) : card[i] \in Nat /\ card[i] <= said
      /\ \A i \in 1 .. Len(cardFile) : cardFile[i] \in Nat /\ cardFile[i] <= said
      /\ \A l \in taken : l \in Nat /\ l <= said
    BY <1>1, SMTT(60) DEF LogInv, NumbersInv
<1>3. said' = said + 1 /\ said' \in Nat /\ OnCard' = OnCard
    BY <1>1 DEF Emit, OnCard
<1>4. CASE UNCHANGED <<card, taken>>
    <2>1. Grows(card') /\ \A i \in 1 .. Len(card') : card'[i] <= said'
        BY <1>1, <1>2, <1>3, <1>4 DEF LogInv, NumbersInv, Grows
    <2>2. BufferInv' /\ CopyInv'
        BY <1>3, <1>4 DEF LogInv, BufferInv, CopyInv
    <2>3. \A i \in 1 .. Len(cardFile') : cardFile'[i] <= said'
        BY <1>1, <1>2, <1>3
    <2>4. \A l \in taken' : l <= said'
        BY <1>1, <1>2, <1>3, <1>4
    <2>5. taken' \subseteq Range(card)' \cup OnCard' /\ Follows(cardFile, taken)'
        BY <1>3, <1>4 DEF LogInv, ReachInv, Follows
    <2> QED BY <1>1, <1>3, <1>4, <2>1, <2>2, <2>3, <2>4, <2>5
<1>5. CASE card' = Append(card, said') /\ taken' = taken \cup {said'}
    <2>1. PICK v : v = Append(card, said + 1)
        OBVIOUS
    <2>2. card' = v /\ taken' = taken \cup {said + 1}
        BY <1>3, <1>5, <2>1
    <2>3. /\ v \in Seq(Nat) /\ Len(v) = Len(card) + 1 /\ v # <<>> /\ v[Len(card) + 1] = said + 1
          /\ \A i \in 1 .. Len(card) : v[i] = card[i]
        <3>1. PICK x \in Nat : x = said + 1
            BY <1>1
        <3>2. /\ Append(card, x) \in Seq(Nat) /\ Len(Append(card, x)) = Len(card) + 1
              /\ Append(card, x)[Len(card) + 1] = x
              /\ \A i \in 1 .. Len(card) : Append(card, x)[i] = card[i]
            BY <1>1
        <3>3. Append(card, x) # <<>>
            BY <1>1, <3>2
        <3> QED BY <2>1, <3>1, <3>2, <3>3
    <2>4. \A i \in 1 .. Len(v) : i \in 1 .. Len(card) \/ i = Len(card) + 1
        BY <1>1, <2>3
    <2>5. Grows(v)
        <3> SUFFICES ASSUME NEW i \in 1 .. Len(v), NEW j \in 1 .. Len(v), i < j PROVE v[i] < v[j]
            BY DEF Grows
        <3>1. i \in 1 .. Len(card)
            BY <1>1, <2>3
        <3>2. CASE j \in 1 .. Len(card)
            BY <2>3, <3>1, <3>2 DEF LogInv, NumbersInv, Grows
        <3>3. CASE j = Len(card) + 1
            <4>1. v[i] \in Nat /\ v[i] <= said /\ v[j] = said + 1
                BY <1>1, <1>2, <2>3, <3>1, <3>3
            <4> QED BY <1>1, <4>1
        <3> QED BY <2>4, <3>2, <3>3
    <2>6. \A i \in 1 .. Len(v) : v[i] <= said + 1
        <3> TAKE i \in 1 .. Len(v)
        <3>1. CASE i \in 1 .. Len(card)
            <4>1. v[i] = card[i] /\ card[i] \in Nat /\ card[i] <= said
                BY <1>2, <2>3, <3>1
            <4> QED BY <1>1, <4>1
        <3>2. CASE i = Len(card) + 1
            BY <1>1, <2>3, <3>2
        <3> QED BY <2>4, <3>1, <3>2
    <2>7. /\ \A i \in 1 .. Len(cardFile') : cardFile'[i] <= said'
          /\ \A l \in taken' : l <= said'
        BY <1>1, <1>2, <1>3, <2>2
    <2>8. Range(card) \subseteq Range(v) /\ said + 1 \in Range(v)
        <3>1. \A x \in Range(card) : \E i \in 1 .. Len(card) : card[i] = x
            BY <1>1, InRange
        <3>2. \A i \in 1 .. Len(card) : i \in 1 .. Len(v) /\ v[i] = card[i]
            BY <1>1, <2>3
        <3>3. Len(card) + 1 \in 1 .. Len(v)
            BY <1>1, <2>3
        <3> QED BY <2>3, <3>1, <3>2, <3>3, InRange
    <2>9. BufferInv'
        <3>1. ASSUME NEW l \in taken, l >= v[1] PROVE l \in Range(v)
            <4>1. CASE card = <<>>
                <5>1. v[1] = said + 1
                    BY <1>1, <2>3, <4>1
                <5> QED BY <1>1, <1>2, <3>1, <5>1
            <4>2. CASE card # <<>>
                <5>1. v[1] = card[1]
                    BY <1>1, <2>3, <4>2
                <5> QED BY <2>8, <3>1, <4>2, <5>1 DEF LogInv, BufferInv
            <4> QED BY <4>1, <4>2
        <3>2. ASSUME cardFile # <<>>, NEW l \in taken, l > cardFile[Len(cardFile)] PROVE l \in Range(v)
            BY <2>8, <3>2 DEF LogInv, BufferInv
        <3> QED BY <2>2, <2>8, <3>1, <3>2 DEF BufferInv
    <2>10. CopyInv'
        <3>1. ASSUME writer \in {"writing", "removing"}
              PROVE  copy # <<>> /\ Len(copy) <= Len(v) /\ \A i \in 1 .. Len(copy) : copy[i] = v[i]
            <4>1. copy # <<>> /\ Len(copy) <= Len(card) /\ \A i \in 1 .. Len(copy) : copy[i] = card[i]
                BY <3>1 DEF LogInv, CopyInv
            <4>2. \A i \in 1 .. Len(copy) : i \in 1 .. Len(card)
                BY <1>1, <4>1
            <4> QED BY <1>1, <2>3, <4>1, <4>2
        <3> QED BY <1>3, <2>2, <3>1 DEF LogInv, CopyInv
    <2>11. taken' \subseteq Range(card)' \cup OnCard'
        BY <1>3, <2>2, <2>8 DEF LogInv, ReachInv
    <2>12. Follows(cardFile, taken)'
        <3> SUFFICES ASSUME NEW i \in 1 .. Len(cardFile) - 1, NEW l \in taken \cup {said + 1},
                            cardFile[i] < l, l < cardFile[i + 1]
                     PROVE  cardFile[i + 1] <= cardFile[i]
            BY <2>2 DEF Follows
        <3>1. i + 1 \in 1 .. Len(cardFile)
            BY <1>1
        <3>2. cardFile[i + 1] \in Nat /\ cardFile[i + 1] <= said
            BY <1>2, <3>1
        <3>3. l \in taken
            BY <1>1, <3>2
        <3> QED BY <3>3 DEF LogInv, ReachInv, Follows
    <2> QED BY <1>1, <1>3, <2>2, <2>3, <2>5, <2>6, <2>7, <2>9, <2>10, <2>11, <2>12
<1> QED BY <1>4, <1>5 DEF Emit

LEMMA LogStep == LogInv /\ [LogNext]_logVars => LogInv'
<1> SUFFICES ASSUME LogInv, [LogNext]_logVars PROVE LogInv'
    OBVIOUS
<1>1. /\ card \in Seq(Nat) /\ copy \in Seq(Nat) /\ cardFile \in Seq(Nat) /\ cardSize \in Nat
      /\ writer \in {"idle", "writing", "removing", "ended"}
      /\ writerOn \in BOOLEAN /\ opened \in BOOLEAN /\ toCard \in BOOLEAN
      /\ mark \in {"out", "waiting", "returned", "late"} \X Nat
      /\ said \in Nat /\ taken \subseteq Nat /\ wiped \subseteq Nat /\ breaks \in Nat
      /\ Len(card) \in Nat /\ Len(copy) \in Nat /\ Len(cardFile) \in Nat
    BY DEF LogInv, LogTypeOK
<1>2. ASSUME UNCHANGED <<card, cardFile, wiped, said, taken>>
      PROVE  /\ BufferInv' /\ OnCard' = OnCard
             /\ Grows(card)' /\ Follows(cardFile, taken)' /\ (taken \subseteq Range(card) \cup OnCard)'
             /\ (UNCHANGED mark => NumbersInv' /\ ReachInv')
             /\ (UNCHANGED <<copy, writer>> => CopyInv')
    BY <1>2 DEF LogInv, NumbersInv, BufferInv, CopyInv, ReachInv, OnCard, Grows, Follows
<1>3. CASE LogLine
    <2>1. Emit(FALSE) /\ UNCHANGED <<copy, cardFile, cardSize, writer, writerOn, opened, toCard, mark, wiped, breaks>>
        BY <1>3 DEF LogLine
    <2>2. FALSE \in BOOLEAN
        OBVIOUS
    <2>3. /\ card' \in Seq(Nat) /\ said' \in Nat /\ taken' \subseteq Nat /\ said' = said + 1
          /\ taken' \subseteq taken \cup {said + 1} /\ taken \subseteq taken'
          /\ Grows(card') /\ \A i \in 1 .. Len(card') : card'[i] <= said'
          /\ \A i \in 1 .. Len(cardFile') : cardFile'[i] <= said'
          /\ \A l \in taken' : l <= said'
          /\ BufferInv' /\ CopyInv' /\ OnCard' = OnCard
          /\ taken' \subseteq Range(card)' \cup OnCard' /\ Follows(cardFile, taken)'
        BY <2>1, <2>2, EmitKeeps
    <2>4. mark[2] \in Nat /\ mark[2] <= said /\ mark[2] # said + 1
        BY <1>1 DEF LogInv, NumbersInv
    <2>5. LogTypeOK'
        BY <1>1, <2>1, <2>3 DEF LogTypeOK
    <2>6. NumbersInv'
        BY <1>1, <2>1, <2>3, <2>4 DEF NumbersInv, Grows
    <2>7. ReachInv'
        BY <2>1, <2>3, <2>4 DEF LogInv, ReachInv, Follows
    <2> QED BY <2>3, <2>5, <2>6, <2>7 DEF LogInv
<1>4. CASE LogMark
    <2>1. /\ Emit(TRUE) /\ UNCHANGED <<copy, cardFile, cardSize, writer, writerOn, opened, toCard, wiped, breaks>>
          /\ mark' = <<"waiting", said'>>
        BY <1>4 DEF LogMark
    <2>2. TRUE \in BOOLEAN
        OBVIOUS
    <2>3. /\ card' \in Seq(Nat) /\ said' \in Nat /\ taken' \subseteq Nat /\ said' = said + 1
          /\ taken' \subseteq taken \cup {said + 1} /\ taken \subseteq taken'
          /\ Grows(card') /\ \A i \in 1 .. Len(card') : card'[i] <= said'
          /\ \A i \in 1 .. Len(cardFile') : cardFile'[i] <= said'
          /\ \A l \in taken' : l <= said'
          /\ BufferInv' /\ CopyInv' /\ OnCard' = OnCard
          /\ taken' \subseteq Range(card)' \cup OnCard' /\ Follows(cardFile, taken)'
        BY <2>1, <2>2, EmitKeeps
    <2>4. mark'[1] = "waiting" /\ mark'[2] = said' /\ mark' \in {"out", "waiting", "returned", "late"} \X Nat
        BY <2>1, <2>3
    <2>5. LogTypeOK'
        BY <1>1, <2>1, <2>3, <2>4 DEF LogTypeOK
    <2>6. NumbersInv'
        BY <2>3, <2>4 DEF NumbersInv, Grows
    <2>7. ReachInv'
        BY <2>3, <2>4 DEF ReachInv, Follows
    <2> QED BY <2>3, <2>5, <2>6, <2>7 DEF LogInv
<1>5. CASE MarkReturns
    <2>1. UNCHANGED <<card, copy, cardFile, cardSize, writer, writerOn, opened, toCard, said,
                      taken, wiped, breaks>>
        BY <1>5 DEF MarkReturns
    <2>2. PICK w \in {"returned", "late"} : mark' = <<w, mark[2]>> /\ (w = "returned" => card = <<>>)
        BY <1>5 DEF MarkReturns, CardEmpty
    <2>3. mark'[1] = w /\ mark'[2] = mark[2] /\ mark[2] \in Nat /\ mark' \in {"out", "waiting", "returned", "late"} \X Nat
        BY <1>1, <2>2
    <2>4. LogTypeOK'
        BY <1>1, <2>1, <2>3 DEF LogTypeOK
    <2>5. NumbersInv'
        BY <2>1, <2>3 DEF LogInv, NumbersInv, Grows
    <2>6. card = <<>> => taken \subseteq OnCard
        <3>1. card = <<>> => Range(card) = {}
            BY DEF Range
        <3> QED BY <3>1 DEF LogInv, ReachInv
    <2>7. mark'[1] = "returned" => mark[2] \in OnCard \/ mark[2] \notin taken
        BY <2>2, <2>3, <2>6
    <2>8. ReachInv'
        BY <1>2, <2>1, <2>3, <2>7 DEF ReachInv
    <2> QED BY <1>2, <2>1, <2>4, <2>5, <2>8 DEF LogInv
<1>6. CASE DrainCopies
    <2>1. /\ UNCHANGED <<card, cardFile, cardSize, writerOn, opened, toCard, mark, said, taken, wiped, breaks>>
          /\ copy' = card /\ writer' \in {"writing", "idle", "ended"} /\ (writer' = "writing" => card # <<>>)
        BY <1>6 DEF DrainCopies
    <2>2. CopyInv'
        BY <1>1, <2>1 DEF CopyInv
    <2>3. LogTypeOK'
        BY <1>1, <2>1 DEF LogTypeOK
    <2> QED BY <1>2, <2>1, <2>2, <2>3 DEF LogInv
<1>7. ASSUME writer = "writing", UNCHANGED <<card, copy, writerOn, opened, toCard, mark, said, taken>>,
             NEW n \in 0 .. Len(copy), cardFile' = Opens \o SubSeq(copy, 1, n), wiped' = Wiped,
             writer' \in {"idle", "ended", "removing"}, writer' = "removing" => n = Len(copy),
             cardSize' \in Nat, breaks' \in Nat
      PROVE  LogInv'
    <2>1. copy # <<>> /\ Len(copy) <= Len(card) /\ \A i \in 1 .. Len(copy) : copy[i] = card[i]
        BY <1>7 DEF LogInv, CopyInv
    <2>2. PICK p : p = SubSeq(copy, 1, n)
        OBVIOUS
    <2>3. p \in Seq(Nat) /\ Len(p) = n /\ \A i \in 1 .. n : p[i] = copy[i]
        BY <1>1, <2>2
    <2>0. n \in Nat /\ n <= Len(copy) /\ \A i \in 1 .. n : i \in 1 .. Len(copy)
        BY <1>1
    <2>4. n \in Nat /\ n <= Len(copy) /\ Len(p) <= Len(card) /\ \A i \in 1 .. Len(p) : p[i] = card[i]
        BY ONLY <1>1, <2>0, <2>1, <2>3, SMTT(60)
    <2>5. PICK b : b = Opens
        OBVIOUS
    <2>6. b \in Seq(Nat) /\ (b = <<>> \/ b = cardFile)
        BY <1>1, <2>5 DEF Opens
    <2>7. PICK f : f = b \o p
        OBVIOUS
    <2>8. cardFile' = f
        BY <1>7, <2>2, <2>5, <2>7
    <2>9. /\ f \in Seq(Nat) /\ Follows(f, taken)
          /\ \A i \in 1 .. Len(f) : f[i] <= said
          /\ f # <<>> => \A l \in taken : l > f[Len(f)] => l \in Range(card)
          /\ p # <<>> => f # <<>> /\ f[Len(f)] = p[Len(p)]
        BY <2>4, <2>3, <2>6, <2>7, FileFollows
    <2>10. Range(f) = Range(b) \cup Range(p)
        BY <2>3, <2>6, <2>7, RangeJoins
    <2>11. wiped' \subseteq Nat /\ OnCard \subseteq Range(f) \cup wiped'
        <3>1. CASE cardSize > KeepLines
            <4>1. \A x \in Range(cardFile) : x \in Nat
                BY <1>1, InRange
            <4> QED BY <1>1, <1>7, <3>1, <4>1 DEF Wiped, OnCard
        <3>2. CASE ~(cardSize > KeepLines)
            <4>1. b = cardFile /\ wiped' = wiped
                BY <1>7, <2>5, <3>2 DEF Opens, Wiped
            <4> QED BY <1>1, <2>10, <4>1 DEF OnCard
        <3> QED BY <3>1, <3>2
    <2>12. OnCard' = Range(f) \cup wiped'
        BY <2>8 DEF OnCard
    <2>13. LogTypeOK'
        BY <1>1, <1>7, <2>8, <2>9, <2>11 DEF LogTypeOK
    <2>14. NumbersInv'
        BY <1>7, <2>8, <2>9 DEF LogInv, NumbersInv, Grows
    <2>15. BufferInv'
        BY <1>7, <2>8, <2>9 DEF LogInv, BufferInv
    <2>16. CopyInv'
        <3>1. ASSUME writer' = "removing" PROVE Range(copy) \subseteq OnCard' /\ f # <<>> /\ f[Len(f)] = copy[Len(copy)]
            <4>1. p = copy
                BY <1>1, <1>7, <2>2, <3>1, SubSeqFull
            <4> QED BY <2>1, <2>9, <2>10, <2>12, <4>1
        <3> QED BY <1>7, <2>1, <2>8, <3>1 DEF CopyInv
    <2>17. ReachInv'
        BY <1>7, <2>8, <2>9, <2>11, <2>12 DEF LogInv, ReachInv, Follows
    <2> QED BY <2>13, <2>14, <2>15, <2>16, <2>17 DEF LogInv
<1>8. CASE CardWrites
    <2>1. copy = SubSeq(copy, 1, Len(copy)) /\ Len(copy) \in 0 .. Len(copy)
        BY <1>1, SubSeqFull
    <2>2. Opens \o copy \in Seq(Nat)
        BY <1>1 DEF Opens
    <2>3. cardFile' = Opens \o copy /\ cardSize' = Len(cardFile')
        BY <1>8 DEF CardWrites
    <2>4. cardSize' \in Nat
        BY <2>2, <2>3
    <2>5. cardFile' = Opens \o SubSeq(copy, 1, Len(copy))
        BY <2>1, <2>3, Zenon
    <2>6. /\ writer = "writing" /\ wiped' = Wiped /\ writer' = "removing"
          /\ UNCHANGED <<card, copy, writerOn, opened, toCard, mark, said, taken, breaks>>
        BY <1>8 DEF CardWrites
    <2> QED BY <1>1, <1>7, <2>1, <2>4, <2>5, <2>6
<1>9. CASE CardBreaks
    <2>1. /\ writer = "writing" /\ writer' \in {"idle", "ended"} /\ breaks' \in Nat
          /\ UNCHANGED <<card, copy, cardSize, writerOn, opened, toCard, mark, said, taken>>
        BY <1>1, <1>9 DEF CardBreaks, AfterBreak
    <2>2. CASE UNCHANGED <<cardFile, wiped>>
        <3>1. CopyInv'
            BY <2>1 DEF CopyInv
        <3>2. LogTypeOK'
            BY <1>1, <2>1, <2>2 DEF LogTypeOK
        <3> QED BY <1>2, <2>1, <2>2, <3>1, <3>2 DEF LogInv
    <2>3. ASSUME NEW n \in 0 .. Len(copy), cardFile' = Opens \o SubSeq(copy, 1, n), wiped' = Wiped PROVE LogInv'
        BY <1>1, <1>7, <2>1, <2>3
    <2> QED BY <1>9, <2>2, <2>3 DEF CardBreaks
<1>10. CASE DrainRemoves
    <2>1. /\ writer = "removing" /\ writer' \in {"idle", "ended"}
          /\ UNCHANGED <<copy, cardFile, cardSize, writerOn, opened, toCard, mark, said, taken, wiped, breaks>>
        BY <1>10 DEF DrainRemoves, AfterBreak
    <2>2. /\ copy # <<>> /\ Len(copy) <= Len(card) /\ \A i \in 1 .. Len(copy) : copy[i] = card[i]
          /\ Range(copy) \subseteq OnCard
          /\ cardFile # <<>> /\ cardFile[Len(cardFile)] = copy[Len(copy)]
        BY <2>1 DEF LogInv, CopyInv
    <2>3. PICK k \in 1 .. Len(card) : k = Len(copy)
        BY <1>1, <2>2
    <2>4. PICK v : v = SubSeq(card, k + 1, Len(card))
        OBVIOUS
    <2>5. card' = v
        BY <1>10, <2>3, <2>4 DEF DrainRemoves
    <2>6. k \in 0 .. Len(card) /\ k \in Nat /\ k >= 1 /\ k <= Len(card)
        BY <1>1
    <2>7. v \in Seq(Nat) /\ Len(v) = Len(card) - k /\ \A i \in 1 .. Len(card) - k : v[i] = card[i + k]
        BY <1>1, <2>4, <2>6, TailFacts
    <2>8. ASSUME NEW i \in 1 .. Len(v) PROVE i + k \in 1 .. Len(card) /\ v[i] = card[i + k] /\ i \in Nat
        <3>1. i \in Nat /\ i >= 1 /\ i <= Len(card) - k /\ i \in 1 .. Len(card) - k
            BY <1>1, <2>6, <2>7
        <3>2. i + k \in 1 .. Len(card)
            BY ONLY <1>1, <2>6, <3>1
        <3> QED BY <2>7, <3>1, <3>2
    <2>9. Grows(v)
        <3> SUFFICES ASSUME NEW i \in 1 .. Len(v), NEW j \in 1 .. Len(v), i < j PROVE v[i] < v[j]
            BY DEF Grows
        <3>1. i + k < j + k
            BY <2>6, <2>8
        <3> QED BY <2>8, <3>1 DEF LogInv, NumbersInv, Grows
    <2>10. \A i \in 1 .. Len(v) : v[i] <= said
        BY <2>8 DEF LogInv, NumbersInv
    <2>11. ASSUME NEW j \in 1 .. Len(card), j > k PROVE card[j] \in Range(v)
        <3>1. j - k \in 1 .. Len(v) /\ (j - k) + k = j
            BY <1>1, <2>6, <2>7, <2>11
        <3>2. v[j - k] = card[j]
            BY <2>8, <3>1
        <3> QED BY <2>7, <3>1, <3>2, InRange
    <2>12. \A i \in 1 .. Len(card) : card[i] \in Nat
        BY <1>1
    <2>13. ASSUME NEW l \in taken, l > card[k] PROVE l \in Range(v)
        <3>1. l \in Range(card)
            BY <2>2, <2>3, <2>6, <2>13 DEF LogInv, BufferInv
        <3>2. PICK j \in 1 .. Len(card) : card[j] = l
            BY <1>1, <3>1, InRange
        <3>3. ~(j = k) /\ ~(j < k)
            <4>1. j < k => card[j] < card[k]
                BY DEF LogInv, NumbersInv, Grows
            <4> QED BY <2>12, <2>13, <3>2, <4>1
        <3>4. j > k
            BY <2>6, <3>3
        <3> QED BY <2>11, <3>2, <3>4
    <2>14. BufferInv'
        <3>1. ASSUME v # <<>>, NEW l \in taken, l >= v[1] PROVE l \in Range(v)
            <4>1. 1 \in 1 .. Len(v)
                BY <2>7, <3>1
            <4>2. v[1] = card[1 + k] /\ 1 + k \in 1 .. Len(card)
                BY <2>8, <4>1
            <4>3. card[k] < card[1 + k]
                <5>1. k < 1 + k
                    BY <2>6
                <5> QED BY <4>2, <5>1 DEF LogInv, NumbersInv, Grows
            <4>4. l > card[k]
                BY <1>1, <2>12, <3>1, <4>2, <4>3, SMTT(60)
            <4> QED BY <2>13, <4>4
        <3>2. ASSUME NEW l \in taken, l > cardFile[Len(cardFile)] PROVE l \in Range(v)
            <4>1. cardFile[Len(cardFile)] = card[k]
                BY <2>2, <2>3
            <4> QED BY <2>13, <3>2, <4>1
        <3> QED BY <2>1, <2>5, <3>1, <3>2 DEF BufferInv
    <2>15. taken \subseteq Range(v) \cup OnCard
        <3> SUFFICES ASSUME NEW l \in Range(card) PROVE l \in Range(v) \cup OnCard
            BY DEF LogInv, ReachInv
        <3>1. PICK j \in 1 .. Len(card) : card[j] = l
            BY <1>1, InRange
        <3>2. CASE j > k
            BY <2>11, <3>1, <3>2
        <3>3. CASE j <= k
            <4>1. j \in 1 .. Len(copy) /\ copy[j] = l
                BY <2>2, <2>3, <3>1, <3>3
            <4>2. l \in Range(copy)
                BY <1>1, <4>1, InRange
            <4> QED BY <2>2, <4>2
        <3> QED BY <2>6, <3>2, <3>3
    <2>16. OnCard' = OnCard
        BY <2>1 DEF OnCard
    <2>17. LogTypeOK'
        BY <1>1, <2>1, <2>5, <2>7 DEF LogTypeOK
    <2>18. NumbersInv'
        BY <2>1, <2>5, <2>9, <2>10 DEF LogInv, NumbersInv, Grows
    <2>19. ReachInv'
        BY <2>1, <2>5, <2>15, <2>16 DEF LogInv, ReachInv, Follows
    <2>20. CopyInv'
        BY <2>1 DEF CopyInv
    <2> QED BY <2>14, <2>17, <2>18, <2>19, <2>20 DEF LogInv
<1>11. CASE CloseTells \/ CloseEnds
    <2>1. /\ UNCHANGED <<card, copy, cardFile, cardSize, writer, toCard, mark, said, taken, wiped, breaks>>
          /\ writerOn' \in {FALSE, writerOn} /\ opened' \in {FALSE, opened}
        BY <1>11, Zenon DEF CloseTells, CloseEnds
    <2>2. writerOn' \in BOOLEAN /\ opened' \in BOOLEAN
        BY <1>1, <2>1, Zenon
    <2>3. LogTypeOK'
        BY <1>1, <2>1, <2>2 DEF LogTypeOK
    <2> QED BY <1>2, <2>1, <2>3 DEF LogInv
<1>12. ASSUME NEW on \in BOOLEAN, Choose(on) PROVE LogInv'
    <2>1. /\ UNCHANGED <<card, copy, cardFile, cardSize, writer, writerOn, opened, mark, said, taken, wiped, breaks>>
          /\ toCard' \in BOOLEAN
        BY <1>12, Zenon DEF Choose
    <2>2. LogTypeOK'
        BY <1>1, <2>1 DEF LogTypeOK
    <2> QED BY <1>2, <2>1, <2>2 DEF LogInv
<1>13. CASE UNCHANGED logVars
    <2>1. LogTypeOK'
        BY <1>13 DEF logVars, LogInv, LogTypeOK
    <2> QED BY <1>2, <1>13, <2>1 DEF logVars, LogInv
<1> QED BY <1>3, <1>4, <1>5, <1>6, <1>8, <1>9, <1>10, <1>11, <1>12, <1>13 DEF LogNext

LEMMA LogReaches == LogInv => LinesReachTheCard
BY DEF LogInv, ReachInv, Follows, LinesReachTheCard

-----------------------------------------------------------------------------
(* The settings. Reading a file keeps every value on its dial, whatever is *)
(* in it, and what was written reads back; so a program that has read runs *)
(* on what was saved until a dial is turned.                               *)

Values == {v \in [Ids -> Int] : v["steps"] \in Dial /\ v["range"] \in Low .. High}
FileLines == (Ids \cup {"newer"}) \X Int

\* One line of a file over the values.
SetLine(l, v) ==
    IF l[1] \notin Ids THEN v ELSE [v EXCEPT ![l[1]] = SetValue(l[1], l[2], @)]

LEMMA UpTo ==
    ASSUME NEW n \in Nat, NEW T, 0 \in T, \A i \in T : i \in 0 .. n - 1 => i + 1 \in T
    PROVE  0 .. n \subseteq T
<1> SUFFICES ASSUME NEW k \in 0 .. n, k \notin T PROVE FALSE
    OBVIOUS
<1>1. PICK M : M = {i \in Nat : i <= n /\ i \notin T}
    OBVIOUS
<1>2. M \subseteq Nat /\ M # {}
    BY <1>1
<1>3. PICK m \in M : \A j \in M : ~(<<j, m>> \in OpToRel(<, Nat))
    BY <1>2, WFMin, NatLessThanWellFounded
<1>4. m \in Nat /\ m <= n /\ m \notin T /\ m # 0
    BY <1>1
<1>5. m - 1 \in Nat /\ m - 1 \in 0 .. n - 1 /\ m - 1 < m
    BY <1>4
<1>6. m - 1 \in M \/ m - 1 \in T
    BY <1>1, <1>4, <1>5
<1>7. m - 1 \notin M
    BY <1>2, <1>3, <1>5 DEF OpToRel
<1>8. (m - 1) + 1 \in T
    BY <1>5, <1>6, <1>7
<1> QED BY <1>4, <1>8

LEMMA DialValues == Def \in Values /\ Dial \subseteq Int /\ Low \in Int /\ High \in Int
<1>1. Dial \subseteq Int /\ StepDef \in Dial
    BY PrefsAssumption DEF Dial
<1> QED BY <1>1, PrefsAssumption DEF Def, Values, Ids

LEMMA ValueTaken ==
    ASSUME NEW id \in Ids, NEW x \in Int, NEW v \in Values
    PROVE  [v EXCEPT ![id] = SetValue(id, x, @)] \in Values
<1>1. Dial \subseteq Int /\ Low \in Int /\ High \in Int /\ Low <= High
    BY DialValues, PrefsAssumption
<1>2. v \in [Ids -> Int] /\ v["steps"] \in Dial /\ v["range"] \in Low .. High
    BY DEF Values
<1>3. PICK z : z = SetValue(id, x, v[id])
    OBVIOUS
<1>4. CASE id = "range"
    <2>1. z \in Low .. High /\ z \in Int
        BY <1>1, <1>3, <1>4 DEF SetValue
    <2> QED BY <1>2, <1>3, <1>4, <2>1 DEF Values, Ids
<1>5. CASE id = "steps"
    <2>1. z \in Dial /\ z \in Int
        BY <1>1, <1>2, <1>3, <1>5 DEF SetValue
    <2> QED BY <1>2, <1>3, <1>5, <2>1 DEF Values, Ids
<1> QED BY <1>4, <1>5 DEF Ids

LEMMA LineTaken == ASSUME NEW l \in FileLines, NEW v \in Values PROVE SetLine(l, v) \in Values
<1>1. l[2] \in Int
    BY DEF FileLines
<1> QED BY <1>1, ValueTaken DEF SetLine

\* Reading is line after line.
LEMMA ReadsByLines ==
    ASSUME NEW lines \in Seq(FileLines), NEW start
    PROVE  \E f : /\ f = [i \in 0 .. Len(lines) |-> IF i = 0 THEN start ELSE SetLine(lines[i], f[i - 1])]
                  /\ Read(lines, start) = f[Len(lines)]
<1>1. PICK n \in Nat : n = Len(lines)
    OBVIOUS
<1>2. PICK T : T = {k \in Nat : \E g : g = [i \in 0 .. k |-> IF i = 0 THEN start ELSE SetLine(lines[i], g[i - 1])]}
    OBVIOUS
<1>3. 0 \in T
    <2>1. PICK g : g = [i \in {0} |-> start]
        OBVIOUS
    <2>2. g = [i \in 0 .. 0 |-> IF i = 0 THEN start ELSE SetLine(lines[i], g[i - 1])]
        BY <2>1
    <2> QED BY <1>2, <2>2
<1>4. ASSUME NEW k \in T PROVE k + 1 \in T
    <2>1. k \in Nat /\ 0 .. k + 1 = (0 .. k) \cup {k + 1} /\ k + 1 \notin 0 .. k /\ k + 1 # 0
        BY <1>2
    <2>2. PICK g : g = [i \in 0 .. k |-> IF i = 0 THEN start ELSE SetLine(lines[i], g[i - 1])]
        BY <1>2
    <2>3. PICK h : h = [i \in 0 .. k + 1 |-> IF i = k + 1 THEN SetLine(lines[k + 1], g[k]) ELSE g[i]]
        OBVIOUS
    <2>4. ASSUME NEW i \in 0 .. k + 1
          PROVE  h[i] = IF i = 0 THEN start ELSE SetLine(lines[i], h[i - 1])
        <3>1. CASE i = 0
            BY <2>1, <2>2, <2>3, <3>1
        <3>2. CASE i = k + 1
            <4>1. i - 1 = k /\ h[k] = g[k]
                BY <2>1, <2>3, <3>2
            <4> QED BY <2>1, <2>3, <3>2, <4>1
        <3>3. CASE i # 0 /\ i # k + 1
            <4>1. i \in 0 .. k /\ i - 1 \in 0 .. k /\ i - 1 \in 0 .. k + 1 /\ i - 1 # k + 1
                BY <2>1, <3>3
            <4>2. h[i] = g[i] /\ h[i - 1] = g[i - 1]
                BY <2>3, <3>3, <4>1
            <4>3. g[i] = SetLine(lines[i], g[i - 1])
                BY <2>2, <3>3, <4>1
            <4> QED BY <3>3, <4>2, <4>3
        <3> QED BY <3>1, <3>2, <3>3
    <2>5. h = [i \in 0 .. k + 1 |-> IF i = 0 THEN start ELSE SetLine(lines[i], h[i - 1])]
        BY <2>3, <2>4
    <2>6. k + 1 \in Nat
        BY <2>1
    <2> QED BY <1>2, <2>5, <2>6
<1>5. n \in T
    <2>1. 0 .. n \subseteq T
        BY <1>3, <1>4, UpTo
    <2> QED BY <2>1
<1>6. \E g : g = [i \in 0 .. Len(lines) |-> IF i = 0 THEN start ELSE SetLine(lines[i], g[i - 1])]
    BY <1>1, <1>2, <1>5
<1>7. PICK f : f = CHOOSE g : g = [i \in 0 .. Len(lines) |-> IF i = 0 THEN start ELSE SetLine(lines[i], g[i - 1])]
    OBVIOUS
<1>8. f = [i \in 0 .. Len(lines) |-> IF i = 0 THEN start ELSE SetLine(lines[i], f[i - 1])]
    BY <1>6, <1>7
<1>9. Read(lines, start) = f[Len(lines)]
    BY <1>7 DEF Read, SetLine
<1> QED BY <1>8, <1>9

LEMMA ReadOnDial ==
    ASSUME NEW lines \in Seq(FileLines), NEW start \in Values PROVE Read(lines, start) \in Values
<1>1. PICK f : /\ f = [i \in 0 .. Len(lines) |-> IF i = 0 THEN start ELSE SetLine(lines[i], f[i - 1])]
               /\ Read(lines, start) = f[Len(lines)]
    BY ReadsByLines
<1>2. Len(lines) \in Nat /\ \A i \in 1 .. Len(lines) : lines[i] \in FileLines
    OBVIOUS
<1>3. PICK T : T = {i \in 0 .. Len(lines) : f[i] \in Values}
    OBVIOUS
<1>4. 0 \in T
    BY <1>1, <1>2, <1>3
<1>5. ASSUME NEW i \in T, i \in 0 .. Len(lines) - 1 PROVE i + 1 \in T
    <2>1. i + 1 \in 1 .. Len(lines) /\ i + 1 \in 0 .. Len(lines) /\ (i + 1) - 1 = i /\ i + 1 # 0
        BY <1>2, <1>5
    <2>2. f[i + 1] = SetLine(lines[i + 1], f[i])
        BY <1>1, <2>1
    <2>3. SetLine(lines[i + 1], f[i]) \in Values
        BY <1>2, <1>3, <2>1, LineTaken
    <2> QED BY <1>3, <2>1, <2>2, <2>3
<1>6. 0 .. Len(lines) \subseteq T
    BY <1>2, <1>4, <1>5, UpTo
<1> QED BY <1>1, <1>2, <1>3, <1>6

LEMMA ReadsBack ==
    ASSUME NEW v \in Values
    PROVE  Written(v) \in Seq(FileLines) /\ Read(Written(v), Def) = v
<1>1. /\ v \in [Ids -> Int] /\ v["steps"] \in Dial /\ v["range"] \in Low .. High
      /\ v["steps"] \in Int /\ v["range"] \in Int
    BY DialValues DEF Values, Ids
<1>2. PICK w : w = Written(v)
    OBVIOUS
<1>3. /\ w \in Seq(FileLines) /\ Len(w) = 2
      /\ w[1] = <<"range", v["range"]>> /\ w[2] = <<"steps", v["steps"]>>
    <2>1. PICK a, b : a = <<"range", v["range"]>> /\ b = <<"steps", v["steps"]>>
        OBVIOUS
    <2>2. a \in FileLines /\ b \in FileLines
        BY <1>1, <2>1 DEF FileLines, Ids
    <2>3. w = <<a, b>>
        BY <1>2, <2>1 DEF Written
    <2> QED BY <2>1, <2>2, <2>3
<1>4. PICK f : /\ f = [i \in 0 .. Len(w) |-> IF i = 0 THEN Def ELSE SetLine(w[i], f[i - 1])]
               /\ Read(w, Def) = f[Len(w)]
    BY <1>3, ReadsByLines
<1>5. f[0] = Def /\ f[1] = SetLine(w[1], Def) /\ f[2] = SetLine(w[2], f[1])
    <2>1. 0 \in 0 .. Len(w) /\ 1 \in 0 .. Len(w) /\ 2 \in 0 .. Len(w)
        BY <1>3
    <2>2. \A i \in 0 .. Len(w) : f[i] = IF i = 0 THEN Def ELSE SetLine(w[i], f[i - 1])
        BY <1>4
    <2> QED BY <2>1, <2>2
<1>6. Def \in [Ids -> Int] /\ Low \in Int /\ High \in Int
    BY DialValues DEF Values
<1>7. f[1] = [Def EXCEPT !["range"] = v["range"]]
    <2>1. w[1][1] = "range" /\ w[1][2] = v["range"]
        BY <1>3
    <2>2. \A now : SetValue("range", v["range"], now) = v["range"]
        BY <1>1, <1>6 DEF SetValue
    <2>3. SetLine(w[1], Def) = [Def EXCEPT !["range"] = SetValue("range", v["range"], @)]
        BY <2>1 DEF SetLine, Ids
    <2> QED BY <1>5, <1>6, <2>2, <2>3
<1>8. f[2] = [f[1] EXCEPT !["steps"] = v["steps"]]
    BY <1>1, <1>3, <1>5, <1>6, <1>7 DEF SetLine, SetValue, Ids
<1>9. f[2] \in [Ids -> Int] /\ f[2]["steps"] = v["steps"] /\ f[2]["range"] = v["range"]
    BY <1>1, <1>6, <1>7, <1>8 DEF Ids
<1>10. f[2] = v
    BY <1>1, <1>9 DEF Ids
<1> QED BY <1>2, <1>3, <1>4, <1>10

PrefsTypeOK ==
    /\ value \in Values /\ saved \in Values /\ prefFile \in Seq(FileLines)
    /\ loaded \in BOOLEAN /\ dirty \in BOOLEAN /\ cut \in BOOLEAN /\ turned \in BOOLEAN
    /\ page \in {"closed", "open", "saving", "off"}

PrefsInv ==
    /\ PrefsTypeOK
    /\ ~loaded /\ page # "off" => value = Def /\ page = "closed" /\ ~turned
    /\ page # "saving" /\ ~cut => saved = Read(prefFile, Def)
    /\ page # "off" /\ loaded /\ ~turned /\ ~cut => value = saved

LEMMA PrefsBegins == PrefsInit => PrefsInv
<1> SUFFICES ASSUME PrefsInit PROVE PrefsInv
    OBVIOUS
<1>1. PICK x \in Dial \cup Low .. High \cup Strange, z \in Dial \cup Low .. High \cup Strange :
         prefFile \in {NoFile, <<<<"newer", x>>, <<"steps", z>>, <<"range", x>>>>, <<<<"range", x>>>>}
    BY DEF PrefsInit
<1>2. x \in Int /\ z \in Int
    BY DialValues, PrefsAssumption
<1>3. prefFile \in Seq(FileLines)
    <2>1. PICK a, b, c : a = <<"newer", x>> /\ b = <<"steps", z>> /\ c = <<"range", x>>
        OBVIOUS
    <2>2. a \in FileLines /\ b \in FileLines /\ c \in FileLines
        BY <1>2, <2>1 DEF FileLines, Ids
    <2>3. prefFile \in {<<>>, <<a, b, c>>, <<c>>}
        BY <1>1, <2>1 DEF NoFile
    <2>4. <<>> \in Seq(FileLines) /\ <<a, b, c>> \in Seq(FileLines) /\ <<c>> \in Seq(FileLines)
        BY <2>2
    <2> QED BY <2>3, <2>4
<1>4. value = Def /\ page = "closed" /\ saved = Read(prefFile, Def)
    BY DEF PrefsInit
<1>5. loaded \in BOOLEAN /\ dirty \in BOOLEAN /\ cut \in BOOLEAN /\ turned \in BOOLEAN /\ ~loaded /\ ~turned
    BY Zenon DEF PrefsInit
<1>6. saved \in Values
    BY <1>3, <1>4, ReadOnDial, DialValues
<1> QED BY <1>3, <1>4, <1>5, <1>6, DialValues DEF PrefsInv, PrefsTypeOK

LEMMA PrefsStep == PrefsInv /\ [PrefsNext]_prefsVars => PrefsInv'
<1> SUFFICES ASSUME PrefsInv, [PrefsNext]_prefsVars PROVE PrefsInv'
    OBVIOUS
<1> USE DEF PrefsInv, PrefsTypeOK
<1>1. CASE Load
    <2>1. value' = Read(prefFile, value) /\ ~loaded /\ page # "off" /\ UNCHANGED <<prefFile, page, dirty, history>>
        BY <1>1 DEF Load
    <2>2. loaded' \in BOOLEAN /\ loaded'
        BY <1>1, Zenon DEF Load
    <2>3. value' \in Values /\ value' = Read(prefFile, Def)
        BY <2>1, ReadOnDial
    <2> QED BY <2>1, <2>2, <2>3 DEF history
<1>2. CASE OpenPage
    <2>1. dirty' \in BOOLEAN
        BY <1>2, Zenon DEF OpenPage
    <2> QED BY <1>2, <2>1 DEF OpenPage, history
<1>3. CASE Back
    <2>1. dirty' \in BOOLEAN
        BY <1>3, Zenon DEF Back
    <2>2. /\ page = "open" /\ UNCHANGED <<value, loaded, history>>
          /\ \/ page' = "saving" /\ prefFile' = <<>>
             \/ page' = "closed" /\ prefFile' = prefFile
        BY <1>3 DEF Back
    <2>3. prefFile' \in Seq(FileLines)
        <3>1. <<>> \in Seq(FileLines)
            OBVIOUS
        <3> QED BY <2>2, <3>1
    <2> QED BY <2>1, <2>2, <2>3 DEF history
<1>4. CASE SaveEnds
    <2>1. /\ page = "saving" /\ page' = "closed" /\ prefFile' = Written(value) /\ saved' = value
          /\ UNCHANGED <<value, loaded, dirty, turned>>
        BY <1>4 DEF SaveEnds
    <2>2. cut' \in BOOLEAN
        BY <1>4, Zenon DEF SaveEnds
    <2>3. prefFile' \in Seq(FileLines) /\ saved' = Read(prefFile', Def)
        <3>1. Written(value) \in Seq(FileLines) /\ Read(Written(value), Def) = value
            BY ReadsBack
        <3> QED BY <2>1, <3>1, Zenon
    <2>4. saved' = Read(prefFile, Def)'
        BY <2>3 DEF Read, Def, SetValue
    <2> QED BY <2>1, <2>2, <2>3, <2>4
<1>5. CASE PowerOff
    <2>1. /\ page' = "off" /\ UNCHANGED <<value, loaded, dirty, saved, turned>>
          /\ page # "saving" => prefFile' = prefFile
          /\ cut' <=> (cut \/ page = "saving")
        BY <1>5 DEF PowerOff
    <2>2. cut' \in BOOLEAN
        BY <1>5, Zenon DEF PowerOff
    <2>3. prefFile' \in Seq(FileLines)
        <3>1. CASE page = "saving"
            <4>1. PICK n \in 0 .. 2 : prefFile' = SubSeq(Written(value), 1, n)
                BY <1>5, <3>1 DEF PowerOff
            <4>2. PICK w : w = Written(value)
                OBVIOUS
            <4>3. w \in Seq(FileLines) /\ Len(w) = 2
                BY <4>2, ReadsBack DEF Written
            <4>4. SubSeq(w, 1, n) \in Seq(FileLines)
                BY <4>3, SMTT(60)
            <4> QED BY <4>1, <4>2, <4>4
        <3>2. CASE page # "saving"
            BY <2>1, <3>2
        <3> QED BY <3>1, <3>2
    <2> QED BY <2>1, <2>2, <2>3
<1>6. CASE Boot
    <2>1. page = "off" /\ page' = "closed" /\ value' = Def /\ UNCHANGED <<prefFile, saved, cut>>
        BY <1>6 DEF Boot
    <2>2. loaded' \in BOOLEAN /\ dirty' \in BOOLEAN /\ turned' \in BOOLEAN /\ ~loaded' /\ ~turned'
        BY <1>6, Zenon DEF Boot
    <2> QED BY <2>1, <2>2, DialValues
<1>7. ASSUME NEW id \in Ids, NEW by \in {-1, 1}, Adjust(id, by) PROVE PrefsInv'
    <2>1. page = "open" /\ UNCHANGED <<loaded, prefFile, page, saved, cut>>
        BY <1>7 DEF Adjust
    <2>2. dirty' \in BOOLEAN /\ turned' \in BOOLEAN /\ turned'
        BY <1>7, Zenon DEF Adjust
    <2>3. value' \in Values
        <3>1. value \in [Ids -> Int] /\ value["steps"] \in Dial /\ value["range"] \in Low .. High
            BY DEF Values
        <3>2. CASE id = "range"
            <4>1. value' = [value EXCEPT !["range"] = SetValue("range", @ + by, @)]
                BY <1>7, <3>2 DEF Adjust
            <4>2. PICK x \in Int : x = value["range"] + by
                BY <3>1 DEF Ids
            <4>3. [value EXCEPT !["range"] = SetValue("range", x, @)] \in Values
                BY <3>2, ValueTaken
            <4> QED BY <4>1, <4>2, <4>3
        <3>3. CASE id = "steps"
            <4>1. value' = [value EXCEPT !["steps"] = SetValue("steps", AtStep(StepNow + by), @)]
                BY <1>7, <3>3 DEF Adjust
            <4>2. SetValue("steps", AtStep(StepNow + by), value["steps"]) \in Dial
                BY <3>1 DEF SetValue
            <4> QED BY <3>1, <4>1, <4>2, DialValues DEF Values, Ids
        <3> QED BY <3>2, <3>3 DEF Ids
    <2> QED BY <2>1, <2>2, <2>3
<1>8. CASE UNCHANGED prefsVars
    BY <1>8 DEF prefsVars, history
<1> QED BY <1>1, <1>2, <1>3, <1>4, <1>5, <1>6, <1>7, <1>8 DEF PrefsNext

LEMMA PrefsRun == PrefsInv => RunsOnWhatWasSaved
BY DEF PrefsInv, PrefsTypeOK, Values, RunsOnWhatWasSaved

\* What goes to the card is there: of any lines with any writes broken, and of
\* any files, boots and saves cut off.
THEOREM CardStaysTrue == LogSpec /\ PrefsSpec => []CardIsTrue
<1>1. LogInv /\ PrefsInv => CardIsTrue
    BY LogReaches, PrefsRun DEF CardIsTrue
<1> QED BY LogBegins, LogStep, PrefsBegins, PrefsStep, <1>1, PTL DEF LogSpec, PrefsSpec

-----------------------------------------------------------------------------
(* The pack. What pack_open() finds by walking the file are the records    *)
(* that lie one after another from its start.                              *)

Place == Nat \ {0}

LEMMA SizeFacts == \A k \in Pictures : Rows[k] \in Nat \ {0} /\ Size(k) \in Nat /\ Size(k) = Rows[k] + 1 /\ Size(k) > 1
BY PackAssumption DEF Size

LEMMA CellFacts == ASSUME NEW f \in Seq(Cell), NEW pos \in 1 .. Len(f) PROVE f[pos].of \in Pictures /\ f[pos].row \in Nat
<1>1. PICK c : c = f[pos]
    OBVIOUS
<1>2. c \in Cell
    BY <1>1
<1> QED BY <1>1, <1>2 DEF Cell

\* One look of the walk, and on by the record it finds.
WalkOn(f, g, pos) == IF Whole(f, pos) THEN <<pos>> \o g[pos + Size(f[pos].of)] ELSE <<>>

LEMMA WholeFacts ==
    ASSUME NEW f \in Seq(Cell), NEW pos \in Place, Whole(f, pos)
    PROVE  /\ pos \in 1 .. Len(f) /\ f[pos].of \in Pictures /\ f[pos].row = 0
           /\ pos + Size(f[pos].of) \in Place /\ pos + Size(f[pos].of) > pos
           /\ pos + Size(f[pos].of) <= Len(f) + 1 /\ Len(f) \in Nat
<1>1. pos \in 1 .. Len(f) /\ Len(f) \in Nat /\ f[pos].row = 0 /\ pos + Rows[f[pos].of] <= Len(f)
    BY DEF Whole, Place
<1>2. f[pos].of \in Pictures
    BY <1>1, CellFacts
<1> QED BY <1>1, <1>2, SizeFacts DEF Place

LEMMA WalkExists ==
    ASSUME NEW f \in Seq(Cell)
    PROVE  \E g : g = [pos \in Place |-> WalkOn(f, g, pos)]
<1>1. PICK n \in Nat : n = Len(f)
    OBVIOUS
<1>2. PICK T : T = {k \in Nat : \E g : /\ g = [pos \in Place |-> g[pos]]
                                       /\ \A pos \in Place : pos + k > n => g[pos] = WalkOn(f, g, pos)}
    OBVIOUS
<1>3. 0 \in T
    <2>1. PICK g : g = [pos \in Place |-> <<>>]
        OBVIOUS
    <2>2. \A pos \in Place : pos + 0 > n => ~Whole(f, pos)
        BY <1>1 DEF Whole, Place
    <2>3. g = [pos \in Place |-> g[pos]] /\ \A pos \in Place : pos + 0 > n => g[pos] = WalkOn(f, g, pos)
        BY <2>1, <2>2 DEF WalkOn
    <2> QED BY <1>2, <2>3
<1>4. ASSUME NEW k \in T, k \in 0 .. n - 1 PROVE k + 1 \in T
    <2>1. PICK g : /\ g = [pos \in Place |-> g[pos]]
                   /\ \A pos \in Place : pos + k > n => g[pos] = WalkOn(f, g, pos)
        BY <1>2
    <2>2. PICK p \in Place : p = n - k
        BY <1>4 DEF Place
    <2>3. PICK h : h = [pos \in Place |-> IF pos = p THEN WalkOn(f, g, p) ELSE g[pos]]
        OBVIOUS
    <2>4. ASSUME NEW pos \in Place, pos >= p PROVE WalkOn(f, h, pos) = WalkOn(f, g, pos)
        <3>1. CASE Whole(f, pos)
            <4>1. pos + Size(f[pos].of) \in Place /\ pos + Size(f[pos].of) > pos
                BY <3>1, WholeFacts
            <4>2. pos + Size(f[pos].of) # p
                BY <2>4, <4>1 DEF Place
            <4> QED BY <2>3, <4>1, <4>2 DEF WalkOn
        <3>2. CASE ~Whole(f, pos)
            BY <3>2 DEF WalkOn
        <3> QED BY <3>1, <3>2
    <2>5. ASSUME NEW pos \in Place, pos + (k + 1) > n PROVE h[pos] = WalkOn(f, h, pos)
        <3>1. CASE pos = p
            BY <2>3, <2>4, <3>1 DEF Place
        <3>2. CASE pos # p
            <4>1. pos + k > n /\ pos >= p
                BY <1>4, <2>2, <2>5, <3>2 DEF Place
            <4> QED BY <2>1, <2>3, <2>4, <3>2, <4>1
        <3> QED BY <3>1, <3>2
    <2>6. h = [pos \in Place |-> h[pos]] /\ k + 1 \in Nat
        BY <1>4, <2>3
    <2> QED BY <1>2, <2>5, <2>6
<1>5. n \in T
    <2>1. 0 .. n \subseteq T
        BY <1>3, <1>4, UpTo
    <2> QED BY <2>1
<1>6. PICK g : /\ g = [pos \in Place |-> g[pos]]
               /\ \A pos \in Place : pos + n > n => g[pos] = WalkOn(f, g, pos)
    BY <1>2, <1>5
<1>7. \A pos \in Place : g[pos] = WalkOn(f, g, pos)
    BY <1>6 DEF Place
<1>8. g = [pos \in Place |-> WalkOn(f, g, pos)]
    BY <1>6, <1>7
<1> QED BY <1>8

LEMMA WalkGoes ==
    ASSUME NEW f \in Seq(Cell)
    PROVE  \E g : /\ \A pos \in Place : g[pos] = WalkOn(f, g, pos)
                  /\ Walk(f) = SubSeq(g[1], 1, IF Len(g[1]) < Records THEN Len(g[1]) ELSE Records)
<1>1. PICK g : g = CHOOSE h : h = [pos \in Place |-> WalkOn(f, h, pos)]
    OBVIOUS
<1>2. g = [pos \in Place |-> WalkOn(f, g, pos)]
    BY <1>1, WalkExists
<1>3. Walk(f) = SubSeq(g[1], 1, IF Len(g[1]) < Records THEN Len(g[1]) ELSE Records)
    BY <1>1 DEF Walk, WalkOn, Place
<1> QED BY <1>2, <1>3

\* Records one after another from the start of the file up to e.
Chained(f, s, e) ==
    /\ s \in Seq(Place) /\ e \in Place
    /\ \A i \in 1 .. Len(s) :
          /\ Whole(f, s[i])
          /\ s[i] + Size(f[s[i]].of) = IF i = Len(s) THEN e ELSE s[i + 1]
          /\ s[i] + Size(f[s[i]].of) <= e
    /\ 1 = IF s = <<>> THEN e ELSE s[1]

LEMMA OneMore ==
    ASSUME NEW S, NEW s \in Seq(S), NEW i \in 1 .. Len(s)
    PROVE  <<s[i]>> \o SubSeq(s, i + 1, Len(s)) = SubSeq(s, i, Len(s))
<1>1. \A m \in 1 .. Len(s) + 1 : \A k \in m - 1 .. Len(s) : \A l \in k .. Len(s) :
         SubSeq(s, m, k) \o SubSeq(s, k + 1, l) = SubSeq(s, m, l)
    BY ConcatAdjacentSubSeq
<1>2. i \in 1 .. Len(s) + 1 /\ i \in i - 1 .. Len(s) /\ Len(s) \in i .. Len(s)
    OBVIOUS
<1>3. SubSeq(s, i, i) \o SubSeq(s, i + 1, Len(s)) = SubSeq(s, i, Len(s))
    BY <1>1, <1>2, Zenon
<1>4. SubSeq(s, i, i) = <<s[i]>>
    <2>1. PICK v : v = SubSeq(s, i, i)
        OBVIOUS
    <2>2. i \in Nat /\ i >= 1 /\ i <= Len(s) /\ s[i] \in S
        OBVIOUS
    <2>3. v \in Seq(S) /\ Len(v) = 1 /\ v[1] = s[i]
        BY <2>1, <2>2
    <2>4. v = <<s[i]>>
        BY <2>2, <2>3
    <2> QED BY <2>1, <2>4
<1> QED BY <1>3, <1>4

LEMMA WalkIs ==
    ASSUME NEW f \in Seq(Cell), NEW s, NEW e, Chained(f, s, e), Len(s) <= Records, ~Whole(f, e)
    PROVE  Walk(f) = s /\ EndOf(f, s) = e
<1>0. s \in Seq(Place) /\ e \in Place /\ Len(s) \in Nat /\ Records \in Nat
    BY PackAssumption DEF Chained
<1>1. PICK g : /\ \A pos \in Place : g[pos] = WalkOn(f, g, pos)
               /\ Walk(f) = SubSeq(g[1], 1, IF Len(g[1]) < Records THEN Len(g[1]) ELSE Records)
    BY WalkGoes
<1>2. PICK n \in Nat : n = Len(s)
    BY <1>0
<1>3. PICK T : T = {k \in 0 .. n : g[IF k = 0 THEN e ELSE s[n - k + 1]] = SubSeq(s, n - k + 1, n)}
    OBVIOUS
<1>4. 0 \in T
    <2>1. g[e] = <<>>
        BY <1>0, <1>1 DEF WalkOn
    <2>2. SubSeq(s, n - 0 + 1, n) = <<>>
        BY <1>0, <1>2
    <2>3. 0 \in 0 .. n /\ g[IF 0 = 0 THEN e ELSE s[n - 0 + 1]] = SubSeq(s, n - 0 + 1, n)
        <3>1. 0 \in 0 .. n
            BY <1>2
        <3>2. (IF 0 = 0 THEN e ELSE s[n - 0 + 1]) = e
            OBVIOUS
        <3> QED BY <2>1, <2>2, <3>1, <3>2, Zenon
    <2> QED BY <1>3, <2>3
<1>5. ASSUME NEW k \in T, k \in 0 .. n - 1 PROVE k + 1 \in T
    <2>1. PICK i \in 1 .. n : i = n - k
        BY <1>5
    <2>2. n - (k + 1) + 1 = i /\ n - k + 1 = i + 1 /\ (k = 0 <=> i = n) /\ k + 1 \in 0 .. n /\ k + 1 # 0
        BY <1>5, <2>1
    <2>3. g[IF i = n THEN e ELSE s[i + 1]] = SubSeq(s, i + 1, n)
        BY <1>3, <2>2
    <2>4. Whole(f, s[i]) /\ s[i] + Size(f[s[i]].of) = IF i = n THEN e ELSE s[i + 1]
        BY <1>2 DEF Chained
    <2>5. s[i] \in Place
        BY <1>0, <1>2
    <2>6. g[s[i]] = <<s[i]>> \o SubSeq(s, i + 1, n)
        BY <1>1, <2>3, <2>4, <2>5 DEF WalkOn
    <2>7. g[s[i]] = SubSeq(s, i, n)
        BY <1>0, <1>2, <2>6, OneMore
    <2> QED BY <1>3, <2>2, <2>7
<1>6. n \in T
    <2>1. 0 .. n \subseteq T
        BY <1>4, <1>5, UpTo
    <2> QED BY <2>1
<1>7. g[1] = s
    <2>1. g[IF n = 0 THEN e ELSE s[n - n + 1]] = SubSeq(s, n - n + 1, n)
        BY <1>3, <1>6
    <2>2. n - n + 1 = 1 /\ (n = 0 <=> s = <<>>)
        BY <1>0, <1>2
    <2>3. 1 = IF n = 0 THEN e ELSE s[1]
        BY <2>2 DEF Chained
    <2>4. g[1] = SubSeq(s, 1, Len(s))
        BY <1>2, <2>1, <2>2, <2>3
    <2> QED BY <1>0, <2>4, SubSeqFull
<1>8. Walk(f) = s
    <2>1. (IF Len(s) < Records THEN Len(s) ELSE Records) = Len(s)
        BY <1>0
    <2> QED BY <1>0, <1>1, <1>7, <2>1, SubSeqFull
<1>9. EndOf(f, s) = e
    <2>1. CASE s = <<>>
        BY <2>1 DEF EndOf, Chained
    <2>2. CASE s # <<>>
        <3>1. Len(s) \in 1 .. Len(s)
            BY <1>0, <2>2
        <3> QED BY <2>2, <3>1 DEF EndOf, Chained
    <2> QED BY <2>1, <2>2
<1> QED BY <1>8, <1>9

\* The file under the records that begin at s and end before e: behind e there
\* is at most one header, at e itself, of a picture that there was room for.
PackFile(f, s, e) ==
    /\ f \in Seq(Cell) /\ Chained(f, s, e)
    /\ Len(s) <= Records /\ e <= Cap + 1 /\ e <= Len(f) + 1
    /\ \A p \in e + 1 .. Len(f) : f[p].row # 0
    /\ e <= Len(f) /\ f[e].row = 0 => e + Size(f[e].of) <= Cap + 1 /\ Len(s) < Records

RowsAt(f, pos) == \A row \in 1 .. Rows[f[pos].of] : f[pos + row] = [of |-> f[pos].of, row |-> row]
RowsTrue(f, s) == \A i \in 1 .. Len(s) : RowsAt(f, s[i])

\* A put under way has its header and its first rows behind the last record;
\* and what is behind it is no record, until a header was put over another's
\* rows and left there.
PackInv ==
    /\ PackTypeOK /\ y \in Nat
    /\ up => PackFile(file, index, end) /\ (covered \/ RowsTrue(file, index))
    /\ ~up => \E s, e : /\ PackFile(file, s, e) /\ (covered \/ RowsTrue(file, s))
                        /\ ~Whole(file, e)
    /\ up /\ ~covered /\ (put = Nobody \/ y = 0) => ~Whole(file, end)
    /\ put # Nobody =>
          /\ Len(index) < Records
          /\ \A j \in 0 .. y - 1 : end + j <= Len(file) /\ file[end + j] = [of |-> put, row |-> j]

\* Every record lies before the end of the last.
LEMMA PackPlaces ==
    ASSUME NEW f, NEW s, NEW e, PackFile(f, s, e), NEW i \in 1 .. Len(s)
    PROVE  /\ s[i] \in Place /\ s[i] \in 1 .. Len(f) /\ f[s[i]].of \in Pictures /\ Whole(f, s[i])
           /\ e \in Place /\ s[i] + Rows[f[s[i]].of] < e /\ Rows[f[s[i]].of] \in Nat
           /\ f \in Seq(Cell) /\ f[s[i]].row = 0
<1>1. s \in Seq(Place) /\ e \in Place /\ Whole(f, s[i]) /\ s[i] + Size(f[s[i]].of) <= e /\ f \in Seq(Cell)
    BY DEF PackFile, Chained
<1>2. s[i] \in Place
    BY <1>1
<1>3. s[i] \in 1 .. Len(f) /\ f[s[i]].of \in Pictures /\ f[s[i]].row = 0
    BY <1>1, <1>2, WholeFacts
<1>4. Rows[f[s[i]].of] \in Nat /\ Size(f[s[i]].of) = Rows[f[s[i]].of] + 1
    BY <1>3, SizeFacts
<1> QED BY <1>1, <1>2, <1>3, <1>4 DEF Place

\* One record more, where one begins behind the last.
LEMMA RecordAdded ==
    ASSUME NEW f, NEW s, NEW e, PackFile(f, s, e), Whole(f, e)
    PROVE  /\ PackFile(f, Append(s, e), e + Size(f[e].of))
           /\ ~Whole(f, e + Size(f[e].of))
           /\ RowsTrue(f, s) /\ RowsAt(f, e) => RowsTrue(f, Append(s, e))
<1>0. f \in Seq(Cell) /\ s \in Seq(Place) /\ e \in Place /\ Len(s) \in Nat /\ Records \in Nat /\ Cap \in Nat
    BY PackAssumption DEF PackFile, Chained
<1>1. PICK z : z = e + Size(f[e].of)
    OBVIOUS
<1>2. /\ e \in 1 .. Len(f) /\ f[e].of \in Pictures /\ f[e].row = 0 /\ z \in Place /\ z > e
      /\ z <= Len(f) + 1 /\ Len(f) \in Nat
    BY <1>0, <1>1, WholeFacts
<1>3. PICK t : t = Append(s, e)
    OBVIOUS
<1>4. /\ t \in Seq(Place) /\ Len(t) = Len(s) + 1 /\ t # <<>> /\ t[Len(s) + 1] = e
      /\ \A i \in 1 .. Len(s) : t[i] = s[i]
    BY <1>0, <1>3
<1>5. \A i \in 1 .. Len(t) : i \in 1 .. Len(s) \/ i = Len(s) + 1
    BY <1>0, <1>4
<1>6. z <= Cap + 1 /\ Len(t) <= Records
    BY <1>0, <1>1, <1>2, <1>4 DEF PackFile
<1>7. \A p \in e + 1 .. Len(f) : f[p].row # 0
    BY DEF PackFile
<1>8. ASSUME NEW i \in 1 .. Len(t)
      PROVE  /\ Whole(f, t[i])
             /\ t[i] + Size(f[t[i]].of) = IF i = Len(t) THEN z ELSE t[i + 1]
             /\ t[i] + Size(f[t[i]].of) <= z
    <2>1. CASE i = Len(s) + 1
        BY <1>1, <1>2, <1>4, <2>1 DEF Place
    <2>2. CASE i \in 1 .. Len(s)
        <3>1. /\ Whole(f, s[i]) /\ s[i] + Size(f[s[i]].of) <= e
              /\ s[i] + Size(f[s[i]].of) = IF i = Len(s) THEN e ELSE s[i + 1]
            BY <2>2 DEF PackFile, Chained
        <3>2. t[i] = s[i] /\ t[i + 1] = IF i = Len(s) THEN e ELSE s[i + 1]
            <4>1. CASE i = Len(s)
                BY <1>4, <2>2, <4>1
            <4>2. CASE i # Len(s)
                <5>1. i + 1 \in 1 .. Len(s)
                    BY <1>0, <2>2, <4>2
                <5> QED BY <1>4, <2>2, <4>2, <5>1
            <4> QED BY <4>1, <4>2
        <3>3. s[i] \in Place /\ Size(f[s[i]].of) \in Nat /\ i # Len(t)
            BY <1>0, <1>4, <2>2, SizeFacts, PackPlaces
        <3> QED BY <1>0, <1>2, <3>1, <3>2, <3>3 DEF Place
    <2> QED BY <1>5, <2>1, <2>2
<1>9. 1 = t[1]
    <2>1. CASE s = <<>>
        <3>1. e = 1
            BY <2>1 DEF PackFile, Chained
        <3> QED BY <1>4, <2>1, <3>1
    <2>2. CASE s # <<>>
        <3>1. 1 \in 1 .. Len(s) /\ s[1] = 1
            BY <1>0, <2>2 DEF PackFile, Chained
        <3> QED BY <1>4, <3>1
    <2> QED BY <2>1, <2>2
<1>10. Chained(f, t, z)
    BY <1>2, <1>4, <1>8, <1>9 DEF Chained
<1>11. ~(z <= Len(f) /\ f[z].row = 0) /\ \A p \in z + 1 .. Len(f) : f[p].row # 0
    <2>1. \A p \in z .. Len(f) : p \in e + 1 .. Len(f)
        BY <1>0, <1>2 DEF Place
    <2>2. z <= Len(f) => z \in z .. Len(f)
        BY <1>2 DEF Place
    <2>3. \A p \in z + 1 .. Len(f) : p \in z .. Len(f)
        BY <1>2 DEF Place
    <2> QED BY <1>7, <2>1, <2>2, <2>3
<1>12. ~Whole(f, z)
    BY <1>11 DEF Whole
<1>13. PackFile(f, t, z)
    BY <1>0, <1>2, <1>6, <1>10, <1>11 DEF PackFile
<1>14. RowsTrue(f, s) /\ RowsAt(f, e) => RowsTrue(f, t)
    BY <1>4, <1>5 DEF RowsTrue
<1> QED BY <1>1, <1>3, <1>12, <1>13, <1>14

\* The program gone, the file is what the next start will find: the records of
\* the index, and one more if it was written whole.
LEMMA FileLeft ==
    ASSUME PackInv, up
    PROVE  \E s, e : /\ PackFile(file, s, e) /\ ~Whole(file, e)
                     /\ covered \/ Covers \/ RowsTrue(file, s)
                     /\ KeysAt(index) \subseteq KeysAt(s)
<1>1. PackFile(file, index, end) /\ (covered \/ RowsTrue(file, index)) /\ file \in Seq(Cell)
    BY DEF PackInv, PackFile
<1>2. CASE ~Whole(file, end)
    BY <1>1, <1>2
<1>3. CASE Whole(file, end)
    <2>0. index \in Seq(Place) /\ end \in Place /\ Len(index) \in Nat
        BY <1>1 DEF PackFile, Chained
    <2>1. PICK t : t = Append(index, end)
        OBVIOUS
    <2>2. Len(t) = Len(index) + 1 /\ \A i \in 1 .. Len(index) : t[i] = index[i] /\ i \in 1 .. Len(t)
        BY <2>0, <2>1
    <2>3. KeysAt(index) \subseteq KeysAt(t)
        BY <2>2 DEF KeysAt
    <2>4. covered \/ Covers \/ RowsAt(file, end)
        <3>1. SUFFICES ASSUME ~covered, ~Covers PROVE RowsAt(file, end)
            OBVIOUS
        <3>2. put # Nobody /\ y # 0 /\ y \in Nat /\ put \in Pictures /\ y <= Size(put)
            BY <1>3, <3>1 DEF PackInv, PackTypeOK
        <3>3. Rows[put] \in Nat /\ Size(put) = Rows[put] + 1
            BY <3>2, SizeFacts
        <3>4. \A j \in 0 .. y - 1 : file[end + j] = [of |-> put, row |-> j]
            BY <3>2 DEF PackInv
        <3>5. file[end].of = put
            <4>1. 0 \in 0 .. y - 1
                BY <3>2
            <4>2. end + 0 = end
                BY <2>0 DEF Place
            <4>3. file[end + 0] = [of |-> put, row |-> 0]
                BY <3>4, <4>1
            <4>4. file[end] = [of |-> put, row |-> 0]
                BY <4>2, <4>3
            <4> QED BY <4>4
        <3>6. end + Rows[put] <= Len(file)
            BY <1>3, <3>5 DEF Whole
        <3>7. y = Rows[put] + 1
            BY <3>1, <3>2, <3>3, <3>6 DEF Covers
        <3>8. \A row \in 1 .. Rows[put] : row \in 0 .. y - 1
            BY <3>3, <3>7
        <3> QED BY <3>4, <3>5, <3>8 DEF RowsAt
    <2> QED BY <1>1, <1>3, <2>1, <2>3, <2>4, RecordAdded
<1> QED BY <1>2, <1>3

LEMMA PackTyped ==
    ASSUME NEW f, NEW s, NEW e, PackFile(f, s, e)
    PROVE  s \in Seq(1 .. Cap) /\ Len(s) <= Records /\ e \in 1 .. Cap + 1 /\ f \in Seq(Cell)
<1>1. s \in Seq(Place) /\ e \in Place /\ e <= Cap + 1 /\ Len(s) <= Records /\ f \in Seq(Cell) /\ Cap \in Nat
    BY PackAssumption DEF PackFile, Chained
<1>2. ASSUME NEW i \in 1 .. Len(s) PROVE s[i] \in 1 .. Cap
    <2>1. s[i] \in Place /\ s[i] + Rows[f[s[i]].of] < e /\ Rows[f[s[i]].of] \in Nat
        BY PackPlaces
    <2> QED BY ONLY <1>1, <2>1 DEF Place
<1>3. s \in Seq(1 .. Cap)
    BY ONLY <1>1, <1>2
<1> QED BY ONLY <1>1, <1>3 DEF Place

LEMMA EmptyPack == PackFile(<<>>, <<>>, 1) /\ RowsTrue(<<>>, <<>>) /\ ~Whole(<<>>, 1)
<1>1. <<>> \in Seq(Cell) /\ <<>> \in Seq(Place) /\ 1 \in Place
    BY DEF Place
<1>2. ~Whole(<<>>, 1)
    BY DEF Whole
<1> QED BY <1>1, <1>2, PackAssumption DEF PackFile, Chained, RowsTrue

LEMMA PackBegins == PackInit => PackInv
<1> SUFFICES ASSUME PackInit PROVE PackInv
    OBVIOUS
<1>1. PackTypeOK /\ y \in Nat
    <2>1. <<>> \in Seq(Cell) /\ <<>> \in Seq(1 .. Cap) /\ 1 \in 1 .. Cap + 1 /\ Len(<<>>) <= Records
        BY PackAssumption
    <2> QED BY <2>1, PackAssumption DEF PackInit, PackTypeOK
<1>2. \E s, e : PackFile(file, s, e) /\ (covered \/ RowsTrue(file, s)) /\ ~Whole(file, e)
    BY EmptyPack DEF PackInit
<1> QED BY <1>1, <1>2 DEF PackInit, PackInv

LEMMA PackOpens == ASSUME PackInv, pack_open PROVE PackInv'
<1>1. ~up /\ put = Nobody /\ y = 0 /\ emptying = FALSE /\ clear \in BOOLEAN /\ covered \in BOOLEAN
    BY DEF PackInv, PackTypeOK, pack_open
<1>2. PICK s, e : PackFile(file, s, e) /\ (covered \/ RowsTrue(file, s)) /\ ~Whole(file, e)
    BY <1>1 DEF PackInv
<1>3. Walk(file) = s /\ EndOf(file, s) = e
    BY <1>2, WalkIs DEF PackFile
<1>4. up' = TRUE /\ index' = s /\ end' = e /\ UNCHANGED <<file, put, y, clear, emptying, covered>>
    BY <1>3 DEF pack_open
<1>5. PackTypeOK' /\ y' \in Nat
    <2>1. s \in Seq(1 .. Cap) /\ Len(s) <= Records /\ e \in 1 .. Cap + 1 /\ file \in Seq(Cell)
        BY <1>2, PackTyped
    <2> QED BY <1>1, <1>4, <2>1 DEF PackTypeOK
<1>6. PackFile(file', index', end') /\ (covered' \/ RowsTrue(file', index')) /\ ~Whole(file', end')
    BY <1>2, <1>4
<1> QED BY <1>1, <1>4, <1>5, <1>6 DEF PackInv

\* The memory gone with the program.
LEMMA PackForgets ==
    ASSUME PackInv, up, Forgotten, file' = file, covered' = (covered \/ Covers) PROVE PackInv'
<1>1. PICK s, e : PackFile(file, s, e) /\ ~Whole(file, e) /\ (covered \/ Covers \/ RowsTrue(file, s))
    BY FileLeft
<1>2. /\ up' = FALSE /\ index' = <<>> /\ end' = 1 /\ put' = Nobody /\ y' = 0
      /\ clear' = FALSE /\ emptying' = FALSE
    BY DEF Forgotten
<1>3. covered' \in BOOLEAN /\ (covered' <=> (covered \/ Covers)) /\ file \in Seq(Cell)
    BY DEF PackInv, PackTypeOK, Covers
<1>4. PackTypeOK' /\ y' \in Nat
    <2>1. <<>> \in Seq(1 .. Cap) /\ 1 \in 1 .. Cap + 1 /\ Len(<<>>) <= Records
        BY PackAssumption
    <2> QED BY <1>2, <1>3, <2>1 DEF PackTypeOK
<1>5. PackFile(file', s, e) /\ (covered' \/ RowsTrue(file', s)) /\ ~Whole(file', e)
    BY <1>1, <1>3
<1> QED BY <1>2, <1>4, <1>5 DEF PackInv

\* Nothing of the file, the index or the put moves.
LEMMA PackRests ==
    ASSUME PackInv, UNCHANGED <<file, up, index, end, put, y, covered>>,
           clear' \in BOOLEAN, emptying' \in BOOLEAN, emptying' => up /\ put = Nobody
    PROVE  PackInv'
<1>1. PackTypeOK' /\ y' \in Nat
    BY DEF PackInv, PackTypeOK
<1>2. ~up => \E s, e : PackFile(file', s, e) /\ (covered' \/ RowsTrue(file', s)) /\ ~Whole(file', e)
    BY DEF PackInv
<1>3. up => PackFile(file', index', end') /\ (covered' \/ RowsTrue(file', index'))
    BY DEF PackInv
<1>4. up /\ ~covered /\ (put = Nobody \/ y = 0) => ~Whole(file', end')
    BY DEF PackInv
<1> QED BY <1>1, <1>2, <1>3, <1>4 DEF PackInv

LEMMA PutBeginsKeeps == ASSUME PackInv, NEW k \in Pictures, PutBegins(k) PROVE PackInv'
<1>1. /\ up /\ ~emptying /\ put = Nobody /\ y = 0 /\ Len(index) < Records /\ end + Size(k) <= Cap + 1
      /\ put' = k /\ UNCHANGED <<file, up, index, end, y, clear, emptying, covered>>
    BY DEF PutBegins, Busy, PackInv, PackTypeOK
<1>2. k # Nobody /\ Size(k) \in Nat /\ 0 <= Size(k)
    BY PackAssumption, SizeFacts
<1>3. PackTypeOK' /\ y' \in Nat
    BY <1>1, <1>2 DEF PackInv, PackTypeOK
<1>4. PackFile(file', index', end') /\ (covered' \/ RowsTrue(file', index'))
    BY <1>1 DEF PackInv
<1>5. ~covered' => ~Whole(file', end')
    BY <1>1 DEF PackInv
<1> QED BY <1>1, <1>3, <1>4, <1>5 DEF PackInv

\* What a write leaves of the cells before it, and of the length.
LEMMA CellWritten ==
    ASSUME PackInv, PutWrites
    PROVE  \E p \in Place :
              /\ p = end + y /\ p <= Len(file) + 1 /\ Len(file) \in Nat
              /\ file' \in Seq(Cell) /\ Len(file') \in Nat /\ p <= Len(file') /\ Len(file) <= Len(file')
              /\ file'[p] = [of |-> put, row |-> y]
              /\ \A q \in 1 .. Len(file') : q # p => q \in 1 .. Len(file) /\ file'[q] = file[q]
              /\ \A q \in 1 .. Len(file) : q \in 1 .. Len(file')
<1>1. /\ put # Nobody /\ put \in Pictures /\ up /\ y \in Nat /\ file \in Seq(Cell) /\ Len(file) \in Nat
      /\ y < Size(put)
    BY DEF PutWrites, PackInv, PackTypeOK
<1>2. end \in Place /\ end <= Len(file) + 1
    BY <1>1 DEF PackInv, PackFile, Chained
<1>3. PICK p \in Place : p = end + y
    BY <1>1, <1>2 DEF Place
<1>4. p <= Len(file) + 1
    <2>1. CASE y = 0
        BY <1>2, <1>3, <2>1 DEF Place
    <2>2. CASE y # 0
        <3>1. y - 1 \in 0 .. y - 1 /\ end + (y - 1) = p - 1
            BY ONLY <1>1, <1>2, <1>3, <2>2 DEF Place
        <3>2. end + (y - 1) <= Len(file)
            BY <1>1, <3>1 DEF PackInv
        <3> QED BY ONLY <1>1, <1>3, <3>1, <3>2 DEF Place
    <2> QED BY <2>1, <2>2
<1>5. PICK c : c = [of |-> put, row |-> y]
    OBVIOUS
<1>6. c \in Cell
    BY <1>1, <1>5 DEF Cell
<1>7. file' = IF p <= Len(file) THEN [file EXCEPT ![p] = c] ELSE Append(file, c)
    BY <1>3, <1>5 DEF PutWrites
<1>8. CASE p <= Len(file)
    <2>1. file' = [file EXCEPT ![p] = c] /\ p \in 1 .. Len(file)
        BY <1>1, <1>7, <1>8 DEF Place
    <2>2. file' \in Seq(Cell) /\ Len(file') = Len(file)
        BY ONLY <1>1, <1>6, <2>1
    <2>3. file'[p] = c /\ \A q \in 1 .. Len(file) : q # p => file'[q] = file[q]
        BY ONLY <1>1, <2>1
    <2> QED BY <1>1, <1>3, <1>5, <1>8, <2>2, <2>3
<1>9. CASE ~(p <= Len(file))
    <2>1. file' = Append(file, c) /\ p = Len(file) + 1
        BY <1>1, <1>4, <1>7, <1>9 DEF Place
    <2>2. /\ file' \in Seq(Cell) /\ Len(file') = Len(file) + 1 /\ file'[Len(file) + 1] = c
          /\ \A q \in 1 .. Len(file) : file'[q] = file[q]
        BY ONLY <1>1, <1>6, <2>1
    <2>3. \A q \in 1 .. Len(file') : q # p => q \in 1 .. Len(file)
        BY ONLY <1>1, <2>1, <2>2
    <2>4. file'[p] = c /\ p <= Len(file') /\ Len(file') \in Nat /\ Len(file) <= Len(file')
        BY ONLY <1>1, <2>1, <2>2
    <2>5. \A q \in 1 .. Len(file) : q \in 1 .. Len(file')
        BY ONLY <1>1, <2>2
    <2> QED BY <1>1, <1>3, <1>4, <1>5, <2>2, <2>3, <2>4, <2>5
<1> QED BY <1>8, <1>9

\* The records lie before it: none of them is touched.
LEMMA RecordsUntouched ==
    ASSUME PackInv, PutWrites, NEW i \in 1 .. Len(index)
    PROVE  /\ file'[index[i]] = file[index[i]] /\ Whole(file', index[i]) /\ Whole(file, index[i])
           /\ \A row \in 1 .. Rows[file[index[i]].of] : file'[index[i] + row] = file[index[i] + row]
<1>1. up /\ PackFile(file, index, end) /\ y \in Nat
    BY DEF PutWrites, PackInv, PackTypeOK
<1>2. PICK p \in Place : /\ p = end + y /\ Len(file) \in Nat /\ Len(file') \in Nat /\ Len(file) <= Len(file')
                         /\ \A q \in 1 .. Len(file') : q # p => q \in 1 .. Len(file) /\ file'[q] = file[q]
                         /\ \A q \in 1 .. Len(file) : q \in 1 .. Len(file')
    BY CellWritten
<1>3. PICK pos \in Place : pos = index[i]
    BY <1>1, PackPlaces
<1>4. PICK n \in Nat : n = Rows[file[pos].of]
    BY <1>1, <1>3, PackPlaces
<1>5. pos \in 1 .. Len(file) /\ end \in Place /\ pos + n < end /\ Whole(file, pos) /\ file[pos].row = 0
    BY <1>1, <1>3, <1>4, PackPlaces
<1>6. pos + n <= Len(file)
    BY <1>4, <1>5 DEF Whole
<1>7. ASSUME NEW row \in 0 .. n PROVE pos + row \in 1 .. Len(file) /\ pos + row # p
    BY ONLY <1>1, <1>2, <1>5, <1>6 DEF Place
<1>8. \A row \in 0 .. n : file'[pos + row] = file[pos + row]
    BY <1>2, <1>7
<1>9. file'[pos] = file[pos]
    <2>1. 0 \in 0 .. n /\ pos + 0 = pos
        BY ONLY pos \in Place, n \in Nat DEF Place
    <2> QED BY <1>8, <2>1
<1>10. Whole(file', pos)
    <2>1. pos <= Len(file') /\ pos + n <= Len(file')
        BY ONLY <1>2, <1>5, <1>6 DEF Place
    <2> QED BY <1>4, <1>5, <1>9, <2>1 DEF Whole
<1>11. \A row \in 1 .. n : row \in 0 .. n
    OBVIOUS
<1> QED BY <1>3, <1>4, <1>5, <1>8, <1>9, <1>10, <1>11

LEMMA PutWritesKeeps == ASSUME PackInv, PutWrites PROVE PackInv'
<1>1. /\ put # Nobody /\ put \in Pictures /\ up /\ y \in Nat /\ y < Size(put) /\ y' = y + 1
      /\ UNCHANGED <<up, index, end, put, clear, emptying, covered>>
      /\ end + Size(put) <= Cap + 1 /\ Len(index) < Records /\ Size(put) \in Nat
    BY SizeFacts DEF PutWrites, PackInv, PackTypeOK
<1>2. PackFile(file, index, end) /\ (covered \/ RowsTrue(file, index))
    BY <1>1 DEF PackInv
<1>3. /\ index \in Seq(Place) /\ end \in Place /\ Len(index) \in Nat /\ end <= Len(file) + 1
      /\ Len(index) <= Records /\ end <= Cap + 1
    BY <1>2 DEF PackFile, Chained
<1>4. PICK p \in Place :
              /\ p = end + y /\ p <= Len(file) + 1 /\ Len(file) \in Nat
              /\ file' \in Seq(Cell) /\ Len(file') \in Nat /\ p <= Len(file') /\ Len(file) <= Len(file')
              /\ file'[p] = [of |-> put, row |-> y]
              /\ \A q \in 1 .. Len(file') : q # p => q \in 1 .. Len(file) /\ file'[q] = file[q]
    BY CellWritten
<1>5. PackTypeOK' /\ y' \in Nat
    <2>1. y' <= Size(put) /\ y' \in Nat
        BY ONLY <1>1
    <2> QED BY <1>1, <1>4, <2>1 DEF PackInv, PackTypeOK
<1>6. Chained(file', index, end)
    <2>1. \A i \in 1 .. Len(index) :
             /\ Whole(file', index[i])
             /\ index[i] + Size(file'[index[i]].of) = IF i = Len(index) THEN end ELSE index[i + 1]
             /\ index[i] + Size(file'[index[i]].of) <= end
        BY <1>2, RecordsUntouched DEF PackFile, Chained
    <2>2. 1 = IF index = <<>> THEN end ELSE index[1]
        BY <1>2 DEF PackFile, Chained
    <2> QED BY <1>3, <2>1, <2>2 DEF Chained
<1>7. \A q \in end + 1 .. Len(file') : file'[q].row # 0
    <2> TAKE q \in end + 1 .. Len(file')
    <2>1. q \in Nat /\ q > end /\ q \in 1 .. Len(file')
        BY ONLY <1>3, <1>4, q \in end + 1 .. Len(file') DEF Place
    <2>2. CASE q = p
        BY <1>1, <1>3, <1>4, <2>1, <2>2 DEF Place
    <2>3. CASE q # p
        <3>1. q \in 1 .. Len(file) /\ file'[q] = file[q]
            BY <1>4, <2>1, <2>3
        <3>2. q \in end + 1 .. Len(file)
            BY ONLY <1>3, <1>4, <2>1, <3>1 DEF Place
        <3> QED BY <1>2, <3>1, <3>2 DEF PackFile
    <2> QED BY <2>2, <2>3
<1>8. end <= Len(file') /\ file'[end].row = 0 => end + Size(file'[end].of) <= Cap + 1 /\ Len(index) < Records
    <2>1. CASE y = 0
        BY <1>1, <1>3, <1>4, <2>1 DEF Place
    <2>2. CASE y # 0
        <3>1. SUFFICES ASSUME end <= Len(file'), file'[end].row = 0
                       PROVE  end + Size(file'[end].of) <= Cap + 1 /\ Len(index) < Records
            OBVIOUS
        <3>2. end \in 1 .. Len(file') /\ end # p
            BY ONLY <1>1, <1>3, <1>4, <2>2, <3>1 DEF Place
        <3>3. end <= Len(file) /\ file'[end] = file[end]
            BY <1>4, <3>2
        <3> QED BY <1>2, <3>1, <3>3 DEF PackFile
    <2> QED BY <2>1, <2>2
<1>9. end <= Len(file') + 1
    BY ONLY <1>3, <1>4 DEF Place
<1>10. PackFile(file', index, end)
    BY <1>3, <1>4, <1>6, <1>7, <1>8, <1>9 DEF PackFile
<1>11. covered \/ RowsTrue(file', index)
    <2>1. SUFFICES ASSUME RowsTrue(file, index) PROVE RowsTrue(file', index)
        BY <1>2
    <2> QED BY <2>1, RecordsUntouched DEF RowsTrue, RowsAt
<1>12. ASSUME NEW j \in 0 .. y' - 1
       PROVE  end + j <= Len(file') /\ file'[end + j] = [of |-> put, row |-> j]
    <2>1. j \in Nat /\ (j = y \/ j \in 0 .. y - 1)
        BY ONLY <1>1, j \in 0 .. y' - 1
    <2>2. CASE j = y
        BY <1>4, <2>2
    <2>3. CASE j \in 0 .. y - 1
        <3>1. end + j <= Len(file) /\ file[end + j] = [of |-> put, row |-> j]
            BY <1>1, <2>3 DEF PackInv
        <3>2. end + j # p /\ end + j \in 1 .. Len(file')
            <4>1. PICK m \in Nat : m = Len(file)
                BY <1>4
            <4>2. PICK l \in Nat : l = Len(file') /\ m <= l
                BY <1>4, <4>1
            <4>3. y \in Nat /\ end \in Place /\ p = end + y /\ end + j <= m
                BY <1>1, <1>3, <1>4, <3>1, <4>1
            <4>4. end + j # p /\ end + j \in 1 .. l
                BY ONLY <2>1, <2>3, <4>2, <4>3, m \in Nat, l \in Nat DEF Place
            <4> QED BY <4>2, <4>4
        <3> QED BY <1>4, <3>1, <3>2
    <2> QED BY <2>1, <2>2, <2>3
<1>13. y' # 0
    BY ONLY <1>1
<1>14. put' = put /\ up' = up /\ index' = index /\ end' = end /\ covered' = covered
    BY <1>1
<1> QED BY <1>1, <1>5, <1>10, <1>11, <1>12, <1>13, <1>14 DEF PackInv

\* The put under way has begun at the end of the records.
LEMMA PutHeader == ASSUME PackInv, put # Nobody, y # 0 PROVE file[end] = [of |-> put, row |-> 0] /\ end <= Len(file)
<1>1. y \in Nat /\ end \in Place
    BY DEF PackInv, PackTypeOK, Place
<1>2. 0 \in 0 .. y - 1 /\ end + 0 = end
    BY <1>1 DEF Place
<1>3. file[end + 0] = [of |-> put, row |-> 0] /\ end + 0 <= Len(file)
    BY <1>2 DEF PackInv
<1> QED BY <1>2, <1>3

LEMMA PutFailsKeeps == ASSUME PackInv, PutFails PROVE PackInv'
<1>1. /\ put # Nobody /\ put \in Pictures /\ up /\ ~emptying /\ y \in Nat /\ y < Size(put)
      /\ put' = Nobody /\ y' = 0 /\ UNCHANGED <<file, up, index, end, clear, emptying>>
    BY DEF PutFails, PackInv, PackTypeOK
<1>2. covered' \in BOOLEAN /\ (covered' <=> (covered \/ Covers))
    BY DEF PutFails, PackInv, PackTypeOK, Covers
<1>3. PackTypeOK' /\ y' \in Nat
    BY <1>1, <1>2 DEF PackInv, PackTypeOK
<1>4. PackFile(file', index', end') /\ (covered' \/ RowsTrue(file', index'))
    BY <1>1, <1>2 DEF PackInv
<1>5. ~covered' => ~Whole(file', end')
    <2>1. SUFFICES ASSUME ~covered, ~Covers, Whole(file, end) PROVE FALSE
        BY <1>1, <1>2
    <2>2. y # 0
        BY <1>1, <2>1 DEF PackInv
    <2>3. file[end] = [of |-> put, row |-> 0]
        BY <1>1, <2>2, PutHeader
    <2>4. end + Rows[put] <= Len(file)
        BY <2>1, <2>3 DEF Whole
    <2>5. y \in 1 .. Rows[put]
        BY <1>1, <2>2, SizeFacts
    <2> QED BY <1>1, <2>1, <2>4, <2>5 DEF Covers
<1> QED BY <1>1, <1>3, <1>4, <1>5 DEF PackInv

LEMMA PutEndsKeeps == ASSUME PackInv, PutEnds PROVE PackInv' /\ file[end].of = put
<1>1. /\ put # Nobody /\ put \in Pictures /\ up /\ ~emptying /\ y = Size(put)
      /\ index' = Append(index, end) /\ end' = end + Size(put)
      /\ put' = Nobody /\ y' = 0 /\ UNCHANGED <<file, up, clear, emptying, covered>>
    BY DEF PutEnds, PackInv, PackTypeOK
<1>2. Rows[put] \in Nat /\ y = Rows[put] + 1 /\ y # 0 /\ y \in Nat
    BY <1>1, SizeFacts
<1>3. file[end].of = put /\ file[end].row = 0
    BY <1>1, <1>2, PutHeader
<1>4. \A j \in 1 .. Rows[put] : j \in 0 .. y - 1
    BY <1>2
<1>5. RowsAt(file, end)
    BY <1>1, <1>3, <1>4 DEF PackInv, RowsAt
<1>6. Whole(file, end)
    <2>1. Rows[put] \in 0 .. y - 1
        BY <1>2
    <2>2. end + Rows[put] <= Len(file)
        BY <1>1, <2>1 DEF PackInv
    <2>3. end <= Len(file)
        BY <1>1, <1>2, PutHeader
    <2> QED BY <1>3, <2>2, <2>3 DEF Whole
<1>7. PackFile(file, index, end) /\ (covered \/ RowsTrue(file, index))
    BY <1>1 DEF PackInv
<1>8. PackFile(file, index', end') /\ ~Whole(file, end') /\ (covered \/ RowsTrue(file, index'))
    BY <1>1, <1>3, <1>5, <1>6, <1>7, RecordAdded
<1>9. PackTypeOK' /\ y' \in Nat
    <2>1. index' \in Seq(1 .. Cap) /\ Len(index') <= Records /\ end' \in 1 .. Cap + 1
        BY <1>8, PackTyped
    <2> QED BY <1>1, <2>1 DEF PackInv, PackTypeOK
<1>10. PackFile(file', index', end') /\ ~Whole(file', end') /\ (covered' \/ RowsTrue(file', index'))
    BY <1>1, <1>8
<1> QED BY <1>1, <1>3, <1>9, <1>10 DEF PackInv

LEMMA ClearEndsKeeps == ASSUME PackInv, ClearEnds PROVE PackInv'
<1>1. /\ put = Nobody /\ y = 0 /\ up /\ emptying' = FALSE /\ file' = <<>> /\ index' = <<>> /\ end' = 1
      /\ covered' = FALSE /\ UNCHANGED <<up, put, y, clear>>
    BY DEF ClearEnds, PackInv, PackTypeOK
<1>2. PackTypeOK' /\ y' \in Nat
    <2>1. <<>> \in Seq(Cell) /\ <<>> \in Seq(1 .. Cap) /\ 1 \in 1 .. Cap + 1 /\ Len(<<>>) <= Records
        BY PackAssumption
    <2> QED BY <1>1, <2>1 DEF PackInv, PackTypeOK
<1>3. PackFile(file', index', end') /\ ~Whole(file', end') /\ RowsTrue(file', index')
    BY <1>1, EmptyPack
<1> QED BY <1>1, <1>2, <1>3 DEF PackInv

LEMMA PackStep == PackInv /\ [PackNext]_packVars => PackInv'
<1> SUFFICES ASSUME PackInv, [PackNext]_packVars PROVE PackInv'
    OBVIOUS
<1>1. CASE pack_open
    BY <1>1, PackOpens
<1>2. CASE pack_close
    <2>1. up /\ put = Nobody /\ Forgotten /\ file' = file /\ covered' = covered /\ covered \in BOOLEAN
        BY <1>2 DEF pack_close, PackInv, PackTypeOK
    <2>2. ~Covers
        BY <2>1 DEF Covers
    <2>3. covered' = (covered \/ Covers)
        BY <2>1, <2>2
    <2> QED BY <2>1, <2>3, PackForgets
<1>3. CASE PowerIsLost
    BY <1>3, PackForgets DEF PowerIsLost
<1>4. CASE \E k \in Pictures : PutBegins(k)
    BY <1>4, PutBeginsKeeps
<1>5. CASE PutWrites
    BY <1>5, PutWritesKeeps
<1>6. CASE PutFails
    BY <1>6, PutFailsKeeps
<1>7. CASE PutEnds
    BY <1>7, PutEndsKeeps
<1>8. CASE posters_cache_clear
    <2>1. UNCHANGED <<file, up, index, end, put, y, covered>> /\ clear' = TRUE /\ emptying' = emptying
        BY <1>8 DEF posters_cache_clear, memory
    <2>2. emptying \in BOOLEAN /\ (emptying => up /\ put = Nobody)
        BY DEF PackInv, PackTypeOK
    <2> QED BY <2>1, <2>2, PackRests
<1>9. CASE ClearBegins
    <2>1. /\ UNCHANGED <<file, up, index, end, put, y, covered>> /\ clear' = FALSE /\ emptying' = TRUE
          /\ up /\ put = Nobody
        BY <1>9 DEF ClearBegins, Busy, memory
    <2> QED BY <2>1, PackRests
<1>10. CASE ClearEnds
    BY <1>10, ClearEndsKeeps
<1>11. CASE UNCHANGED packVars
    <2>1. UNCHANGED <<file, up, index, end, put, y, covered>> /\ clear' = clear /\ emptying' = emptying
        BY <1>11 DEF packVars, memory
    <2>2. clear \in BOOLEAN /\ emptying \in BOOLEAN /\ (emptying => up /\ put = Nobody)
        BY DEF PackInv, PackTypeOK
    <2> QED BY <2>1, <2>2, PackRests
<1> QED BY <1>1, <1>2, <1>3, <1>4, <1>5, <1>6, <1>7, <1>8, <1>9, <1>10, <1>11 DEF PackNext

LEMMA PackHolds == PackInv => PackIsTrue
<1> SUFFICES ASSUME PackInv, ~covered, NEW k \in Pictures, NEW i \in Found(k), NEW row \in 1 .. Rows[k]
             PROVE  index[i] + row <= Len(file) /\ file[index[i] + row] = [of |-> k, row |-> row]
    BY DEF PackIsTrue
<1>1. i \in 1 .. Len(index) /\ file[index[i]].of = k
    BY DEF Found
<1>2. up
    BY <1>1 DEF PackInv, PackTypeOK
<1>3. PackFile(file, index, end) /\ RowsTrue(file, index)
    BY <1>2 DEF PackInv
<1>4. /\ index[i] \in Place /\ Whole(file, index[i]) /\ file \in Seq(Cell) /\ Len(file) \in Nat
      /\ Rows[k] \in Nat
    BY <1>1, <1>3, PackPlaces, SizeFacts
<1>5. index[i] + Rows[k] <= Len(file)
    BY <1>1, <1>4 DEF Whole
<1>6. index[i] + row <= Len(file)
    BY ONLY <1>4, <1>5, row \in 1 .. Rows[k] DEF Place
<1> QED BY <1>1, <1>3, <1>6 DEF RowsTrue, RowsAt

\* The index stays inside the pack and the worker's states stay apart, for any
\* pictures of any rows and a pack of any room.
THEOREM PackTypeCorrect == PackSpec => []PackTypeOK
<1>1. PackInv => PackTypeOK
    BY DEF PackInv
<1> QED BY <1>1, PackBegins, PackStep, PTL DEF PackSpec

\* What pack_get() gives is the picture that was put, whatever power was lost
\* and whichever writes failed, until a put was cut short over a longer one's
\* rows.
THEOREM PackStaysTrue == PackSpec => []PackIsTrue
BY PackBegins, PackStep, PackHolds, PTL DEF PackSpec

-----------------------------------------------------------------------------
(* The pack keeps what it promises the posters, as Cache has it.           *)

NowKept == KeysAt(IF up THEN index ELSE Walk(file))
NowAsked == clear \/ emptying

LEMMA KeysArePictures == ASSUME NEW s, NEW e, PackFile(file, s, e) PROVE KeysAt(s) \subseteq Pictures
BY PackPlaces DEF KeysAt

LEMMA CacheBegins == PackInit => CacheOfPack!Init
<1> SUFFICES ASSUME PackInit PROVE NowKept \in SUBSET Pictures /\ NowAsked = FALSE
    BY DEF CacheOfPack!Init, NowKept, NowAsked
<1>1. Walk(file) = <<>>
    <2>1. Len(<<>>) <= Records /\ <<>> \in Seq(Cell) /\ Chained(<<>>, <<>>, 1) /\ ~Whole(<<>>, 1)
        BY EmptyPack DEF PackFile
    <2>2. file = <<>>
        BY DEF PackInit
    <2> QED BY <2>1, <2>2, WalkIs
<1>2. NowKept = {}
    BY <1>1 DEF NowKept, KeysAt, PackInit
<1> QED BY <1>2 DEF NowAsked, PackInit

\* What is kept is what the records hold, and nothing else moves it.
LEMMA KeptStays ==
    ASSUME UNCHANGED <<file, up, index>> PROVE NowKept' = NowKept
BY DEF NowKept, KeysAt

LEMMA CacheLapses ==
    ASSUME PackInv, up, Forgotten, file' = file
    PROVE  NowAsked' = FALSE /\ \E more \in SUBSET Pictures : NowKept' = NowKept \cup more
<1>1. PICK s, e : PackFile(file, s, e) /\ ~Whole(file, e) /\ KeysAt(index) \subseteq KeysAt(s)
    BY FileLeft
<1>2. Walk(file) = s
    BY <1>1, WalkIs DEF PackFile
<1>3. NowKept = KeysAt(index)
    BY DEF NowKept
<1>4. NowKept' = KeysAt(s)
    <2>1. Walk(file') = s /\ up' = FALSE
        BY <1>2 DEF Forgotten
    <2> QED BY <2>1 DEF NowKept, KeysAt
<1>5. KeysAt(s) \in SUBSET Pictures /\ KeysAt(s) = KeysAt(index) \cup KeysAt(s)
    BY <1>1, KeysArePictures
<1> QED BY <1>3, <1>4, <1>5 DEF NowAsked, Forgotten

LEMMA CacheStep == PackInv /\ [PackNext]_packVars => [CacheOfPack!Next]_(CacheOfPack!cacheVars)
<1> SUFFICES ASSUME PackInv, [PackNext]_packVars
             PROVE  \/ \E k \in Pictures : NowKept' = NowKept \cup {k} /\ NowAsked' = NowAsked
                    \/ NowAsked' = TRUE /\ NowKept' = NowKept
                    \/ NowAsked /\ NowKept' = {} /\ NowAsked' \in BOOLEAN
                    \/ NowAsked' = FALSE /\ \E more \in SUBSET Pictures : NowKept' = NowKept \cup more
                    \/ NowKept' = NowKept /\ NowAsked' = NowAsked
    BY Zenon DEF CacheOfPack!Next, CacheOfPack!cacheVars, CacheOfPack!Keep, CacheOfPack!Ask, CacheOfPack!Empty,
          CacheOfPack!Lapse, NowKept, NowAsked
<1>1. CASE pack_open
    <2>1. ~up /\ up' = TRUE /\ index' = Walk(file) /\ file' = file /\ NowAsked' = NowAsked
        BY <1>1 DEF pack_open, NowAsked
    <2>2. NowKept' = NowKept
        BY <2>1 DEF NowKept, KeysAt
    <2> QED BY <2>1, <2>2
<1>2. CASE pack_close
    BY <1>2, CacheLapses DEF pack_close
<1>3. CASE PowerIsLost
    BY <1>3, CacheLapses DEF PowerIsLost
<1>4. CASE \E k \in Pictures : PutBegins(k)
    BY <1>4, KeptStays DEF PutBegins, NowAsked
<1>5. CASE PutWrites
    <2>1. up /\ up' = up /\ index' = index /\ NowAsked' = NowAsked
        BY <1>5 DEF PutWrites, PackInv, PackTypeOK, NowAsked
    <2>2. \A i \in 1 .. Len(index) : file'[index[i]] = file[index[i]]
        BY <1>5, RecordsUntouched
    <2>3. NowKept' = NowKept
        BY <2>1, <2>2 DEF NowKept, KeysAt
    <2> QED BY <2>1, <2>3
<1>6. CASE PutFails
    BY <1>6, KeptStays DEF PutFails, NowAsked
<1>7. CASE PutEnds
    <2>1. /\ up /\ up' = up /\ file' = file /\ index' = Append(index, end) /\ NowAsked' = NowAsked
          /\ put \in Pictures /\ file[end].of = put
        BY <1>7, PutEndsKeeps DEF PutEnds, PackInv, PackTypeOK, NowAsked
    <2>2. index \in Seq(1 .. Cap) /\ end \in 1 .. Cap + 1 /\ Len(index) \in Nat
        BY DEF PackInv, PackTypeOK
    <2>3. PICK s : s = Append(index, end)
        OBVIOUS
    <2>4. /\ Len(s) = Len(index) + 1 /\ s[Len(index) + 1] = end
          /\ \A i \in 1 .. Len(index) : s[i] = index[i]
        BY <2>2, <2>3
    <2>5. \A i \in 1 .. Len(s) : i \in 1 .. Len(index) \/ i = Len(index) + 1
        BY <2>2, <2>4
    <2>6. \A i \in 1 .. Len(index) : i \in 1 .. Len(s)
        BY <2>2, <2>4
    <2>7. Len(index) + 1 \in 1 .. Len(s)
        BY <2>2, <2>4
    <2>8. KeysAt(s) = KeysAt(index) \cup {put}
        BY <2>1, <2>4, <2>5, <2>6, <2>7 DEF KeysAt
    <2>9. NowKept = KeysAt(index) /\ NowKept' = KeysAt(s)
        BY <2>1, <2>3 DEF NowKept, KeysAt
    <2> QED BY <2>1, <2>8, <2>9
<1>8. CASE posters_cache_clear
    BY <1>8, KeptStays DEF posters_cache_clear, memory, NowAsked
<1>9. CASE ClearBegins
    <2>1. clear /\ emptying' = TRUE /\ NowKept' = NowKept
        BY <1>9, KeptStays DEF ClearBegins, memory
    <2> QED BY <2>1 DEF NowAsked
<1>10. CASE ClearEnds
    <2>1. emptying /\ index' = <<>> /\ up /\ up' = up /\ clear' = clear /\ emptying' = FALSE /\ clear \in BOOLEAN
        BY <1>10 DEF ClearEnds, PackInv, PackTypeOK
    <2>2. NowKept' = {}
        BY <2>1 DEF NowKept, KeysAt
    <2> QED BY <2>1, <2>2 DEF NowAsked
<1>11. CASE UNCHANGED packVars
    BY <1>11, KeptStays DEF packVars, memory, NowAsked
<1> QED BY <1>1, <1>2, <1>3, <1>4, <1>5, <1>6, <1>7, <1>8, <1>9, <1>10, <1>11 DEF PackNext

\* The pack on the card is the cache that grows until it was asked to be
\* emptied, over lost power, failed writes and launches.
THEOREM PackImplementsCache == PackSpec => CacheSpec
BY CacheBegins, CacheStep, PackBegins, PackStep, PTL DEF PackSpec, CacheSpec, CacheOfPack!Spec
=============================================================================
