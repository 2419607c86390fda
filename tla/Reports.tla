------------------------------- MODULE Reports -------------------------------
(***************************************************************************)
(* model/reports.c: what the player tells the server, in a queue of        *)
(* REPORTS_MAX jobs that the player's page fills and a worker of its own   *)
(* drains, one request at a time, while the library is connected.          *)
(*                                                                         *)
(* A report carries the number of the reports_send() that made it, which   *)
(* stands for the position it reports.                                     *)
(***************************************************************************)
EXTENDS Naturals, Sequences, TLAPS

CONSTANTS
    Sessions,   \* play sessions
    ReportsMax,       \* REPORTS_MAX
    MaxCalls    \* bound: calls of reports_send

ASSUME ReportsAssumption == ReportsMax \in Nat \ {0} /\ MaxCalls \in Nat

Whats == {"START", "PROGRESS", "STOP", "ENCODING_OFF"}
Jobs  == [what : Whats, session : Sessions, call : 1 .. MaxCalls]

VARIABLES
    queue,      \* g_q[0 .. g_n)
    draining,   \* serve() is in its loop
    job,        \* the job whose request is on the wire, in a set
    ready,      \* session_stage() is LIB_STAGE_READY
    reporting,  \* pref(PREF_REPORT_PLAYBACK)
    calls,      \* calls of reports_send so far
    told,       \* history: those of them the setting did not silence
    sent,       \* history: the jobs whose requests were made, in order
    lost,       \* history: the jobs that found the queue full
    replaced    \* history: the PROGRESSes a later one took the place of

reportsVars == <<queue, draining, job, ready, reporting, calls, told, sent, lost, replaced>>

In(s) == {s[i] : i \in DOMAIN s}

ReportsTypeOK ==
    /\ queue \in Seq(Jobs) /\ Len(queue) <= ReportsMax
    /\ {draining, ready, reporting} \subseteq BOOLEAN
    /\ job \subseteq Jobs
    /\ calls \in 0 .. MaxCalls
    /\ told \subseteq 1 .. calls
    /\ sent \in Seq(Jobs)
    /\ lost \subseteq Jobs /\ replaced \subseteq Jobs

ReportsInit ==
    /\ queue = <<>>
    /\ draining = FALSE
    /\ job = {}
    /\ ready \in BOOLEAN
    /\ reporting \in BOOLEAN
    /\ calls = 0
    /\ told = {}
    /\ sent = <<>>
    /\ lost = {} /\ replaced = {}

-----------------------------------------------------------------------------
(* reports_send().                                                         *)

\* A slip: any report takes the place of one of its own kind.
SameProgress_SameKind(what) ==
    {i \in DOMAIN queue : queue[i].what = what}

\* The places in the queue a report of this kind would take over.
SameProgress(what) ==
    {i \in DOMAIN queue : what = "PROGRESS" /\ queue[i].what = "PROGRESS"}

\* The setting silences all but the teardown of the encoder.
Told(what) == reporting \/ what = "ENCODING_OFF"

\* A slip: one more than the queue has room for.
Enqueue_OneMore(j) ==
    \/ /\ SameProgress(j.what) = {}
       /\ Len(queue) <= ReportsMax
       /\ queue' = Append(queue, j)
       /\ UNCHANGED <<lost, replaced>>
    \/ \E i \in SameProgress(j.what) :
          /\ queue' = [queue EXCEPT ![i] = j]
          /\ replaced' = replaced \cup {queue[i]}
          /\ UNCHANGED lost

\* The locked part: a PROGRESS takes the place of the one that waits, other
\* reports go last, and nothing goes into a full queue.
Enqueue(j) ==
    \/ /\ SameProgress(j.what) = {}
       /\ Len(queue) < ReportsMax
       /\ queue' = Append(queue, j)
       /\ UNCHANGED <<lost, replaced>>
    \/ \E i \in SameProgress(j.what) :
          /\ queue' = [queue EXCEPT ![i] = j]
          /\ replaced' = replaced \cup {queue[i]}
          /\ UNCHANGED lost
    \/ /\ SameProgress(j.what) = {}
       /\ Len(queue) = ReportsMax
       /\ lost' = lost \cup {j}
       /\ UNCHANGED <<queue, replaced>>

reports_send(what, session) ==
    /\ calls < MaxCalls
    /\ calls' = calls + 1
    /\ IF Told(what)
          THEN /\ Enqueue([what |-> what, session |-> session, call |-> calls + 1])
               /\ told' = told \cup {calls + 1}
          ELSE UNCHANGED <<queue, told, lost, replaced>>
    /\ UNCHANGED <<draining, job, ready, reporting, sent>>

-----------------------------------------------------------------------------
(* The worker: serve().                                                    *)

\* A slip: the worker waits for a whole seek's worth.
Begins_Full ==
    /\ ~draining
    /\ Len(queue) = ReportsMax
    /\ ready
    /\ draining' = TRUE
    /\ UNCHANGED <<queue, job, ready, reporting, calls, told, sent, lost, replaced>>

\* A pass with something to send and a connection to send it over.
Begins ==
    /\ ~draining
    /\ queue # <<>>
    /\ ready
    /\ draining' = TRUE
    /\ UNCHANGED <<queue, job, ready, reporting, calls, told, sent, lost, replaced>>

\* A slip: the newest goes first.
reports_take_Newest ==
    /\ draining
    /\ job = {}
    /\ queue # <<>>
    /\ job' = {queue[Len(queue)]}
    /\ queue' = SubSeq(queue, 1, Len(queue) - 1)
    /\ sent' = Append(sent, queue[Len(queue)])
    /\ UNCHANGED <<draining, ready, reporting, calls, told, lost, replaced>>

\* reports_take() gives the oldest, and its request goes out.
reports_take ==
    /\ draining
    /\ job = {}
    /\ queue # <<>>
    /\ job' = {Head(queue)}
    /\ queue' = Tail(queue)
    /\ sent' = Append(sent, Head(queue))
    /\ UNCHANGED <<draining, ready, reporting, calls, told, lost, replaced>>

\* The request comes back. One that failed is logged and not made again.
Answers ==
    /\ job # {}
    /\ job' = {}
    /\ UNCHANGED <<queue, draining, ready, reporting, calls, told, sent, lost, replaced>>

\* reports_take() finds nothing: the pass is over. It never looked at the
\* connection again.
Ends ==
    /\ draining
    /\ job = {}
    /\ queue = <<>>
    /\ draining' = FALSE
    /\ UNCHANGED <<queue, job, ready, reporting, calls, told, sent, lost, replaced>>

Serve == Begins \/ reports_take \/ Answers \/ Ends

\* The library connects, or its link goes.
StageMoves ==
    /\ ready' = ~ready
    /\ UNCHANGED <<queue, draining, job, reporting, calls, told, sent, lost, replaced>>

\* The viewer changes the setting.
PrefMoves ==
    /\ reporting' = ~reporting
    /\ UNCHANGED <<queue, draining, job, ready, calls, told, sent, lost, replaced>>

-----------------------------------------------------------------------------

ReportsNext ==
    \/ \E w \in Whats, s \in Sessions : reports_send(w, s)
    \/ Serve
    \/ StageMoves
    \/ PrefMoves

ReportsSpec == ReportsInit /\ [][ReportsNext]_reportsVars

\* The worker's passes go on, and a request comes back or times out.
ReportsFairSpec == ReportsSpec /\ WF_reportsVars(Serve)

-----------------------------------------------------------------------------
(* Properties.                                                             *)

\* All that went out or waits, in the order the server gets it.
Line == sent \o queue

\* reports.c: "Oldest first: a seek's stop and start must reach the server
\* in order". STARTs, STOPs and teardowns are made in the order they were
\* reported, whatever is replaced between them, and nothing older comes after
\* one; and the PROGRESSes are in order among themselves, so the position the
\* server has last is the last one told.
InOrder ==
    \A i, j \in DOMAIN Line :
        /\ i < j
        /\ Line[i].what # "PROGRESS" \/ Line[j].what = "PROGRESS"
        => Line[i].call < Line[j].call

\* Every report that was not silenced is accounted for: it waits, or its
\* request was made, or it found the queue full, or it is a PROGRESS with a
\* later one in its stead. No other kind is displaced by what comes after.
Accounted ==
    /\ told = {j.call : j \in In(Line) \cup lost \cup replaced}
    /\ \A j \in replaced :
          /\ j.what = "PROGRESS"
          /\ \E k \in In(Line) : k.what = "PROGRESS" /\ k.call > j.call

\* The reports reach the server in order, and none vanishes.
ReportsKept == InOrder /\ Accounted

\* Once the connection is there for good no report waits for ever: the queue
\* is empty again and again, unless the connection is lost again and again.
Drained == []<>(queue = <<>> \/ ~ready)

-----------------------------------------------------------------------------
(* The proof. What went out and what waits are one line; a step puts a job  *)
(* last in it, or over the one PROGRESS that waits, or only moves the join. *)

LineIs(l, n, c) ==
    /\ \A i \in DOMAIN l : l[i].call <= c
    /\ \A i, j \in DOMAIN l :
          i > n /\ j > n /\ l[i].what = "PROGRESS" /\ l[j].what = "PROGRESS" => i = j
    /\ \A i, j \in DOMAIN l :
          i < j /\ (l[i].what # "PROGRESS" \/ l[j].what = "PROGRESS") => l[i].call < l[j].call

KeptInv ==
    /\ queue \in Seq(Jobs) /\ sent \in Seq(Jobs) /\ replaced \subseteq Jobs
    /\ calls \in Nat
    /\ LineIs(Line, Len(sent), calls)
    /\ Accounted

LEMMA JoinAppend ==
  ASSUME NEW T, NEW s \in Seq(T), NEW q \in Seq(T), NEW x \in T
  PROVE  LET l == s \o q  m == s \o Append(q, x)
         IN  /\ l \in Seq(T) /\ Len(m) = Len(l) + 1
             /\ m[Len(m)] = x /\ \A a \in 1 .. Len(l) : m[a] = l[a]
BY SMT

LEMMA JoinMoves ==
  ASSUME NEW T, NEW s \in Seq(T), NEW q \in Seq(T), q # <<>>
  PROVE  /\ Append(s, Head(q)) \o Tail(q) = s \o q
         /\ Append(s, Head(q)) \in Seq(T) /\ Tail(q) \in Seq(T)
         /\ Len(Append(s, Head(q))) = Len(s) + 1
BY SMT

LEMMA JoinReplace ==
  ASSUME NEW T, NEW s \in Seq(T), NEW q \in Seq(T), NEW i \in DOMAIN q, NEW x \in T
  PROVE  LET l == s \o q  m == s \o [q EXCEPT ![i] = x]
         IN  /\ [q EXCEPT ![i] = x] \in Seq(T)
             /\ l \in Seq(T) /\ Len(m) = Len(l) /\ Len(s) + i \in 1 .. Len(l)
             /\ l[Len(s) + i] = q[i] /\ m[Len(s) + i] = x
             /\ \A a \in 1 .. Len(l) : a # Len(s) + i => m[a] = l[a]
<1> DEFINE r == [q EXCEPT ![i] = x]
<1>1. r \in Seq(T) /\ Len(r) = Len(q) /\ i \in 1 .. Len(q)
  OBVIOUS
<1>2. r[i] = x /\ \A a \in 1 .. Len(q) : a # i => r[a] = q[a]
  OBVIOUS
<1> HIDE DEF r
<1>3. /\ s \o q \in Seq(T) /\ Len(s \o r) = Len(s \o q)
      /\ Len(s) + i \in 1 .. Len(s \o q)
  BY <1>1
<1>4. (s \o q)[Len(s) + i] = q[i] /\ (s \o r)[Len(s) + i] = x
  BY <1>1, <1>2
<1>5. ASSUME NEW a \in 1 .. Len(s \o q), a # Len(s) + i PROVE (s \o r)[a] = (s \o q)[a]
  <2>1. CASE a <= Len(s)
    BY <1>1, <2>1
  <2>2. CASE a > Len(s)
    <3>1. a - Len(s) \in 1 .. Len(q) /\ a - Len(s) # i
      BY <1>5, <2>2
    <3>2. r[a - Len(s)] = q[a - Len(s)]
      BY <1>2, <3>1
    <3> QED
      BY <1>1, <2>2, <3>1, <3>2
  <2> QED
    BY <1>3, <2>1, <2>2
<1> QED
  BY <1>1, <1>3, <1>4, <1>5 DEF r

LEMMA CallsAreNumbers ==
  ASSUME NEW l \in Seq(Jobs), NEW a \in 1 .. Len(l)
  PROVE  l[a] \in Jobs /\ l[a].call \in Nat
<1>1. l[a] \in Jobs
  OBVIOUS
<1> QED
  BY <1>1, ReportsAssumption DEF Jobs

LEMMA LastKeepsLine ==
  ASSUME NEW l \in Seq(Jobs), NEW m \in Seq(Jobs), NEW n \in Nat, NEW c \in Nat,
         LineIs(l, n, c),
         Len(m) = Len(l) + 1, m[Len(m)].call = c + 1,
         \A a \in 1 .. Len(l) : m[a] = l[a],
         m[Len(m)].what = "PROGRESS" => \A a \in 1 .. Len(l) : a > n => l[a].what # "PROGRESS"
  PROVE  LineIs(m, n, c + 1)
<1>1. DOMAIN l = 1 .. Len(l) /\ DOMAIN m = 1 .. Len(l) + 1
  OBVIOUS
<1>2. \A a \in 1 .. Len(l) : l[a].call \in Nat /\ l[a].call <= c /\ m[a] = l[a]
  BY <1>1, CallsAreNumbers DEF LineIs
<1>3. \A a \in 1 .. Len(l) + 1 : a \in 1 .. Len(l) \/ a = Len(m)
  OBVIOUS
<1>4. \A i \in DOMAIN m : m[i].call <= c + 1
  BY <1>1, <1>2, <1>3
<1>5. ASSUME NEW i \in DOMAIN m, NEW j \in DOMAIN m, i > n, j > n,
             m[i].what = "PROGRESS", m[j].what = "PROGRESS"
      PROVE  i = j
  BY <1>1, <1>2, <1>3, <1>5 DEF LineIs
<1>6. ASSUME NEW i \in DOMAIN m, NEW j \in DOMAIN m, i < j,
             m[i].what # "PROGRESS" \/ m[j].what = "PROGRESS"
      PROVE  m[i].call < m[j].call
  BY <1>1, <1>2, <1>3, <1>6 DEF LineIs
<1> QED
  BY <1>4, <1>5, <1>6 DEF LineIs

LEMMA OverKeepsLine ==
  ASSUME NEW l \in Seq(Jobs), NEW m \in Seq(Jobs), NEW n \in Nat, NEW c \in Nat,
         LineIs(l, n, c),
         NEW p \in 1 .. Len(l), p > n,
         l[p].what = "PROGRESS", m[p].what = "PROGRESS", m[p].call = c + 1,
         Len(m) = Len(l), \A a \in 1 .. Len(l) : a # p => m[a] = l[a]
  PROVE  LineIs(m, n, c + 1)
<1>1. DOMAIN l = 1 .. Len(l) /\ DOMAIN m = 1 .. Len(l)
  OBVIOUS
<1>2. \A a \in 1 .. Len(l) : l[a].call \in Nat /\ l[a].call <= c
  BY <1>1, CallsAreNumbers DEF LineIs
<1>3. \A a \in 1 .. Len(l) : m[a].what = "PROGRESS" <=> l[a].what = "PROGRESS"
  OBVIOUS
<1>4. \A i \in DOMAIN m : m[i].call <= c + 1
  BY <1>1, <1>2
<1>5. ASSUME NEW i \in DOMAIN m, NEW j \in DOMAIN m, i > n, j > n,
             m[i].what = "PROGRESS", m[j].what = "PROGRESS"
      PROVE  i = j
  BY <1>1, <1>3, <1>5 DEF LineIs
<1>6. ASSUME NEW i \in DOMAIN m, NEW j \in DOMAIN m, i < j,
             m[i].what # "PROGRESS" \/ m[j].what = "PROGRESS"
      PROVE  m[i].call < m[j].call
  <2>1. i # p
    BY <1>1, <1>3, <1>6 DEF LineIs
  <2>2. CASE j = p
    BY <1>1, <1>2, <2>1, <2>2
  <2>3. CASE j # p
    BY <1>1, <1>3, <1>6, <2>1, <2>3 DEF LineIs
  <2> QED
    BY <2>2, <2>3
<1> QED
  BY <1>4, <1>5, <1>6 DEF LineIs

\* What reports_send() does to the queue keeps the line and the account.
LEMMA EnqueueKeeps ==
  ASSUME KeptInv, NEW j \in Jobs, j.call = calls + 1, calls' = calls + 1, sent' = sent,
         Enqueue(j), told' = told \cup {calls + 1}
  PROVE  KeptInv'
<1> DEFINE n == Len(sent)
<1>1. queue \in Seq(Jobs) /\ sent \in Seq(Jobs) /\ calls \in Nat /\ n \in Nat
  BY DEF KeptInv
<1>2. Line \in Seq(Jobs) /\ DOMAIN Line = 1 .. Len(Line) /\ LineIs(Line, n, calls)
  BY <1>1 DEF Line, KeptInv
<1>3. \A k \in In(Line) : k.call \in Nat /\ k.call <= calls
  BY <1>2, CallsAreNumbers DEF In, LineIs
<1>4. CASE SameProgress(j.what) = {} /\ queue' = Append(queue, j) /\ UNCHANGED <<lost, replaced>>
  <2>1. /\ Line' \in Seq(Jobs) /\ queue' \in Seq(Jobs)
        /\ Len(Line') = Len(Line) + 1 /\ Line'[Len(Line')] = j
        /\ \A a \in 1 .. Len(Line) : Line'[a] = Line[a]
    BY <1>1, <1>4, JoinAppend DEF Line
  <2>2. ASSUME j.what = "PROGRESS", NEW a \in 1 .. Len(Line), a > n
        PROVE  Line[a].what # "PROGRESS"
    <3>1. a - n \in DOMAIN queue /\ Line[a] = queue[a - n]
      BY <1>1, <2>2 DEF Line
    <3> QED
      BY <1>4, <2>2, <3>1 DEF SameProgress
  <2>3. LineIs(Line', n, calls + 1)
    BY <1>1, <1>2, <2>1, <2>2, LastKeepsLine
  <2>4. In(Line') = In(Line) \cup {j}
    BY <1>2, <2>1 DEF In
  <2>5. Accounted'
    BY <1>4, <2>4 DEF KeptInv, Accounted
  <2> QED
    BY <1>1, <1>4, <2>1, <2>3, <2>5 DEF KeptInv
<1>5. ASSUME NEW i \in SameProgress(j.what), queue' = [queue EXCEPT ![i] = j],
             replaced' = replaced \cup {queue[i]}, UNCHANGED lost
      PROVE  KeptInv'
  <2> DEFINE p == n + i
  <2>1. i \in DOMAIN queue /\ queue[i].what = "PROGRESS" /\ j.what = "PROGRESS"
    BY <1>5 DEF SameProgress
  <2>2. /\ queue' \in Seq(Jobs) /\ Len(Line') = Len(Line) /\ p \in 1 .. Len(Line) /\ p > n
        /\ Line[p] = queue[i] /\ Line'[p] = j
        /\ \A a \in 1 .. Len(Line) : a # p => Line'[a] = Line[a]
    BY <1>1, <1>5, <2>1, JoinReplace DEF Line
  <2>3. Line' \in Seq(Jobs)
    BY <1>1, <1>5, <2>2 DEF Line
  <2> HIDE DEF p
  <2>4. LineIs(Line', n, calls + 1)
    BY <1>1, <1>2, <2>1, <2>2, <2>3, OverKeepsLine
  <2>5. DOMAIN Line' = 1 .. Len(Line)
    BY <2>2, <2>3
  <2>6. In(Line') \cup {Line[p]} = In(Line) \cup {j} /\ Line[p] \in In(Line) /\ j \in In(Line')
    BY <1>2, <2>2, <2>5 DEF In
  <2>7. told' = {k.call : k \in In(Line') \cup lost' \cup replaced'}
    BY <1>5, <2>2, <2>6 DEF KeptInv, Accounted
  <2>8. ASSUME NEW k \in replaced'
        PROVE  k.what = "PROGRESS" /\ k.call < calls + 1
    <3>1. CASE k = queue[i]
      BY <1>1, <1>3, <2>1, <2>2, <2>6, <3>1
    <3>2. CASE k \in replaced
      <4>1. k.call \in Nat
        BY <3>2, ReportsAssumption DEF KeptInv, Jobs
      <4>2. PICK g \in In(Line) : k.what = "PROGRESS" /\ g.call > k.call
        BY <3>2 DEF KeptInv, Accounted
      <4> QED
        BY <1>1, <1>3, <4>1, <4>2
    <3> QED
      BY <1>5, <2>8, <3>1, <3>2
  <2>9. Accounted'
    BY <2>1, <2>6, <2>7, <2>8 DEF Accounted
  <2>10. replaced' \subseteq Jobs
    BY <1>1, <1>5, <2>1 DEF KeptInv
  <2> QED
    BY <1>1, <2>2, <2>4, <2>9, <2>10 DEF KeptInv
<1>6. CASE lost' = lost \cup {j} /\ UNCHANGED <<queue, replaced>>
  <2>1. Line' = Line
    BY <1>6 DEF Line
  <2>2. LineIs(Line, n, calls + 1)
    BY <1>1, <1>2, CallsAreNumbers DEF LineIs
  <2>3. Accounted'
    BY <1>6, <2>1 DEF KeptInv, Accounted
  <2> QED
    BY <1>1, <1>6, <2>1, <2>2, <2>3 DEF KeptInv
<1> QED
  BY <1>4, <1>5, <1>6 DEF Enqueue

LEMMA ReportsBegin == ReportsInit => KeptInv
<1> SUFFICES ASSUME ReportsInit PROVE KeptInv
  OBVIOUS
<1>1. queue = <<>> /\ sent = <<>> /\ calls = 0 /\ told = {} /\ lost = {} /\ replaced = {}
  BY DEF ReportsInit
<1>2. Line = <<>>
  BY <1>1 DEF Line
<1>3. DOMAIN Line = {} /\ In(Line) = {}
  BY <1>2 DEF In
<1> QED
  BY <1>1, <1>3 DEF KeptInv, LineIs, Accounted

LEMMA ReportsStep == KeptInv /\ [ReportsNext]_reportsVars => KeptInv'
<1> SUFFICES ASSUME KeptInv, [ReportsNext]_reportsVars PROVE KeptInv'
  OBVIOUS
<1>1. ASSUME NEW w \in Whats, NEW s \in Sessions, reports_send(w, s) PROVE KeptInv'
  <2> DEFINE j == [what |-> w, session |-> s, call |-> calls + 1]
  <2>1. calls' = calls + 1 /\ sent' = sent /\ calls \in Nat /\ calls < MaxCalls
    BY <1>1 DEF reports_send, KeptInv
  <2>2. CASE Told(w)
    <3>1. j \in Jobs /\ j.call = calls + 1
      BY <2>1, ReportsAssumption DEF Jobs
    <3>2. Enqueue(j) /\ told' = told \cup {calls + 1}
      BY <1>1, <2>2 DEF reports_send
    <3> QED
      BY <2>1, <3>1, <3>2, EnqueueKeeps
  <2>3. CASE ~Told(w)
    <3>1. UNCHANGED <<queue, told, lost, replaced>>
      BY <1>1, <2>3 DEF reports_send
    <3>2. LineIs(Line, Len(sent), calls + 1)
      <4>1. Line \in Seq(Jobs) /\ DOMAIN Line = 1 .. Len(Line)
        BY DEF Line, KeptInv
      <4> QED
        BY <2>1, <4>1, CallsAreNumbers DEF KeptInv, LineIs
    <3> QED
      BY <2>1, <3>1, <3>2 DEF KeptInv, Line, Accounted
  <2> QED
    BY <2>2, <2>3
<1>2. CASE reports_take
  <2>1. /\ Line' = Line /\ queue' \in Seq(Jobs) /\ sent' \in Seq(Jobs)
        /\ Len(sent') = Len(sent) + 1
    BY <1>2, JoinMoves DEF reports_take, KeptInv, Line
  <2>2. UNCHANGED <<calls, told, lost, replaced>>
    BY <1>2 DEF reports_take
  <2>3. LineIs(Line, Len(sent) + 1, calls)
    <3>1. DOMAIN Line \subseteq Nat /\ Len(sent) \in Nat
      BY DEF KeptInv, Line
    <3>2. \A i \in DOMAIN Line : i > Len(sent) + 1 => i > Len(sent)
      BY <3>1
    <3> HIDE DEF Line
    <3> QED
      BY <3>2 DEF KeptInv, LineIs
  <2> QED
    BY <2>1, <2>2, <2>3 DEF KeptInv, Accounted
<1>3. CASE UNCHANGED <<queue, sent, calls, told, lost, replaced>>
  BY <1>3 DEF KeptInv, Line, Accounted
<1>4. Begins \/ Answers \/ Ends \/ StageMoves \/ PrefMoves \/ UNCHANGED reportsVars
      => UNCHANGED <<queue, sent, calls, told, lost, replaced>>
  BY DEF Begins, Answers, Ends, StageMoves, PrefMoves, reportsVars
<1> QED
  BY <1>1, <1>2, <1>3, <1>4 DEF ReportsNext, Serve

-----------------------------------------------------------------------------
(* What has been reported, for whoever makes the reports.                  *)

\* Every report that was not silenced, and those nothing takes the place of.
Made == In(Line) \cup lost \cup replaced
Kept == {j \in In(Line) \cup lost : j.what # "PROGRESS"}

\* reports_send() adds its own and takes no other away, but a PROGRESS that
\* waits.
LEMMA SendMakes ==
  ASSUME ReportsTypeOK, KeptInv, NEW w \in Whats, NEW s \in Sessions, reports_send(w, s),
         NEW j, j = [what |-> w, session |-> s, call |-> calls + 1]
  PROVE  /\ Told(w) => Made' = Made \cup {j} /\ j \in Jobs
         /\ ~Told(w) => Made' = Made
         /\ Told(w) /\ w # "PROGRESS" => Kept' = Kept \cup {j}
         /\ ~(Told(w) /\ w # "PROGRESS") => Kept' = Kept
<1>1. queue \in Seq(Jobs) /\ sent \in Seq(Jobs) /\ sent' = sent /\ calls \in Nat /\ j.what = w
  BY DEF KeptInv, reports_send
<1>2. CASE ~Told(w)
  BY <1>2 DEF reports_send, Made, Kept, Line
<1>3. ASSUME Told(w), queue' = Append(queue, j), UNCHANGED <<lost, replaced>>
      PROVE  In(Line)' = In(Line) \cup {j}
  <2>0. j \in Jobs
    BY <1>1, ReportsAssumption DEF reports_send, Jobs
  <2>1. /\ Line \in Seq(Jobs) /\ Line' \in Seq(Jobs) /\ Len(Line') = Len(Line) + 1
        /\ Line'[Len(Line')] = j /\ \A a \in 1 .. Len(Line) : Line'[a] = Line[a]
    BY <1>1, <1>3, <2>0, JoinAppend DEF Line
  <2> QED
    BY <2>1 DEF In
<1>4. ASSUME NEW i \in SameProgress(w), queue' = [queue EXCEPT ![i] = j], j \in Jobs
      PROVE  /\ In(Line)' \cup {queue[i]} = In(Line) \cup {j} /\ j \in In(Line)'
             /\ queue[i] \in In(Line) /\ queue[i].what = "PROGRESS" /\ w = "PROGRESS"
  <2>1. i \in DOMAIN queue /\ queue[i].what = "PROGRESS" /\ w = "PROGRESS"
    BY <1>4 DEF SameProgress
  <2> DEFINE p == Len(sent) + i
  <2>2. /\ Line \in Seq(Jobs) /\ Len(Line') = Len(Line) /\ p \in 1 .. Len(Line)
        /\ Line[p] = queue[i] /\ Line'[p] = j
        /\ \A a \in 1 .. Len(Line) : a # p => Line'[a] = Line[a]
        /\ queue' \in Seq(Jobs)
    BY <1>1, <1>4, <2>1, JoinReplace DEF Line
  <2>3. Line' \in Seq(Jobs)
    BY <1>1, <2>2 DEF Line
  <2>4. DOMAIN Line = 1 .. Len(Line) /\ DOMAIN Line' = 1 .. Len(Line)
    BY <2>2, <2>3
  <2> HIDE DEF p
  <2> QED
    BY <2>1, <2>2, <2>4 DEF In
<1>5. CASE Told(w)
  <2>1. j \in Jobs
    BY <1>1, ReportsAssumption DEF reports_send, Jobs
  <2>2. Enqueue(j)
    BY <1>5 DEF reports_send
  <2>3. CASE SameProgress(w) = {} /\ queue' = Append(queue, j) /\ UNCHANGED <<lost, replaced>>
    BY <1>1, <1>3, <1>5, <2>1, <2>3 DEF Made, Kept
  <2>4. ASSUME NEW i \in SameProgress(w), queue' = [queue EXCEPT ![i] = j],
               replaced' = replaced \cup {queue[i]}, UNCHANGED lost
        PROVE  Made' = Made \cup {j} /\ Kept' = Kept /\ w = "PROGRESS"
    BY <1>1, <1>4, <2>1, <2>4 DEF Made, Kept
  <2>5. CASE lost' = lost \cup {j} /\ UNCHANGED <<queue, replaced>>
    <3>1. Line' = Line
      BY <1>1, <2>5 DEF Line
    <3> QED
      BY <1>1, <1>5, <2>1, <2>5, <3>1 DEF Made, Kept
  <2> QED
    BY <1>1, <1>5, <2>1, <2>2, <2>3, <2>4, <2>5 DEF Enqueue
<1> QED
  BY <1>2, <1>5

\* The worker, the connection and the setting report nothing and lose nothing.
LEMMA OthersMake ==
  ASSUME KeptInv, Serve \/ StageMoves \/ PrefMoves
  PROVE  Made' = Made /\ Kept' = Kept /\ Line' = Line /\ calls' = calls
<1>1. Line' = Line
  <2>1. CASE reports_take
    BY <2>1, JoinMoves DEF reports_take, KeptInv, Line
  <2>2. CASE ~reports_take
    BY <2>2 DEF Serve, Begins, Answers, Ends, StageMoves, PrefMoves, Line
  <2> QED
    BY <2>1, <2>2
<1>2. UNCHANGED <<lost, replaced, calls>>
  BY DEF Serve, Begins, reports_take, Answers, Ends, StageMoves, PrefMoves
<1> QED
  BY <1>1, <1>2 DEF Made, Kept

LEMMA ReportsTyped ==
  ASSUME ReportsTypeOK, [ReportsNext]_reportsVars
  PROVE  ReportsTypeOK'
<1>1. ASSUME NEW w \in Whats, NEW s \in Sessions, reports_send(w, s) PROVE ReportsTypeOK'
  <2> DEFINE j == [what |-> w, session |-> s, call |-> calls + 1]
  <2>1. /\ calls \in Nat /\ calls' = calls + 1 /\ calls' \in 0 .. MaxCalls
        /\ UNCHANGED <<draining, job, ready, reporting, sent>>
    BY <1>1, ReportsAssumption DEF reports_send, ReportsTypeOK
  <2>2. CASE Told(w)
    <3>1. Enqueue(j) /\ told' = told \cup {calls + 1}
      BY <1>1, <2>2 DEF reports_send
    <3>2. j \in Jobs
      BY <1>1, <2>1, ReportsAssumption DEF Jobs, reports_send
    <3> HIDE DEF j
    <3>3. queue' \in Seq(Jobs) /\ Len(queue') <= ReportsMax
          /\ lost' \subseteq Jobs /\ replaced' \subseteq Jobs
      <4>0. queue \in Seq(Jobs) /\ Len(queue) <= ReportsMax /\ lost \subseteq Jobs
            /\ replaced \subseteq Jobs
        BY DEF ReportsTypeOK
      <4>1. CASE Len(queue) < ReportsMax /\ queue' = Append(queue, j) /\ UNCHANGED <<lost, replaced>>
        BY <3>2, <4>0, <4>1, ReportsAssumption
      <4>2. ASSUME NEW i \in DOMAIN queue, queue' = [queue EXCEPT ![i] = j],
                   replaced' = replaced \cup {queue[i]}, UNCHANGED lost
            PROVE  queue' \in Seq(Jobs) /\ Len(queue') <= ReportsMax
                   /\ lost' \subseteq Jobs /\ replaced' \subseteq Jobs
        BY <3>2, <4>0, <4>2
      <4>3. CASE lost' = lost \cup {j} /\ UNCHANGED <<queue, replaced>>
        BY <3>2, <4>0, <4>3
      <4> QED
        BY <3>1, <4>1, <4>2, <4>3 DEF Enqueue, SameProgress
    <3>4. told' \subseteq 1 .. calls'
      BY <2>1, <3>1 DEF ReportsTypeOK
    <3> QED
      BY <2>1, <3>3, <3>4 DEF ReportsTypeOK
  <2>3. CASE ~Told(w)
    <3>1. UNCHANGED <<queue, told, lost, replaced>>
      BY <1>1, <2>3 DEF reports_send
    <3>2. told' \subseteq 1 .. calls'
      BY <2>1, <3>1 DEF ReportsTypeOK
    <3> QED
      BY <2>1, <3>1, <3>2 DEF ReportsTypeOK
  <2> QED
    BY <2>2, <2>3
<1>2. CASE reports_take
  <2>1. UNCHANGED <<draining, ready, reporting, calls, told, lost, replaced>>
    BY <1>2 DEF reports_take
  <2>2. queue' \in Seq(Jobs) /\ Len(queue') <= ReportsMax /\ job' \subseteq Jobs /\ sent' \in Seq(Jobs)
    BY <1>2, ReportsAssumption DEF reports_take, ReportsTypeOK
  <2> QED
    BY <2>1, <2>2 DEF ReportsTypeOK
<1>3. CASE Begins \/ Answers \/ Ends
  <2>1. UNCHANGED <<queue, ready, reporting, calls, told, sent, lost, replaced>>
        /\ job' \subseteq job /\ draining' \in BOOLEAN
    BY <1>3 DEF Begins, Answers, Ends, ReportsTypeOK
  <2> QED
    BY <2>1 DEF ReportsTypeOK
<1>4. CASE StageMoves \/ PrefMoves
  <2>1. UNCHANGED <<queue, draining, job, calls, told, sent, lost, replaced>>
    BY <1>4 DEF StageMoves, PrefMoves
  <2>2. ready' \in BOOLEAN /\ reporting' \in BOOLEAN
    BY <1>4, Zenon DEF StageMoves, PrefMoves, ReportsTypeOK
  <2> QED
    BY <2>1, <2>2 DEF ReportsTypeOK
<1>5. CASE UNCHANGED reportsVars
  BY <1>5 DEF ReportsTypeOK, reportsVars
<1> QED
  BY <1>1, <1>2, <1>3, <1>4, <1>5 DEF ReportsNext, Serve

LEMMA ReportsStartTyped == ReportsInit => ReportsTypeOK
<1> SUFFICES ASSUME ReportsInit PROVE ReportsTypeOK
  OBVIOUS
<1>1. queue \in Seq(Jobs) /\ sent \in Seq(Jobs) /\ Len(queue) = 0
  BY DEF ReportsInit
<1>2. draining \in BOOLEAN /\ ready \in BOOLEAN /\ reporting \in BOOLEAN
  BY DEF ReportsInit
<1> QED
  BY <1>1, <1>2, ReportsAssumption DEF ReportsInit, ReportsTypeOK

\* The queue never outgrows its array, and everything in it is a report.
THEOREM ReportsTypeCorrect == ReportsSpec => []ReportsTypeOK
<1>1. ReportsTypeOK /\ [ReportsNext]_reportsVars => ReportsTypeOK'
  BY ReportsTyped
<1> QED
  BY ReportsStartTyped, <1>1, PTL DEF ReportsSpec

\* For any queue's length, any number of calls and any flipping of the setting
\* and the link: the server hears in order, and every report that was not
\* silenced is on its way, sent, or lost in one of the two ways there are.
THEOREM ReportsAreKept == ReportsSpec => []ReportsKept
<1>1. KeptInv => ReportsKept
  BY DEF KeptInv, LineIs, ReportsKept, InOrder
<1> QED
  BY ReportsBegin, ReportsStep, <1>1, PTL DEF ReportsSpec
=============================================================================
