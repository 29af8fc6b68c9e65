-------------------------- MODULE LuaModules_proof --------------------------
(***************************************************************************)
(* Proofs about the web sockets and the timers of a script, for any        *)
(* sessions, connections, timers, intervals and counts: what was closed    *)
(* calls the script no more.  For the sockets the argument needs the path  *)
(* of an event through three places, libwebsockets, the table of the       *)
(* service and the queue of the io thread: a connection that ends was      *)
(* answered before, or its answer is ahead of its end in the queue.        *)
(***************************************************************************)
EXTENDS MCModules, SequenceTheorems, TLAPS

-----------------------------------------------------------------------------
(* The state of the sockets.                                               *)

Data == Fragment \cup {"none"}
Outcome == {"connected", "failed", "timeout", "disconnected"}
Results == {"ESTABLISHED", "CONNECTION_ERROR"}
Ends == {"PEER_INITIATED_CLOSE", "CLOSED", "WSI_DESTROY"}
Reported == Results \cup Ends \cup {"RECEIVE"}

SessionRec ==
    [obj : BOOLEAN, service : BOOLEAN, wsi : Nat, closing : BOOLEAN, closed : BOOLEAN,
     connected : BOOLEAN, reported : BOOLEAN, timers : SUBSET Nat, connect_timer : Nat,
     connects : Nat,
     msg : Seq(Data), calls : Seq(Outcome), reads : Seq(Seq(Data)), written : Nat,
     shut : BOOLEAN]

Event == [s : Session, wsi : Nat, reason : Reported, data : Data]

IsService(v) ==
    v = [running |-> v.running, table |-> v.table, writeable |-> v.writeable, promise |-> v.promise]

IsTable(t) ==
    /\ DOMAIN t \subseteq Wsi
    /\ \A w \in DOMAIN t : t[w].s \in Session /\ t[w] = [s |-> t[w].s, send |-> t[w].send]

IsConnection(r) ==
    r = [st |-> r.st, pollout |-> r.pollout, sent |-> r.sent, received |-> r.received]

IsNet(N) == N = [w \in Wsi |-> N[w]] /\ \A w \in Wsi : IsConnection(N[w])

IsPc(p) ==
    /\ p = [k |-> p.k, todo |-> p.todo, s |-> p.s]
    /\ p.s \in Session \cup {NoSession} /\ p.todo \subseteq Session
    /\ p.k \notin {"idle", "module"} => p.s = NoSession

SocketTypes ==
    /\ session \in [Session -> SessionRec]
    /\ ios \in Seq(Event)
    /\ IsService(service) /\ IsTable(service.table)
    /\ IsNet(net)
    /\ IsPc(pc)
    /\ torn \in Session \cup {NoSession}

-----------------------------------------------------------------------------
(* The inductive invariant.                                                *)

\* connect was answered, or never will be.
Answered(x) == x.reported \/ x.shut \/ x.closed

\* A session that closes, or is closed, and connected once waits for no timer
\* that it would answer to.
SessionOK(x, s, p) ==
    /\ x.closing => x.shut
    /\ x.shut /\ x.obj => p.k # "idle"
    /\ x.connects = 0 => ~x.closed
    /\ x.timers \subseteq 1 .. x.connects
    /\ x.connects <= 1 => x.timers \subseteq {x.connect_timer}
    /\ x.connects <= 1 /\ (x.shut \/ x.closed) => x.reported \/ x.timers = {} \/ p.s = s

SessionsOK(S, p) == \A s \in Session : SessionOK(S[s], s, p)

\* s is answered when the first n - 1 events of q have run.
Told(S, q, s, n) ==
    \/ Answered(S[s])
    \/ \E j \in DOMAIN q : j < n /\ q[j].s = s /\ q[j].reason \in Results

\* The end of a connection is behind its beginning in the queue.
EventOK(S, q, e, n) == S[e.s].connects > 0 /\ (e.reason \in Ends => Told(S, q, e.s, n))
EventsOK(S, q) == \A i \in DOMAIN q : EventOK(S, q, q[i], i)

\* A connection that libwebsockets has established, or given up, is answered by
\* the queue.
ConnectionOK(S, q, t, N, w) ==
    /\ S[t[w].s].connects > 0
    /\ N[w].st \notin {"none", "connecting"} => Told(S, q, t[w].s, Len(q) + 1)
TableOK(S, q, t, N) == \A w \in DOMAIN t : ConnectionOK(S, q, t, N, w)

LwsIInv ==
    /\ SocketTypes
    /\ SessionsOK(session, pc)
    /\ EventsOK(session, ios)
    /\ TableOK(session, ios, service.table, net)

\* A session that was closed shows it, but for the one whose flags the thread of
\* the service is writing.
ShutOK(x, s, t) ==
    /\ x.shut => x.closing \/ x.closed \/ t = s
    /\ t = s => x.shut /\ x.connects > 0

ShutInv == \A s \in Session : ShutOK(session[s], s, torn)

-----------------------------------------------------------------------------
(* Steps of a session.                                                     *)

\* A step that sets no timer and forgets none.
FewerTimers(x, y) ==
    /\ y.timers \subseteq x.timers
    /\ x.timers \subseteq {x.connect_timer} => y.timers \subseteq {y.connect_timer}

\* What no step of a session takes back.
Grows(x, y) == (x.connects > 0 => y.connects > 0) /\ (Answered(x) => Answered(y))

\* Cancelling a timer leaves a session.
LEMMA CancelTimerRec ==
    ASSUME NEW x \in SessionRec
    PROVE  /\ cancel_timer(x) \in SessionRec
           /\ cancel_timer(x) = [x EXCEPT !.timers = x.timers \ {x.connect_timer},
                                          !.connect_timer = 0]
BY DEF cancel_timer, SessionRec, NULL

\* A call of the script leaves a session.
LEMMA CallRec ==
    ASSUME NEW x \in SessionRec, NEW what \in Outcome
    PROVE  /\ call(x, what) \in SessionRec
           /\ call(x, what) = [x EXCEPT !.calls = Append(x.calls, what)]
<1>1. x.calls \in Seq(Outcome)
  BY DEF SessionRec
<1>2. Append(x.calls, what) \in Seq(Outcome)
  BY <1>1, AppendProperties
<1> QED BY <1>2 DEF call, SessionRec

\* report_connection_result, with what it leaves in wsi_.
Settled(x, v, what) ==
    IF x.reported THEN x ELSE cancel_timer([call(x, what) EXCEPT !.wsi = v, !.reported = TRUE])

\* An attempt that failed leaves wsi_.
LEMMA NotConnected ==
    ASSUME NEW x \in SessionRec, NEW w, NEW what \in Outcome,
           NEW y, y = report_connection_result(x, w, FALSE, what)
    PROVE  y = Settled(x, x.wsi, what) /\ x.wsi \in Nat
<1> DEFINE d == call(x, what)
<1>1. d = [x EXCEPT !.calls = Append(x.calls, what)]
  BY CallRec
<1> HIDE DEF d
<1>2. d.wsi = x.wsi /\ x.wsi \in Nat
  BY <1>1 DEF SessionRec
<1>3. y = IF x.reported THEN x ELSE cancel_timer([d EXCEPT !.wsi = d.wsi, !.reported = TRUE])
  BY DEF report_connection_result, d
<1> QED BY <1>2, <1>3 DEF Settled, d

\* What report_connection_result leaves of a session.
LEMMA ReportResult ==
    ASSUME NEW x \in SessionRec, NEW v \in Nat, NEW what \in Outcome,
           NEW y, y = Settled(x, v, what)
    PROVE  /\ y \in SessionRec
           /\ y.reported
           /\ y.obj = x.obj /\ y.closing = x.closing /\ y.closed = x.closed
           /\ y.shut = x.shut /\ y.connects = x.connects
           /\ FewerTimers(x, y)
           /\ y.reads = x.reads
           /\ x.reported => y = x
<1>1. CASE x.reported
  <2>1. y = x
    BY <1>1 DEF Settled
  <2> QED BY <1>1, <2>1 DEF FewerTimers
<1>2. CASE ~x.reported
  <2> DEFINE c == call(x, what)
  <2> DEFINE d == [c EXCEPT !.wsi = v, !.reported = TRUE]
  <2>1. c \in SessionRec /\ c = [x EXCEPT !.calls = Append(x.calls, what)]
    BY CallRec
  <2> HIDE DEF c
  <2>2. d \in SessionRec
    BY <2>1 DEF SessionRec
  <2>3. /\ d.obj = x.obj /\ d.closing = x.closing /\ d.closed = x.closed
        /\ d.shut = x.shut /\ d.connects = x.connects /\ d.timers = x.timers /\ d.connect_timer = x.connect_timer
        /\ d.reported = TRUE /\ d.reads = x.reads
    BY <2>1 DEF SessionRec
  <2>4. y = cancel_timer(d)
    BY <1>2 DEF Settled, c
  <2> HIDE DEF d
  <2>5. y \in SessionRec /\ y = [d EXCEPT !.timers = d.timers \ {d.connect_timer}, !.connect_timer = 0]
    BY <2>2, <2>4, CancelTimerRec
  <2>6. /\ y.obj = d.obj /\ y.closing = d.closing /\ y.closed = d.closed
        /\ y.shut = d.shut /\ y.connects = d.connects /\ y.timers = d.timers \ {d.connect_timer}
        /\ y.reported = d.reported /\ y.reads = d.reads
    BY <2>2, <2>5 DEF SessionRec
  <2>7. x.timers \subseteq {x.connect_timer} => y.timers = {}
    BY <2>3, <2>6
  <2> QED BY <1>2, <2>3, <2>5, <2>6, <2>7 DEF FewerTimers
<1> QED BY <1>1, <1>2

\* What the end of a connection leaves of a session.
LEMMA ReportDisconnected ==
    ASSUME NEW x \in SessionRec, NEW y, y = report_disconnected([x EXCEPT !.closed = TRUE])
    PROVE  /\ y \in SessionRec
           /\ y.closed
           /\ y.obj = x.obj /\ y.closing = x.closing /\ y.reported = x.reported
           /\ y.shut = x.shut /\ y.connects = x.connects /\ y.timers = x.timers /\ y.connect_timer = x.connect_timer
<1> DEFINE c == [x EXCEPT !.closed = TRUE]
<1>1. c \in SessionRec
  BY DEF SessionRec
<1>2. /\ c.obj = x.obj /\ c.closing = x.closing /\ c.reported = x.reported
      /\ c.shut = x.shut /\ c.connects = x.connects /\ c.timers = x.timers /\ c.connect_timer = x.connect_timer
      /\ c.closed = TRUE
  BY DEF SessionRec
<1> HIDE DEF c
<1>3. call(c, "disconnected") \in SessionRec
      /\ call(c, "disconnected") = [c EXCEPT !.calls = Append(c.calls, "disconnected")]
  BY <1>1, CallRec DEF Outcome
<1>4. y = c \/ y = call(c, "disconnected")
  BY DEF report_disconnected, c
<1>5. /\ y \in SessionRec
      /\ y.obj = c.obj /\ y.closing = c.closing /\ y.closed = c.closed /\ y.reported = c.reported
      /\ y.shut = c.shut /\ y.connects = c.connects /\ y.timers = c.timers /\ y.connect_timer = c.connect_timer
  BY <1>1, <1>3, <1>4 DEF SessionRec
<1> QED BY <1>2, <1>5 DEF c

\* What report_read_data leaves of a session.
LEMMA ReportRead ==
    ASSUME NEW x \in SessionRec, NEW data \in Data, NEW y, y = report_read_data(x, data)
    PROVE  /\ y \in SessionRec
           /\ y.obj = x.obj /\ y.closing = x.closing /\ y.closed = x.closed
           /\ y.reported = x.reported /\ y.shut = x.shut /\ y.connects = x.connects
           /\ y.timers = x.timers /\ y.connect_timer = x.connect_timer
<1> DEFINE text == Append(x.msg, data)
<1>1. x.msg \in Seq(Data) /\ x.reads \in Seq(Seq(Data))
  BY DEF SessionRec
<1>2. text \in Seq(Data)
  BY <1>1, AppendProperties
<1>3. <<>> \in Seq(Data)
  BY EmptySeq
<1>4. y = [x EXCEPT !.reads = Append(x.reads, text), !.msg = <<>>] \/ y = [x EXCEPT !.msg = text]
  BY DEF report_read_data, get_completed_json_message
<1> HIDE DEF text
<1>5. Append(x.reads, text) \in Seq(Seq(Data))
  BY <1>1, <1>2, AppendProperties
<1>6. y \in SessionRec
  BY <1>2, <1>3, <1>4, <1>5 DEF SessionRec
<1>7. /\ y.obj = x.obj /\ y.closing = x.closing /\ y.closed = x.closed
      /\ y.reported = x.reported /\ y.shut = x.shut /\ y.connects = x.connects
      /\ y.timers = x.timers /\ y.connect_timer = x.connect_timer
  BY <1>4 DEF SessionRec
<1> QED BY <1>6, <1>7

\* on_event: nothing when the session closes; a result is an answer; an end
\* closes the session.
LEMMA OnEvent ==
    ASSUME NEW x \in SessionRec, NEW e \in Event, NEW y, y = on_event(x, e), x.closing => x.shut
    PROVE  /\ y \in SessionRec
           /\ x.closing \/ x.closed => y = x
           /\ e.reason \in Results => Answered(y)
           /\ y.obj = x.obj /\ y.closing = x.closing /\ y.shut = x.shut /\ y.connects = x.connects
           /\ FewerTimers(x, y)
           /\ x.reported => y.reported
           /\ x.closed => y.closed
           /\ y.closed => x.closed \/ e.reason \in Ends
<1>0. e.wsi \in Nat /\ e.reason \in Reported /\ e.data \in Data
  BY DEF Event
<1>1. CASE x.closing \/ x.closed
  <2>1. y = x
    BY <1>1 DEF on_event
  <2> QED BY <1>1, <2>1 DEF Answered, FewerTimers
<1>2. CASE ~(x.closing \/ x.closed) /\ e.reason = "ESTABLISHED"
  <2> DEFINE c == [x EXCEPT !.connected = TRUE]
  <2>1. c \in SessionRec
    BY DEF SessionRec
  <2>2. /\ c.obj = x.obj /\ c.closing = x.closing /\ c.closed = x.closed /\ c.reported = x.reported
        /\ c.shut = x.shut /\ c.connects = x.connects /\ c.timers = x.timers /\ c.connect_timer = x.connect_timer
    BY DEF SessionRec
  <2>3. y = Settled(c, e.wsi, "connected")
    BY <1>2 DEF on_event, report_connection_result, Settled
  <2> HIDE DEF c
  <2>4. /\ y \in SessionRec
        /\ y.reported
        /\ y.obj = c.obj /\ y.closing = c.closing /\ y.closed = c.closed
        /\ y.shut = c.shut /\ y.connects = c.connects
        /\ FewerTimers(c, y)
    BY <1>0, <2>1, <2>3, ReportResult DEF Outcome
  <2> QED BY <1>2, <2>2, <2>4 DEF Answered, FewerTimers
<1>3. CASE ~(x.closing \/ x.closed) /\ e.reason = "CONNECTION_ERROR"
  <2>0. y = report_connection_result(x, e.wsi, FALSE, "failed")
    BY <1>3 DEF on_event
  <2>1. y = Settled(x, x.wsi, "failed") /\ x.wsi \in Nat
    BY <2>0, NotConnected DEF Outcome
  <2>2. /\ y \in SessionRec
        /\ y.reported
        /\ y.obj = x.obj /\ y.closing = x.closing /\ y.closed = x.closed
        /\ y.shut = x.shut /\ y.connects = x.connects
        /\ FewerTimers(x, y)
    BY <2>1, ReportResult DEF Outcome
  <2> QED BY <1>3, <2>2 DEF Answered
<1>4. CASE ~(x.closing \/ x.closed) /\ e.reason = "RECEIVE"
  <2>1. y = report_read_data(x, e.data)
    BY <1>4 DEF on_event
  <2>2. /\ y \in SessionRec
        /\ y.obj = x.obj /\ y.closing = x.closing /\ y.closed = x.closed
        /\ y.reported = x.reported /\ y.shut = x.shut /\ y.connects = x.connects
        /\ y.timers = x.timers /\ y.connect_timer = x.connect_timer
    BY <1>0, <2>1, ReportRead
  <2> QED BY <1>4, <2>2 DEF Results, FewerTimers
<1>5. CASE ~(x.closing \/ x.closed) /\ e.reason \in Ends
  <2>1. y = report_disconnected([x EXCEPT !.closed = TRUE])
    BY <1>5 DEF on_event, Ends
  <2>2. /\ y \in SessionRec
        /\ y.closed
        /\ y.obj = x.obj /\ y.closing = x.closing /\ y.reported = x.reported
        /\ y.shut = x.shut /\ y.connects = x.connects /\ y.timers = x.timers /\ y.connect_timer = x.connect_timer
    BY <2>1, ReportDisconnected
  <2> QED BY <1>5, <2>2 DEF Answered, FewerTimers
<1> QED BY <1>0, <1>1, <1>2, <1>3, <1>4, <1>5 DEF Reported, Results

\* handle_connect_timeout: nothing when the session is answered.
LEMMA TimeoutAnswers ==
    ASSUME NEW x \in SessionRec, NEW y, y = handle_connect_timeout(x)
    PROVE  /\ y \in SessionRec
           /\ y.reported
           /\ y.obj = x.obj /\ y.closing = x.closing /\ y.closed = x.closed
           /\ y.shut = x.shut /\ y.connects = x.connects
           /\ FewerTimers(x, y) /\ y.reads = x.reads
           /\ y.reads = x.reads
           /\ x.reported => y = x
<1>1. y = report_connection_result(x, NULL, FALSE, "timeout")
  BY DEF handle_connect_timeout
<1>2. y = Settled(x, x.wsi, "timeout") /\ x.wsi \in Nat
  BY <1>1, NotConnected DEF Outcome
<1>3. /\ y \in SessionRec
      /\ y.reported
      /\ y.obj = x.obj /\ y.closing = x.closing /\ y.closed = x.closed
      /\ y.shut = x.shut /\ y.connects = x.connects
      /\ FewerTimers(x, y) /\ y.reads = x.reads
  BY <1>2, ReportResult DEF Outcome
<1>4. x.reported => y = x
  BY <1>2 DEF Settled
<1> QED BY <1>3, <1>4

\* The connect timer, which is one less.
LEMMA ConnectTimeout ==
    ASSUME NEW x \in SessionRec, NEW n \in Nat,
           NEW y, y = handle_connect_timeout([x EXCEPT !.timers = @ \ {n}])
    PROVE  /\ y \in SessionRec
           /\ y.reported
           /\ y.obj = x.obj /\ y.closing = x.closing /\ y.closed = x.closed
           /\ y.shut = x.shut /\ y.connects = x.connects
           /\ FewerTimers(x, y)
           /\ x.reported => y.calls = x.calls
           /\ y.reads = x.reads
<1> DEFINE c == [x EXCEPT !.timers = x.timers \ {n}]
<1>1. c \in SessionRec
  BY DEF SessionRec
<1>2. /\ c.obj = x.obj /\ c.closing = x.closing /\ c.closed = x.closed /\ c.reported = x.reported
      /\ c.shut = x.shut /\ c.connects = x.connects /\ c.timers = x.timers \ {n}
      /\ c.connect_timer = x.connect_timer
      /\ c.calls = x.calls /\ c.reads = x.reads
  BY DEF SessionRec
<1>3. y = handle_connect_timeout(c)
  OBVIOUS
<1> HIDE DEF c
<1>4. /\ y \in SessionRec
      /\ y.reported
      /\ y.obj = c.obj /\ y.closing = c.closing /\ y.closed = c.closed
      /\ y.shut = c.shut /\ y.connects = c.connects
      /\ FewerTimers(c, y) /\ y.reads = c.reads
      /\ c.reported => y = c
  BY <1>1, <1>3, TimeoutAnswers
<1> QED BY <1>2, <1>4 DEF FewerTimers

-----------------------------------------------------------------------------
(* The queue and the table.                                                *)

\* Sessions of which no step takes back an answer.
AllGrow(S, T) ==
    /\ S \in [Session -> SessionRec] /\ T \in [Session -> SessionRec]
    /\ \A s \in Session : Grows(S[s], T[s])

\* What is answered stays answered.
LEMMA ToldGrows ==
    ASSUME NEW S, NEW T, AllGrow(S, T), NEW q \in Seq(Event), NEW s \in Session, NEW n,
           Told(S, q, s, n)
    PROVE  Told(T, q, s, n)
BY DEF Told, AllGrow, Grows

\* The queue under a step of the sessions.
LEMMA EventsGrow ==
    ASSUME NEW S, NEW T, AllGrow(S, T), NEW q \in Seq(Event), EventsOK(S, q)
    PROVE  EventsOK(T, q)
<1> SUFFICES ASSUME NEW i \in DOMAIN q PROVE EventOK(T, q, q[i], i)
  BY DEF EventsOK
<1>1. q[i].s \in Session
  <2>1. q[i] \in Event
    OBVIOUS
  <2> QED BY <2>1 DEF Event
<1>2. EventOK(S, q, q[i], i)
  BY DEF EventsOK
<1>3. T[q[i].s].connects > 0
  BY <1>1, <1>2 DEF EventOK, AllGrow, Grows
<1> QED BY <1>1, <1>2, <1>3, ToldGrows DEF EventOK

\* An answer in the queue stays there when an event is appended.
LEMMA ToldAppend ==
    ASSUME NEW S, NEW q \in Seq(Event), NEW e \in Event, NEW s, NEW n \in Nat, NEW m \in Nat,
           n <= m, Told(S, q, s, n)
    PROVE  Told(S, Append(q, e), s, m)
<1>1. CASE Answered(S[s])
  BY <1>1 DEF Told
<1>2. CASE ~Answered(S[s])
  <2>1. PICK j \in DOMAIN q : j < n /\ q[j].s = s /\ q[j].reason \in Results
    BY <1>2 DEF Told
  <2>2. j \in 1 .. Len(q) /\ Len(q) \in Nat
    BY LenProperties
  <2>3. Append(q, e)[j] = q[j] /\ j \in DOMAIN Append(q, e)
    BY <2>2, AppendProperties
  <2>4. j < m
    BY <2>1, <2>2
  <2> QED BY <2>1, <2>3, <2>4 DEF Told
<1> QED BY <1>1, <1>2

\* report_event: an end is put behind the answer.
LEMMA EventsAppend ==
    ASSUME NEW S, NEW q \in Seq(Event), EventsOK(S, q), NEW e \in Event,
           EventOK(S, q, e, Len(q) + 1)
    PROVE  EventsOK(S, Append(q, e))
<1> DEFINE a == Append(q, e)
<1>0. Len(q) \in Nat /\ DOMAIN q = 1 .. Len(q)
  BY LenProperties
<1>1. DOMAIN a = 1 .. Len(q) + 1 /\ a[Len(q) + 1] = e /\ \A i \in 1 .. Len(q) : a[i] = q[i]
  BY AppendProperties
<1> SUFFICES ASSUME NEW i \in DOMAIN a PROVE EventOK(S, a, a[i], i)
  BY DEF EventsOK
<1> HIDE DEF a
<1>2. i \in Nat
  BY <1>0, <1>1
<1>3. EventOK(S, q, a[i], i)
  <2>1. CASE i = Len(q) + 1
    BY <1>1, <2>1
  <2>2. CASE i # Len(q) + 1
    <3>1. i \in DOMAIN q /\ a[i] = q[i]
      BY <1>0, <1>1, <2>2
    <3> QED BY <3>1 DEF EventsOK
  <2> QED BY <2>1, <2>2
<1> QED BY <1>2, <1>3, ToldAppend DEF EventOK, a

\* The table under an appended event: a connection of another one is as it was,
\* one whose answer is appended is answered.
LEMMA TableAppend ==
    ASSUME NEW S, NEW q \in Seq(Event), NEW t, NEW N, NEW M, TableOK(S, q, t, N), NEW e \in Event,
           \A w \in DOMAIN t :
               \/ M[w].st = N[w].st
               \/ N[w].st \notin {"none", "connecting"}
               \/ t[w].s = e.s /\ e.reason \in Results
    PROVE  TableOK(S, Append(q, e), t, M)
<1> DEFINE a == Append(q, e)
<1>0. Len(q) \in Nat /\ DOMAIN q = 1 .. Len(q)
  BY LenProperties
<1>1. DOMAIN a = 1 .. Len(q) + 1 /\ a[Len(q) + 1] = e /\ Len(a) = Len(q) + 1
  BY AppendProperties
<1> SUFFICES ASSUME NEW w \in DOMAIN t PROVE ConnectionOK(S, a, t, M, w)
  BY DEF TableOK
<1>2. ConnectionOK(S, q, t, N, w)
  BY DEF TableOK
<1>3. Len(q) + 1 \in Nat /\ Len(q) + 2 \in Nat /\ Len(q) + 1 <= Len(q) + 2 /\ Len(a) + 1 = Len(q) + 2
  BY <1>0, <1>1
<1>4. CASE Told(S, q, t[w].s, Len(q) + 1)
  <2>1. Told(S, a, t[w].s, Len(q) + 2)
    BY <1>3, <1>4, ToldAppend
  <2> QED BY <1>2, <1>3, <2>1 DEF ConnectionOK
<1>5. CASE ~Told(S, q, t[w].s, Len(q) + 1)
  <2>1. N[w].st \in {"none", "connecting"}
    BY <1>2, <1>5 DEF ConnectionOK
  <2>2. CASE M[w].st = N[w].st
    BY <1>2, <2>1, <2>2 DEF ConnectionOK
  <2>3. CASE t[w].s = e.s /\ e.reason \in Results
    <3>1. Told(S, a, t[w].s, Len(q) + 2)
      <4> HIDE DEF a
      <4>1. Len(q) + 1 \in DOMAIN a /\ Len(q) + 1 < Len(q) + 2
        BY <1>0, <1>1
      <4> QED BY <1>1, <2>3, <4>1 DEF Told
    <3> QED BY <1>2, <1>3, <3>1 DEF ConnectionOK
  <2> QED BY <2>1, <2>2, <2>3
<1> QED BY <1>4, <1>5

\* The table when sessions step, connections leave or step and messages are
\* queued.
LEMMA TableGrow ==
    ASSUME NEW S, NEW T, AllGrow(S, T), NEW q \in Seq(Event),
           NEW t, NEW u, NEW N, NEW M, IsTable(t), TableOK(S, q, t, N),
           DOMAIN u \subseteq DOMAIN t,
           \A w \in DOMAIN u :
               /\ u[w].s = t[w].s
               /\ M[w].st = N[w].st \/ N[w].st \notin {"none", "connecting"}
    PROVE  TableOK(T, q, u, M)
<1> SUFFICES ASSUME NEW w \in DOMAIN u PROVE ConnectionOK(T, q, u, M, w)
  BY DEF TableOK
<1>1. w \in DOMAIN t /\ t[w].s \in Session /\ u[w].s = t[w].s
  BY DEF IsTable
<1>2. ConnectionOK(S, q, t, N, w)
  BY <1>1 DEF TableOK
<1>3. T[t[w].s].connects > 0
  BY <1>1, <1>2 DEF ConnectionOK, AllGrow, Grows
<1>4. M[w].st \notin {"none", "connecting"} => N[w].st \notin {"none", "connecting"}
  OBVIOUS
<1>5. M[w].st \notin {"none", "connecting"} => Told(T, q, t[w].s, Len(q) + 1)
  BY <1>1, <1>2, <1>4, ToldGrows DEF ConnectionOK
<1> QED BY <1>1, <1>3, <1>5 DEF ConnectionOK

\* run_event: the head was the answer, or the answer is one place closer.
LEMMA ToldTail ==
    ASSUME NEW S, NEW T, AllGrow(S, T), NEW q \in Seq(Event), q # <<>>,
           Head(q).reason \in Results => Answered(T[Head(q).s]),
           NEW s \in Session, NEW n \in Nat, Told(S, q, s, n + 1)
    PROVE  Told(T, Tail(q), s, n)
<1>1. CASE Answered(S[s])
  BY <1>1 DEF Told, AllGrow, Grows
<1>2. CASE ~Answered(S[s])
  <2>1. PICK j \in DOMAIN q : j < n + 1 /\ q[j].s = s /\ q[j].reason \in Results
    BY <1>2 DEF Told
  <2>2. j \in 1 .. Len(q) /\ Len(q) \in Nat
    BY LenProperties
  <2>3. CASE j = 1
    <3>1. q[j] = Head(q)
      BY <2>3
    <3> QED BY <2>1, <3>1 DEF Told
  <2>4. CASE j # 1
    <3>1. j - 1 \in DOMAIN Tail(q) /\ Tail(q)[j - 1] = q[j]
      BY <2>2, <2>4, HeadTailProperties
    <3>2. j - 1 < n
      BY <2>1, <2>2
    <3> QED BY <2>1, <3>1, <3>2 DEF Told
  <2> QED BY <2>3, <2>4
<1> QED BY <1>1, <1>2

\* run_event leaves the order of the queue.
LEMMA EventsTail ==
    ASSUME NEW S, NEW T, AllGrow(S, T), NEW q \in Seq(Event), q # <<>>, EventsOK(S, q),
           Head(q).reason \in Results => Answered(T[Head(q).s])
    PROVE  EventsOK(T, Tail(q))
<1>1. Len(q) \in Nat \ {0} /\ DOMAIN Tail(q) = 1 .. Len(q) - 1
  BY HeadTailProperties, LenProperties, EmptySeq
<1> SUFFICES ASSUME NEW i \in DOMAIN Tail(q) PROVE EventOK(T, Tail(q), Tail(q)[i], i)
  BY DEF EventsOK
<1>2. i \in Nat /\ i + 1 \in DOMAIN q /\ Tail(q)[i] = q[i + 1]
  <2>1. i \in 1 .. Len(Tail(q)) /\ i + 1 \in 1 .. Len(q)
    BY <1>1, HeadTailProperties
  <2> QED BY <2>1, HeadTailProperties, LenProperties
<1>3. q[i + 1].s \in Session
  <2>1. q[i + 1] \in Event
    BY <1>2
  <2> QED BY <2>1 DEF Event
<1>4. EventOK(S, q, q[i + 1], i + 1)
  BY <1>2 DEF EventsOK
<1>5. T[q[i + 1].s].connects > 0
  BY <1>3, <1>4 DEF EventOK, AllGrow, Grows
<1>6. q[i + 1].reason \in Ends => Told(T, Tail(q), q[i + 1].s, i)
  BY <1>2, <1>3, <1>4, ToldTail DEF EventOK
<1> QED BY <1>2, <1>5, <1>6 DEF EventOK

\* run_event leaves the connections answered by the queue.
LEMMA TableTail ==
    ASSUME NEW S, NEW T, AllGrow(S, T), NEW q \in Seq(Event), q # <<>>,
           NEW t, NEW N, IsTable(t), TableOK(S, q, t, N),
           Head(q).reason \in Results => Answered(T[Head(q).s])
    PROVE  TableOK(T, Tail(q), t, N)
<1>1. Len(q) \in Nat /\ Len(Tail(q)) + 1 = Len(q)
  BY HeadTailProperties, LenProperties, EmptySeq
<1> SUFFICES ASSUME NEW w \in DOMAIN t PROVE ConnectionOK(T, Tail(q), t, N, w)
  BY DEF TableOK
<1>2. t[w].s \in Session
  BY DEF IsTable
<1>3. ConnectionOK(S, q, t, N, w)
  BY DEF TableOK
<1>4. T[t[w].s].connects > 0
  BY <1>2, <1>3 DEF ConnectionOK, AllGrow, Grows
<1>5. N[w].st \notin {"none", "connecting"} => Told(T, Tail(q), t[w].s, Len(q))
  BY <1>1, <1>2, <1>3, ToldTail DEF ConnectionOK
<1> QED BY <1>1, <1>4, <1>5 DEF ConnectionOK

-----------------------------------------------------------------------------
(* The calls of the script and the steps of the io thread.                 *)

\* No step, or a step of one session.
LEMMA NoneGrows ==
    ASSUME NEW S \in [Session -> SessionRec]
    PROVE  AllGrow(S, S)
BY DEF AllGrow, Grows

\* A step of one session.
LEMMA OneGrows ==
    ASSUME NEW S \in [Session -> SessionRec], NEW s \in Session, NEW x \in SessionRec, Grows(S[s], x)
    PROVE  /\ [S EXCEPT ![s] = x] \in [Session -> SessionRec]
           /\ AllGrow(S, [S EXCEPT ![s] = x])
<1> DEFINE T == [S EXCEPT ![s] = x]
<1>1. T \in [Session -> SessionRec] /\ T[s] = x /\ \A r \in Session : r # s => T[r] = S[r]
  OBVIOUS
<1> HIDE DEF T
<1>2. \A r \in Session : Grows(S[r], T[r])
  <2> SUFFICES ASSUME NEW r \in Session PROVE Grows(S[r], T[r])
    OBVIOUS
  <2> QED BY <1>1 DEF Grows
<1> QED BY <1>1, <1>2 DEF AllGrow, T

\* The sessions when one of them and the io thread step.
LEMMA SessionsStep ==
    ASSUME NEW S \in [Session -> SessionRec], NEW p, NEW r, SessionsOK(S, p),
           NEW s \in Session, NEW x, SessionOK(x, s, r),
           r.k = "idle" => p.k = "idle",
           p.s = r.s \/ p.s = NoSession \/ p.s = s
    PROVE  SessionsOK([S EXCEPT ![s] = x], r)
<1> DEFINE T == [S EXCEPT ![s] = x]
<1>1. T[s] = x /\ \A o \in Session : o # s => T[o] = S[o]
  OBVIOUS
<1> HIDE DEF T
<1> SUFFICES ASSUME NEW o \in Session, o # s PROVE SessionOK(S[o], o, r)
  BY <1>1 DEF SessionsOK, T
<1>2. SessionOK(S[o], o, p)
  BY DEF SessionsOK
<1>3. p.s = o => r.s = o
  BY LwsAssumption
<1> QED BY <1>2, <1>3 DEF SessionOK

\* The sessions when the io thread steps.
LEMMA SessionsPc ==
    ASSUME NEW S, NEW p, NEW r, SessionsOK(S, p),
           r.k = "idle" => p.k = "idle",
           p.s = r.s \/ p.s = NoSession
    PROVE  SessionsOK(S, r)
<1> SUFFICES ASSUME NEW o \in Session PROVE SessionOK(S[o], o, r)
  BY DEF SessionsOK
<1>2. SessionOK(S[o], o, p)
  BY DEF SessionsOK
<1>3. p.s = o => r.s = o
  BY LwsAssumption
<1> QED BY <1>2, <1>3 DEF SessionOK

\* Where the io thread is between two functions.
LEMMA AtPc ==
    ASSUME NEW k
    PROVE  IsPc(at(k)) /\ at(k).k = k /\ at(k).s = NoSession
BY DEF at, IsPc

\* A new service has no connections.
LEMMA LuaStart ==
    ASSUME LwsIInv, NEW ok \in BOOLEAN, lua_start(ok)
    PROVE  LwsIInv'
<1>1. UNCHANGED <<session, net, ios, pc, torn>> /\ service' = [new_service EXCEPT !.running = ok]
  BY DEF lua_start
<1>2. IsService(service') /\ service'.table = <<>>
  BY <1>1 DEF IsService, new_service
<1>3. DOMAIN service'.table = {}
  BY <1>2
<1>4. IsTable(service'.table) /\ TableOK(session, ios, service'.table, net)
  BY <1>3 DEF IsTable, TableOK
<1> QED BY <1>1, <1>2, <1>4 DEF LwsIInv, SocketTypes

\* A new session has done nothing.
LEMMA LuaOpen ==
    ASSUME LwsIInv, NEW s \in Session, lua_open(s)
    PROVE  LwsIInv'
<1> DEFINE x == [session[s] EXCEPT !.obj = TRUE]
<1>1. session' = [session EXCEPT ![s] = x] /\ UNCHANGED <<service, net, ios, pc, torn>>
  BY DEF lua_open
<1>2. session \in [Session -> SessionRec] /\ session[s] \in SessionRec /\ session[s] = new_session
  BY DEF LwsIInv, SocketTypes, lua_open
<1>3. x \in SessionRec
  BY <1>2 DEF SessionRec
<1>4. /\ x.shut = FALSE /\ x.closing = FALSE /\ x.closed = FALSE /\ x.connects = 0
      /\ x.timers = {} /\ x.reported = FALSE
  BY <1>2 DEF new_session
<1>5. SessionOK(x, s, pc)
  BY <1>4 DEF SessionOK
<1>6. ~ Answered(session[s]) /\ ~(session[s].connects > 0)
  BY <1>2 DEF Answered, new_session
<1> HIDE DEF x
<1>7. session' \in [Session -> SessionRec] /\ AllGrow(session, session')
  BY <1>1, <1>2, <1>3, <1>6, OneGrows DEF Grows
<1>8. SessionsOK(session', pc)
  BY <1>1, <1>2, <1>5, SessionsStep DEF LwsIInv
<1>9. EventsOK(session', ios)
  BY <1>7, EventsGrow DEF LwsIInv, SocketTypes
<1>10. TableOK(session', ios, service.table, net)
  BY <1>7, TableGrow DEF LwsIInv, SocketTypes
<1> QED BY <1>1, <1>7, <1>8, <1>9, <1>10 DEF LwsIInv, SocketTypes

\* A write changes the messages of a connection only.
LEMMA LuaWrite ==
    ASSUME LwsIInv, NEW s \in Session, lua_write(s)
    PROVE  LwsIInv'
<1> DEFINE x == [session[s] EXCEPT !.written = @ + 1]
<1>1. /\ session' = [session EXCEPT ![s] = x] /\ UNCHANGED <<net, ios, pc, torn>>
      /\ service' = service_write(service, session[s].wsi, session[s].written + 1)
  BY DEF lua_write
<1>2. session \in [Session -> SessionRec] /\ session[s] \in SessionRec
  BY DEF LwsIInv, SocketTypes
<1>3. /\ x \in SessionRec
      /\ x.obj = session[s].obj /\ x.closing = session[s].closing /\ x.closed = session[s].closed
      /\ x.reported = session[s].reported /\ x.shut = session[s].shut
      /\ x.connects = session[s].connects /\ x.timers = session[s].timers /\ x.connect_timer = session[s].connect_timer
  <2>1. PICK n \in Nat : n = session[s].written + 1
    BY <1>2 DEF SessionRec
  <2>2. x = [session[s] EXCEPT !.written = n]
    BY <2>1
  <2> HIDE DEF x
  <2> QED BY <1>2, <2>2 DEF SessionRec
<1> HIDE DEF x
<1>4. SessionOK(x, s, pc) /\ Grows(session[s], x)
  <2>1. SessionOK(session[s], s, pc)
    BY DEF LwsIInv, SessionsOK
  <2> QED BY <1>3, <2>1 DEF SessionOK, Grows, Answered
<1>5. session' \in [Session -> SessionRec] /\ AllGrow(session, session')
  BY <1>1, <1>2, <1>3, <1>4, OneGrows
<1>6. SessionsOK(session', pc)
  BY <1>1, <1>2, <1>4, SessionsStep DEF LwsIInv
<1>7. EventsOK(session', ios)
  BY <1>5, EventsGrow DEF LwsIInv, SocketTypes
<1>8. /\ IsService(service') /\ IsTable(service'.table)
      /\ DOMAIN service'.table \subseteq DOMAIN service.table
      /\ \A w \in DOMAIN service'.table : service'.table[w].s = service.table[w].s
  <2>1. IsService(service) /\ IsTable(service.table)
    BY DEF LwsIInv, SocketTypes
  <2>2. CASE service' = service
    BY <2>1, <2>2
  <2>3. CASE service' # service
    <3> DEFINE w == session[s].wsi
               send == Append(service.table[w].send, session[s].written + 1)
               u == [service.table EXCEPT ![w].send = send]
    <3>1. /\ w \in DOMAIN service.table
          /\ service' = [service EXCEPT !.table = u, !.writeable = service.writeable \cup {w}]
      BY <1>1, <2>1, <2>3 DEF service_write, notify_writeable, IsService
    <3> HIDE DEF w, send
    <3>2. /\ DOMAIN u = DOMAIN service.table
          /\ \A o \in DOMAIN u : u[o].s = service.table[o].s /\ u[o] = [s |-> u[o].s, send |-> u[o].send]
      <4>1. DOMAIN u = DOMAIN service.table
        OBVIOUS
      <4>2. ASSUME NEW o \in DOMAIN service.table
            PROVE  u[o].s = service.table[o].s /\ u[o] = [s |-> u[o].s, send |-> u[o].send]
        <5>1. service.table[o] = [s |-> service.table[o].s, send |-> service.table[o].send]
          BY <2>1 DEF IsTable
        <5>2. u[o] = IF o = w THEN [service.table[o] EXCEPT !.send = send] ELSE service.table[o]
          BY <4>2
        <5> QED BY <5>1, <5>2
      <4> QED BY <4>1, <4>2
    <3> HIDE DEF u
    <3>3. IsService(service') /\ service'.table = u
      BY <2>1, <3>1 DEF IsService
    <3> QED BY <2>1, <3>2, <3>3 DEF IsTable
  <2> QED BY <2>2, <2>3
<1>9. TableOK(session', ios, service'.table, net)
  BY <1>5, <1>8, TableGrow DEF LwsIInv, SocketTypes
<1> QED BY <1>1, <1>5, <1>6, <1>7, <1>8, <1>9 DEF LwsIInv, SocketTypes

\* The first half of close: the session is closing and the io thread is in it.
LEMMA BeginClose ==
    ASSUME LwsIInv, NEW s \in Session, NEW x \in SessionRec, NEW after, IsPc(after),
           pc.s = NoSession, after.s = NoSession, after.k = pc.k, pc.k \in {"idle", "module"},
           x.obj => pc.k # "idle",
           /\ x.closing = session[s].closing /\ x.closed = session[s].closed
           /\ x.reported = session[s].reported
           /\ x.connects = session[s].connects /\ x.timers = session[s].timers /\ x.connect_timer = session[s].connect_timer,
           begin_close(s, x, after), UNCHANGED <<service, net, ios, torn>>
    PROVE  LwsIInv'
<1> DEFINE y == [x EXCEPT !.shut = TRUE, !.closing = IF x.closed THEN x.closing ELSE TRUE]
<1>1. session' = [session EXCEPT ![s] = y]
  BY DEF begin_close
<1>2. pc' = after \/ pc' = [after EXCEPT !.s = s]
  BY DEF begin_close
<1>3. ~(x.closing \/ x.closed) => pc' = [after EXCEPT !.s = s]
  BY DEF begin_close
<1>4. IsPc(pc') /\ pc'.k = pc.k
  BY <1>2 DEF IsPc
<1>5. ~(x.closing \/ x.closed) => pc'.s = s
  BY <1>3 DEF IsPc
<1>6. session \in [Session -> SessionRec] /\ session[s] \in SessionRec /\ SessionOK(session[s], s, pc)
  BY DEF LwsIInv, SocketTypes, SessionsOK
<1>7. y \in SessionRec
  BY DEF SessionRec
<1>8. /\ y.shut = TRUE /\ y.obj = x.obj /\ y.closed = x.closed /\ y.reported = x.reported
      /\ y.connects = x.connects /\ y.timers = x.timers /\ y.connect_timer = x.connect_timer
      /\ y.closing = IF x.closed THEN x.closing ELSE TRUE
  BY DEF SessionRec
<1> HIDE DEF y
<1>9. s # NoSession
  BY LwsAssumption
<1>10. SessionOK(y, s, pc')
  BY <1>4, <1>5, <1>6, <1>8, <1>9 DEF SessionOK
<1>11. Grows(session[s], y)
  BY <1>8 DEF Grows, Answered
<1>12. session' \in [Session -> SessionRec] /\ AllGrow(session, session')
  BY <1>1, <1>6, <1>7, <1>11, OneGrows
<1>13. SessionsOK(session', pc')
  BY <1>1, <1>4, <1>6, <1>10, SessionsStep DEF LwsIInv
<1>14. EventsOK(session', ios)
  BY <1>12, EventsGrow DEF LwsIInv, SocketTypes
<1>15. TableOK(session', ios, service.table, net)
  BY <1>12, TableGrow DEF LwsIInv, SocketTypes
<1> QED BY <1>4, <1>12, <1>13, <1>14, <1>15 DEF LwsIInv, SocketTypes

\* close, by the script.
LEMMA LuaClose ==
    ASSUME LwsIInv, NEW s \in Session, pc.s = NoSession, lua_close(s)
    PROVE  LwsIInv'
<1> DEFINE x == [session[s] EXCEPT !.obj = FALSE]
<1>1. session[s] \in SessionRec /\ IsPc(pc)
  BY DEF LwsIInv, SocketTypes
<1>2. /\ x \in SessionRec /\ x.obj = FALSE
      /\ x.closing = session[s].closing /\ x.closed = session[s].closed
      /\ x.reported = session[s].reported
      /\ x.connects = session[s].connects /\ x.timers = session[s].timers /\ x.connect_timer = session[s].connect_timer
  BY <1>1 DEF SessionRec
<1>3. begin_close(s, x, pc) /\ UNCHANGED <<service, net, ios, torn>> /\ pc.k = "idle"
  BY DEF lua_close, idle
<1> HIDE DEF x
<1> QED BY <1>1, <1>2, <1>3, BeginClose

\* close, by the module.
LEMMA CloseObject ==
    ASSUME LwsIInv, close_object
    PROVE  LwsIInv'
<1>1. PICK s \in pc.todo : begin_close(s, session[s], [pc EXCEPT !.todo = @ \ {s}])
  BY DEF close_object
<1> DEFINE after == [pc EXCEPT !.todo = @ \ {s}]
<1>2. IsPc(pc) /\ pc.k = "module" /\ pc.s = NoSession /\ UNCHANGED <<service, net, ios, torn>>
  BY DEF LwsIInv, SocketTypes, close_object
<1>3. s \in Session
  BY <1>2 DEF IsPc
<1>4. session[s] \in SessionRec
  BY <1>3 DEF LwsIInv, SocketTypes
<1>5. IsPc(after) /\ after.s = NoSession /\ after.k = pc.k
  BY <1>2 DEF IsPc
<1>6. begin_close(s, session[s], after)
  BY <1>1
<1> HIDE DEF after
<1> QED BY <1>2, <1>3, <1>4, <1>5, <1>6, BeginClose

\* connect: a timer is set, and either the connection is in the table or the
\* error is in the queue.
LEMMA LuaConnect ==
    ASSUME LwsIInv, NEW s \in Session, NEW w \in Wsi, NEW ok \in BOOLEAN,
           NEW timed \in BOOLEAN, pc.s = NoSession, lua_connect(s, w, ok, timed)
    PROVE  LwsIInv'
<1> DEFINE x == session_connect(session[s], timed)
<1>1. /\ session' = [session EXCEPT ![s] = x] /\ UNCHANGED <<pc, torn>>
      /\ service_connect(s, w, ok)
      /\ session[s].obj /\ pc.k = "idle"
  BY DEF lua_connect, idle
<1>2. /\ session \in [Session -> SessionRec] /\ session[s] \in SessionRec
      /\ IsService(service) /\ IsTable(service.table) /\ IsNet(net) /\ ios \in Seq(Event)
  BY DEF LwsIInv, SocketTypes
<1>3. PICK n \in Nat : n = session[s].connects
  BY <1>2 DEF SessionRec
<1> DEFINE ts == IF timed THEN session[s].timers \cup {n + 1} ELSE session[s].timers
           ct == IF timed THEN n + 1 ELSE session[s].connect_timer
<1>4. x = [session[s] EXCEPT !.connects = n + 1, !.timers = ts, !.connect_timer = ct]
  BY <1>3 DEF session_connect
<1> HIDE DEF x
<1>5. PICK m \in Nat : m = n + 1
  OBVIOUS
<1>6. /\ x \in SessionRec
      /\ x.obj = session[s].obj /\ x.closing = session[s].closing /\ x.closed = session[s].closed
      /\ x.reported = session[s].reported /\ x.shut = session[s].shut
      /\ x.connects = m /\ x.timers = ts /\ x.connect_timer = ct
  <2>1. x = [session[s] EXCEPT !.connects = m, !.timers = ts, !.connect_timer = ct]
    BY <1>4, <1>5
  <2>2. ts \in SUBSET Nat /\ ct \in Nat
    BY <1>2, <1>5 DEF SessionRec
  <2> HIDE DEF ts, ct
  <2> QED BY <1>2, <2>1, <2>2 DEF SessionRec
<1>7. SessionOK(session[s], s, pc)
  BY DEF LwsIInv, SessionsOK
<1>8. ~ session[s].shut /\ ~ session[s].closing
  BY <1>1, <1>7 DEF SessionOK
<1>9. n = 0 => ~ session[s].closed
  BY <1>3, <1>7 DEF SessionOK
<1>10. ts \subseteq 1 .. m
  <2>1. session[s].timers \subseteq 1 .. n
    BY <1>3, <1>7 DEF SessionOK
  <2> QED BY <1>5, <2>1
<1>11. m > 0 /\ m # 0 /\ (m <= 1 => n = 0)
  BY <1>5
<1>21. n = 0 => ts \subseteq {ct}
  <2>1. session[s].timers \subseteq 1 .. n
    BY <1>3, <1>7 DEF SessionOK
  <2>2. n = 0 => session[s].timers = {}
    BY <2>1
  <2> QED BY <2>2
<1> HIDE DEF ts, ct
<1>12. SessionOK(x, s, pc)
  BY <1>1, <1>6, <1>8, <1>9, <1>10, <1>11, <1>21 DEF SessionOK
<1>13. Grows(session[s], x)
  BY <1>6, <1>11 DEF Grows, Answered
<1>14. session' \in [Session -> SessionRec] /\ AllGrow(session, session')
  BY <1>1, <1>2, <1>6, <1>13, OneGrows
<1>15. SessionsOK(session', pc)
  BY <1>1, <1>2, <1>12, SessionsStep DEF LwsIInv
<1>16. EventsOK(session', ios)
  BY <1>14, EventsGrow DEF LwsIInv, SocketTypes
<1>17. TableOK(session', ios, service.table, net)
  BY <1>14, TableGrow DEF LwsIInv, SocketTypes
<1>18. session'[s].connects > 0
  BY <1>1, <1>2, <1>6, <1>11
<1>19. CASE ok
  <2> DEFINE t == [o \in DOMAIN service.table \cup {w} |->
                      IF o = w THEN [s |-> s, send |-> <<>>] ELSE service.table[o]]
  <2>1. /\ service' = notify_writeable([service EXCEPT !.table = t], w)
        /\ net' = [net EXCEPT ![w].st = "connecting"]
        /\ ios' = ios
    BY <1>1, <1>19 DEF service_connect
  <2>2. /\ DOMAIN t = DOMAIN service.table \cup {w}
        /\ t[w] = [s |-> s, send |-> <<>>]
        /\ \A o \in DOMAIN service.table : o # w => t[o] = service.table[o]
    OBVIOUS
  <2> HIDE DEF t
  <2>3. IsService(service') /\ service'.table = t
    BY <1>2, <2>1 DEF IsService, notify_writeable
  <2>4. IsTable(t)
    BY <1>2, <2>2 DEF IsTable
  <2>5. IsNet(net') /\ net'[w].st = "connecting" /\ \A o \in Wsi : o # w => net'[o].st = net[o].st
    BY <1>2, <2>1 DEF IsNet, IsConnection
  <2>6. TableOK(session', ios, t, net')
    <3> SUFFICES ASSUME NEW o \in DOMAIN t PROVE ConnectionOK(session', ios, t, net', o)
      BY DEF TableOK
    <3>1. CASE o = w
      <4>1. t[w].s = s
        BY <2>2
      <4> QED BY <1>18, <2>5, <3>1, <4>1 DEF ConnectionOK
    <3>2. CASE o # w
      <4>1. o \in DOMAIN service.table /\ t[o] = service.table[o] /\ o \in Wsi
        BY <2>2, <2>4, <3>2 DEF IsTable
      <4>2. ConnectionOK(session', ios, service.table, net, o)
        BY <1>17, <4>1 DEF TableOK
      <4> QED BY <2>5, <3>2, <4>1, <4>2 DEF ConnectionOK
    <3> QED BY <3>1, <3>2
  <2> QED BY <1>1, <1>14, <1>15, <1>16, <2>1, <2>3, <2>4, <2>5, <2>6 DEF LwsIInv, SocketTypes
<1>20. CASE ~ok
  <2> DEFINE e == event(s, NULL, "CONNECTION_ERROR", "none")
  <2>1. ios' = Append(ios, e) /\ UNCHANGED <<service, net>>
    BY <1>1, <1>20 DEF service_connect, report_event
  <2>2. e \in Event /\ e.s = s /\ e.reason = "CONNECTION_ERROR"
    BY DEF event, Event, Reported, Results, Data, NULL
  <2> HIDE DEF e
  <2>3. EventOK(session', ios, e, Len(ios) + 1)
    BY <1>18, <2>2 DEF EventOK, Ends
  <2>4. EventsOK(session', ios') /\ ios' \in Seq(Event)
    BY <1>2, <1>16, <2>1, <2>2, <2>3, EventsAppend, AppendProperties
  <2>5. TableOK(session', ios', service.table, net)
    BY <1>2, <1>17, <2>1, <2>2, TableAppend
  <2> QED BY <1>1, <1>14, <1>15, <2>1, <2>4, <2>5 DEF LwsIInv, SocketTypes
<1> QED BY <1>19, <1>20

\* The io thread goes on, and nothing else changes but the promise.
LEMMA PcStep ==
    ASSUME LwsIInv, UNCHANGED <<session, net, ios, torn>>,
           IsService(service'), service'.table = service.table,
           IsPc(pc'), pc'.k = "idle" => pc.k = "idle",
           pc'.s = pc.s \/ pc.s = NoSession
    PROVE  LwsIInv'
<1>1. SessionsOK(session, pc')
  BY SessionsPc DEF LwsIInv
<1> QED BY <1>1 DEF LwsIInv, SocketTypes

\* The functions of the module that wait or decide.
LEMMA ModuleSteps ==
    ASSUME LwsIInv, on_close_module \/ stop \/ wait_for \/ waited
    PROVE  LwsIInv'
<1>1. IsService(service) /\ IsPc(pc)
  BY DEF LwsIInv, SocketTypes
<1>2. CASE on_close_module
  <2>1. pc' = [at("module") EXCEPT !.todo = {s \in Session : session[s].obj}]
    BY <1>2 DEF on_close_module
  <2>2. IsPc(pc') /\ pc'.k = "module" /\ pc'.s = NoSession
    BY <2>1 DEF at, IsPc
  <2> QED BY <1>1, <1>2, <2>2, PcStep DEF on_close_module
<1>3. CASE stop
  <2>1. \E k \in {"close_all", "stopped"} : pc' = at(k)
    BY <1>3 DEF stop
  <2>2. IsPc(pc') /\ pc'.k # "idle" /\ pc'.s = NoSession
    BY <2>1, AtPc
  <2> QED BY <1>1, <1>3, <2>2, PcStep DEF stop
<1>4. CASE wait_for \/ waited
  <2>1. \E k \in {"crashed", "waiting", "syn_stop"} : pc' = at(k)
    BY <1>4 DEF wait_for, waited
  <2>2. IsPc(pc') /\ pc'.k # "idle" /\ pc'.s = NoSession
    BY <2>1, AtPc
  <2>3. UNCHANGED <<session, service, net, ios, torn>> /\ pc.k \in {"wait_for", "waiting"}
    BY <1>4 DEF wait_for, waited
  <2>4. pc.s = NoSession
    BY <1>1, <2>3 DEF IsPc
  <2> QED BY <1>1, <2>2, <2>3, <2>4, PcStep
<1> QED BY <1>2, <1>3, <1>4

\* The second half of close: the timer of the last connect is cancelled.
LEMMA EndClose ==
    ASSUME LwsIInv, end_close
    PROVE  LwsIInv'
<1> DEFINE s == pc.s
           c == cancel_timer(session[s])
           x == [c EXCEPT !.service = FALSE]
<1>0. IsPc(pc) /\ IsService(service) /\ session \in [Session -> SessionRec]
  BY DEF LwsIInv, SocketTypes
<1>1. s \in Session /\ s # NoSession
  BY <1>0 DEF end_close, IsPc
<1>2. /\ session' = [session EXCEPT ![s] = x]
      /\ service' = service_close(service, session[s].wsi)
      /\ pc' = [pc EXCEPT !.s = NoSession]
      /\ UNCHANGED <<net, ios, torn>>
  BY DEF end_close, close_service
<1> HIDE DEF s
<1>3. session[s] \in SessionRec
  BY <1>0, <1>1
<1>4. /\ c \in SessionRec
      /\ c = [session[s] EXCEPT !.timers = session[s].timers \ {session[s].connect_timer},
                                !.connect_timer = 0]
  BY <1>3, CancelTimerRec
<1> HIDE DEF c
<1>5. x \in SessionRec
  BY <1>4 DEF SessionRec
<1>6. /\ x.obj = session[s].obj /\ x.closing = session[s].closing /\ x.closed = session[s].closed
      /\ x.reported = session[s].reported /\ x.shut = session[s].shut
      /\ x.connects = session[s].connects
      /\ x.timers = session[s].timers \ {session[s].connect_timer}
  BY <1>3, <1>4 DEF SessionRec
<1> HIDE DEF x
<1>7. IsPc(pc') /\ pc'.k = pc.k /\ pc'.s = NoSession
  BY <1>0, <1>2 DEF IsPc
<1>8. SessionOK(session[s], s, pc)
  BY <1>1 DEF LwsIInv, SessionsOK
<1>9. x.connects <= 1 => x.timers = {}
  <2>1. session[s].connects <= 1 => session[s].timers \subseteq {session[s].connect_timer}
    BY <1>8 DEF SessionOK
  <2> QED BY <1>6, <2>1
<1>10. x.timers \subseteq 1 .. x.connects
  BY <1>6, <1>8 DEF SessionOK
<1>11. SessionOK(x, s, pc')
  BY <1>6, <1>7, <1>8, <1>9, <1>10 DEF SessionOK
<1>12. Grows(session[s], x)
  BY <1>6 DEF Grows, Answered
<1>13. session' \in [Session -> SessionRec] /\ AllGrow(session, session')
  BY <1>0, <1>1, <1>2, <1>5, <1>12, OneGrows
<1>14. SessionsOK(session', pc')
  BY <1>0, <1>1, <1>2, <1>7, <1>11, SessionsStep DEF LwsIInv, s
<1>15. IsService(service') /\ service'.table = service.table
  BY <1>0, <1>2 DEF service_close, notify_writeable, IsService
<1>16. EventsOK(session', ios)
  BY <1>13, EventsGrow DEF LwsIInv, SocketTypes
<1>17. TableOK(session', ios, service.table, net)
  BY <1>13, TableGrow DEF LwsIInv, SocketTypes
<1> QED BY <1>2, <1>7, <1>13, <1>14, <1>15, <1>16, <1>17 DEF LwsIInv, SocketTypes

\* A table with fewer connections.
LEMMA FewerConnections ==
    ASSUME NEW t, IsTable(t), NEW D, D \subseteq DOMAIN t
    PROVE  /\ DOMAIN Restrict(t, D) = D
           /\ IsTable(Restrict(t, D))
           /\ \A w \in D : Restrict(t, D)[w].s = t[w].s
<1> DEFINE u == Restrict(t, D)
<1>1. DOMAIN u = D /\ \A w \in D : u[w] = t[w]
  BY DEF Restrict
<1> HIDE DEF u
<1>2. IsTable(u) /\ \A w \in D : u[w].s = t[w].s
  BY <1>1 DEF IsTable
<1> QED BY <1>1, <1>2 DEF u

\* close_all: the sessions that are closed leave the table.
LEMMA CloseAll ==
    ASSUME LwsIInv, close_all
    PROVE  LwsIInv'
<1> DEFINE left == {w \in DOMAIN service.table : ~session[service.table[w].s].closed}
<1>1. /\ service' = [service EXCEPT !.table = Restrict(@, left),
                                    !.promise = IF left = {} THEN "none" ELSE "active"]
      /\ \E k \in {"syn_stop", "wait_for"} : pc' = at(k)
      /\ pc.k = "close_all"
      /\ UNCHANGED <<session, net, ios, torn>>
  BY DEF close_all
<1>2. IsService(service) /\ IsTable(service.table) /\ IsPc(pc)
  BY DEF LwsIInv, SocketTypes
<1>3. left \subseteq DOMAIN service.table
  OBVIOUS
<1> HIDE DEF left
<1>4. IsService(service') /\ service'.table = Restrict(service.table, left)
  BY <1>1, <1>2 DEF IsService
<1>5. IsPc(pc') /\ pc'.k # "idle" /\ pc'.s = NoSession /\ pc.s = NoSession
  <2>1. IsPc(pc') /\ pc'.k # "idle" /\ pc'.s = NoSession
    BY <1>1, AtPc
  <2>2. pc.s = NoSession
    BY <1>1, <1>2 DEF IsPc
  <2> QED BY <2>1, <2>2
<1>6. session \in [Session -> SessionRec] /\ ios \in Seq(Event) /\ TableOK(session, ios, service.table, net)
  BY DEF LwsIInv, SocketTypes
<1>7. AllGrow(session, session)
  BY <1>6, NoneGrows
<1> DEFINE u == Restrict(service.table, left)
<1>8. DOMAIN u \subseteq DOMAIN service.table /\ IsTable(u) /\ \A w \in DOMAIN u : u[w].s = service.table[w].s
  BY <1>2, <1>3, FewerConnections
<1> HIDE DEF u
<1>9. TableOK(session, ios, u, net)
  BY <1>2, <1>6, <1>7, <1>8, TableGrow
<1>10. SessionsOK(session, pc')
  BY <1>5, SessionsPc DEF LwsIInv
<1> QED BY <1>1, <1>4, <1>5, <1>8, <1>9, <1>10 DEF LwsIInv, SocketTypes, u

\* syn_stop: the table is empty.
LEMMA SynStop ==
    ASSUME LwsIInv, syn_stop
    PROVE  LwsIInv'
<1>1. /\ service' = [service EXCEPT !.running = FALSE, !.table = <<>>]
      /\ net' = [w \in Wsi |-> [net[w] EXCEPT !.st = IF @ = "none" THEN @ ELSE "gone"]]
      /\ pc' = at("stopped") /\ pc.k = "syn_stop"
      /\ UNCHANGED <<session, ios, torn>>
  BY DEF syn_stop
<1>2. IsService(service) /\ IsPc(pc) /\ IsNet(net)
  BY DEF LwsIInv, SocketTypes
<1>3. IsService(service') /\ service'.table = <<>>
  BY <1>1, <1>2 DEF IsService
<1>4. DOMAIN service'.table = {}
  BY <1>3
<1>5. IsTable(service'.table) /\ TableOK(session, ios, service'.table, net')
  BY <1>4 DEF IsTable, TableOK
<1>6. IsPc(pc') /\ pc'.k # "idle" /\ pc'.s = NoSession
  BY <1>1, AtPc
<1>7. pc.s = NoSession
  BY <1>1, <1>2 DEF IsPc
<1>8. SessionsOK(session, pc')
  BY <1>6, <1>7, SessionsPc DEF LwsIInv
<1>9. IsNet(net')
  BY <1>1, <1>2 DEF IsNet, IsConnection
<1> QED BY <1>1, <1>3, <1>5, <1>6, <1>8, <1>9 DEF LwsIInv, SocketTypes

\* run_event: a session that ends was answered.
LEMMA RunEvent ==
    ASSUME LwsIInv, run_event
    PROVE  LwsIInv'
<1> DEFINE e == Head(ios)
           s == e.s
           x == on_event(session[s], e)
<1>1. /\ session' = [session EXCEPT ![s] = x] /\ ios' = Tail(ios) /\ ios # <<>>
      /\ UNCHANGED <<service, net, pc, torn>>
  BY DEF run_event
<1>2. session \in [Session -> SessionRec] /\ ios \in Seq(Event) /\ IsTable(service.table)
  BY DEF LwsIInv, SocketTypes
<1>3. e \in Event /\ 1 \in DOMAIN ios /\ ios[1] = e /\ Tail(ios) \in Seq(Event)
  BY <1>1, <1>2, HeadTailProperties, LenProperties, EmptySeq
<1> HIDE DEF e
<1>4. s \in Session
  BY <1>3 DEF Event
<1>5. session[s] \in SessionRec
  BY <1>2, <1>4
<1>10. SessionOK(session[s], s, pc) /\ (session[s].closing => session[s].shut)
  BY <1>4 DEF LwsIInv, SessionsOK, SessionOK
<1>6. /\ x \in SessionRec
      /\ e.reason \in Results => Answered(x)
      /\ x.obj = session[s].obj /\ x.closing = session[s].closing /\ x.shut = session[s].shut
      /\ x.connects = session[s].connects
      /\ FewerTimers(session[s], x)
      /\ session[s].reported => x.reported
      /\ session[s].closed => x.closed
      /\ x.closed => session[s].closed \/ e.reason \in Ends
  BY <1>3, <1>5, <1>10, OnEvent
<1>7. EventOK(session, ios, e, 1)
  BY <1>3 DEF LwsIInv, EventsOK
<1>8. session[s].connects > 0
  BY <1>7 DEF EventOK
<1>9. e.reason \in Ends => Answered(session[s])
  <2>1. \A j \in DOMAIN ios : ~(j < 1)
    BY <1>2, LenProperties
  <2> QED BY <1>7, <2>1 DEF EventOK, Told
<1> HIDE DEF s, x
<1>11. session[s].connects # 0
  BY <1>5, <1>8 DEF SessionRec
<1>12. SessionOK(x, s, pc)
  BY <1>6, <1>9, <1>10, <1>11 DEF SessionOK, Answered, FewerTimers
<1>13. Grows(session[s], x)
  BY <1>6 DEF Grows, Answered
<1>14. session' \in [Session -> SessionRec] /\ AllGrow(session, session')
  BY <1>1, <1>2, <1>4, <1>6, <1>13, OneGrows
<1>15. SessionsOK(session', pc)
  BY <1>1, <1>2, <1>4, <1>12, SessionsStep DEF LwsIInv
<1>16. e.reason \in Results => Answered(session'[s])
  BY <1>1, <1>2, <1>4, <1>6
<1>17. EventsOK(session', ios')
  BY <1>1, <1>2, <1>14, <1>16, EventsTail DEF LwsIInv, e, s
<1>18. TableOK(session', ios', service.table, net)
  BY <1>1, <1>2, <1>14, <1>16, TableTail DEF LwsIInv, e, s
<1> QED BY <1>1, <1>3, <1>14, <1>15, <1>17, <1>18 DEF LwsIInv, SocketTypes

\* The connect timer answers.
LEMMA TimeoutKeeps ==
    ASSUME LwsIInv, NEW s \in Session, NEW n \in 1 .. Reconnects, connect_timeout(s, n)
    PROVE  LwsIInv'
<1> DEFINE x == handle_connect_timeout([session[s] EXCEPT !.timers = @ \ {n}])
<1>1. session' = [session EXCEPT ![s] = x] /\ UNCHANGED <<service, net, ios, pc, torn>>
  BY DEF connect_timeout
<1>2. session \in [Session -> SessionRec] /\ session[s] \in SessionRec
  BY DEF LwsIInv, SocketTypes
<1>3. n \in Nat
  BY LwsAssumption
<1>4. /\ x \in SessionRec
      /\ x.reported
      /\ x.obj = session[s].obj /\ x.closing = session[s].closing /\ x.closed = session[s].closed
      /\ x.shut = session[s].shut /\ x.connects = session[s].connects
      /\ FewerTimers(session[s], x)
  BY <1>2, <1>3, ConnectTimeout
<1> HIDE DEF x
<1>5. SessionOK(session[s], s, pc)
  BY DEF LwsIInv, SessionsOK
<1>6. SessionOK(x, s, pc)
  BY <1>4, <1>5 DEF SessionOK, FewerTimers
<1>7. Grows(session[s], x)
  BY <1>4 DEF Grows, Answered
<1>8. session' \in [Session -> SessionRec] /\ AllGrow(session, session')
  BY <1>1, <1>2, <1>4, <1>7, OneGrows
<1>9. SessionsOK(session', pc)
  BY <1>1, <1>2, <1>6, SessionsStep DEF LwsIInv
<1>10. EventsOK(session', ios)
  BY <1>8, EventsGrow DEF LwsIInv, SocketTypes
<1>11. TableOK(session', ios, service.table, net)
  BY <1>8, TableGrow DEF LwsIInv, SocketTypes
<1> QED BY <1>1, <1>8, <1>9, <1>10, <1>11 DEF LwsIInv, SocketTypes

-----------------------------------------------------------------------------
(* The steps of the service's thread and of libwebsockets.                 *)

\* check_writeable asks for callbacks only.
LEMMA CheckWriteable ==
    ASSUME LwsIInv, check_writeable
    PROVE  LwsIInv'
<1>1. /\ service' = [service EXCEPT !.writeable = {}] /\ UNCHANGED <<session, ios, pc, torn>>
      /\ \E p : net' = [w \in Wsi |-> [net[w] EXCEPT !.pollout = p[w]]]
  <2> DEFINE p == [w \in Wsi |-> \/ net[w].pollout
                                 \/ /\ w \in service.writeable \cap DOMAIN service.table
                                    /\ ~session[service.table[w].s].closed]
  <2>1. net' = [w \in Wsi |-> [net[w] EXCEPT !.pollout = p[w]]]
    BY DEF check_writeable
  <2>2. service' = [service EXCEPT !.writeable = {}] /\ UNCHANGED <<session, ios, pc, torn>>
    BY DEF check_writeable
  <2> HIDE DEF p
  <2> QED BY <2>1, <2>2
<1>2. /\ session \in [Session -> SessionRec] /\ ios \in Seq(Event)
      /\ IsService(service) /\ IsTable(service.table) /\ IsNet(net)
  BY DEF LwsIInv, SocketTypes
<1>3. IsService(service') /\ service'.table = service.table
  BY <1>1, <1>2 DEF IsService
<1>4. IsNet(net') /\ \A w \in Wsi : net'[w].st = net[w].st
  <2>1. PICK p : net' = [w \in Wsi |-> [net[w] EXCEPT !.pollout = p[w]]]
    BY <1>1
  <2>2. ASSUME NEW w \in Wsi
        PROVE  /\ net'[w] = [net[w] EXCEPT !.pollout = p[w]]
               /\ net'[w].st = net[w].st
               /\ net'[w] = [st |-> net'[w].st, pollout |-> net'[w].pollout,
                             sent |-> net'[w].sent, received |-> net'[w].received]
    <3>1. net'[w] = [net[w] EXCEPT !.pollout = p[w]]
      BY <2>1
    <3>2. net[w] = [st |-> net[w].st, pollout |-> net[w].pollout,
                    sent |-> net[w].sent, received |-> net[w].received]
      BY <1>2 DEF IsNet, IsConnection
    <3> QED BY <3>1, <3>2
  <2>3. net' = [w \in Wsi |-> net'[w]]
    BY <2>1
  <2> QED BY <2>2, <2>3 DEF IsNet, IsConnection
<1>5. AllGrow(session, session)
  BY <1>2, NoneGrows
<1>6. \A w \in DOMAIN service.table : net'[w].st = net[w].st
  BY <1>2, <1>4 DEF IsTable
<1>7. TableOK(session, ios, service.table, net')
  BY <1>2, <1>5, <1>6, TableGrow DEF LwsIInv
<1> QED BY <1>1, <1>3, <1>4, <1>7 DEF LwsIInv, SocketTypes

\* Another state of one connection.
LEMMA NetStep ==
    ASSUME IsNet(net), NEW w \in Wsi, NEW r, IsConnection(r), net' = [net EXCEPT ![w] = r]
    PROVE  IsNet(net') /\ \A o \in Wsi : o # w => net'[o] = net[o]
<1>1. net = [o \in Wsi |-> net[o]]
  BY DEF IsNet
<1>2. net'[w] = r /\ net' = [o \in Wsi |-> net'[o]] /\ \A o \in Wsi : o # w => net'[o] = net[o]
  BY <1>1
<1> QED BY <1>2 DEF IsNet

\* close_connection: the session closes no more and its connection leaves the
\* table.
LEMMA CloseConnection ==
    ASSUME LwsIInv, NEW w \in DOMAIN service.table,
           session[service.table[w].s].closing, close_connection(w),
           UNCHANGED <<ios, pc>>, IsNet(net'),
           \A o \in Wsi : o # w => net'[o] = net[o]
    PROVE  LwsIInv'
<1> DEFINE s == service.table[w].s
           v == erase(service, w)
           D == DOMAIN service.table \ {w}
           x == [session[s] EXCEPT !.closing = FALSE]
<1>1. /\ session \in [Session -> SessionRec] /\ ios \in Seq(Event)
      /\ IsService(service) /\ IsTable(service.table)
  BY DEF LwsIInv, SocketTypes
<1>2. service' = v /\ torn' = s
  BY DEF close_connection
<1>3. s \in Session /\ ConnectionOK(session, ios, service.table, net, w)
  BY <1>1 DEF IsTable, LwsIInv, TableOK
<1>4. session[s] \in SessionRec /\ session[s].closing /\ session[s].connects > 0
  BY <1>1, <1>3 DEF ConnectionOK
<1>5. session' = [session EXCEPT ![s] = x]
  <2>1. session' = [session EXCEPT ![s].closing = FALSE]
    BY DEF close_connection
  <2> HIDE DEF s
  <2> QED BY <1>1, <1>3, <2>1
<1> HIDE DEF s
<1>6. x \in SessionRec
  BY <1>4 DEF SessionRec
<1>7. /\ x.obj = session[s].obj /\ x.closing = FALSE /\ x.closed = session[s].closed
      /\ x.reported = session[s].reported /\ x.shut = session[s].shut
      /\ x.connects = session[s].connects /\ x.timers = session[s].timers /\ x.connect_timer = session[s].connect_timer
  BY <1>4 DEF SessionRec
<1> HIDE DEF x
<1>8. SessionOK(session[s], s, pc)
  BY <1>3 DEF LwsIInv, SessionsOK
<1>9. session[s].connects # 0
  BY <1>4 DEF SessionRec
<1>10. SessionOK(x, s, pc)
  BY <1>4, <1>7, <1>8, <1>9 DEF SessionOK
<1>11. Grows(session[s], x)
  BY <1>7 DEF Grows, Answered
<1>12. session' \in [Session -> SessionRec] /\ AllGrow(session, session')
  BY <1>1, <1>3, <1>5, <1>6, <1>11, OneGrows
<1>13. SessionsOK(session', pc)
  BY <1>1, <1>3, <1>5, <1>10, SessionsStep DEF LwsIInv
<1>14. EventsOK(session', ios)
  BY <1>1, <1>12, EventsGrow DEF LwsIInv
<1> DEFINE u == Restrict(service.table, D)
<1>15. IsService(service') /\ service'.table = u
  <2>1. v = [service EXCEPT !.table = u]
    BY DEF erase
  <2> HIDE DEF u, v
  <2> QED BY <1>1, <1>2, <2>1 DEF IsService
<1>16. DOMAIN u = D /\ IsTable(u) /\ \A o \in D : u[o].s = service.table[o].s
  BY <1>1, FewerConnections
<1> HIDE DEF u
<1>17. \A o \in DOMAIN u : o \in Wsi /\ o # w
  BY <1>16 DEF IsTable
<1>18. TableOK(session', ios, u, net')
  BY <1>1, <1>12, <1>16, <1>17, TableGrow DEF LwsIInv
<1> QED BY <1>2, <1>3, <1>12, <1>13, <1>14, <1>15, <1>16, <1>18 DEF LwsIInv, SocketTypes

\* A connection steps and no event is reported: one that is in the table was
\* established.
LEMMA SilentCallback ==
    ASSUME LwsIInv, NEW w \in Wsi, UNCHANGED <<session, ios, pc, torn>>,
           w \in DOMAIN service.table => net[w].st \notin {"none", "connecting"},
           IsService(service'), IsTable(service'.table),
           DOMAIN service'.table = DOMAIN service.table,
           \A o \in DOMAIN service.table : service'.table[o].s = service.table[o].s,
           IsNet(net'), \A o \in Wsi : o # w => net'[o] = net[o]
    PROVE  LwsIInv'
<1>1. /\ session \in [Session -> SessionRec] /\ ios \in Seq(Event) /\ IsTable(service.table)
      /\ TableOK(session, ios, service.table, net)
  BY DEF LwsIInv, SocketTypes
<1>2. AllGrow(session, session)
  BY <1>1, NoneGrows
<1>3. \A o \in DOMAIN service'.table :
          net'[o].st = net[o].st \/ net[o].st \notin {"none", "connecting"}
  BY <1>1 DEF IsTable
<1>4. TableOK(session, ios, service'.table, net')
  BY <1>1, <1>2, <1>3, TableGrow
<1> QED BY <1>4 DEF LwsIInv, SocketTypes

\* inner_callback, whatever libwebsockets reports.
LEMMA InnerCallback ==
    ASSUME LwsIInv, NEW w \in Wsi, NEW reason \in Reported \cup {"WRITEABLE"},
           NEW data \in Data, inner_callback(w, reason, data),
           reason \notin Results => net[w].st \notin {"none", "connecting"}
    PROVE  LwsIInv'
<1> DEFINE n == [net[w] EXCEPT !.pollout = @ /\ reason # "WRITEABLE",
                               !.received = IF reason = "RECEIVE" THEN Append(@, data) ELSE @]
<1>1. /\ session \in [Session -> SessionRec] /\ ios \in Seq(Event)
      /\ IsService(service) /\ IsTable(service.table) /\ IsNet(net)
  BY DEF LwsIInv, SocketTypes
<1>2. net[w] = [st |-> net[w].st, pollout |-> net[w].pollout,
                sent |-> net[w].sent, received |-> net[w].received]
  BY <1>1 DEF IsNet, IsConnection
<1>3. n = [st |-> n.st, pollout |-> n.pollout, sent |-> n.sent, received |-> n.received]
  <2> DEFINE a == net[w].pollout /\ reason # "WRITEABLE"
             b == IF reason = "RECEIVE" THEN Append(net[w].received, data) ELSE net[w].received
  <2>1. n = [net[w] EXCEPT !.pollout = a, !.received = b]
    OBVIOUS
  <2> HIDE DEF a, b, n
  <2>2. n = [st |-> net[w].st, pollout |-> a, sent |-> net[w].sent, received |-> b]
    BY <1>2, <2>1
  <2> QED BY <2>2
<1> HIDE DEF n
<1> DEFINE NextNet == IsNet(net') /\ \A o \in Wsi : o # w => net'[o] = net[o]
<1>4. \A st : net' = [net EXCEPT ![w] = [n EXCEPT !.st = st]] => NextNet
  <2> SUFFICES ASSUME NEW st, net' = [net EXCEPT ![w] = [n EXCEPT !.st = st]] PROVE NextNet
    OBVIOUS
  <2> DEFINE r == [n EXCEPT !.st = st]
  <2>1. IsConnection(r)
    BY <1>3 DEF IsConnection
  <2>2. net' = [net EXCEPT ![w] = r]
    OBVIOUS
  <2> HIDE DEF r
  <2>3. IsNet(net)
    BY <1>1
  <2>4. IsNet(net') /\ \A o \in Wsi : o # w => net'[o] = net[o]
    BY <2>1, <2>2, <2>3, NetStep, ZenonT(30)
  <2> QED BY <2>4
<1>5. UNCHANGED pc
  BY DEF inner_callback
<1>6. CASE w \notin DOMAIN service.table
  <2>1. net' = [net EXCEPT ![w] = [n EXCEPT !.st = succeeds(reason)]]
        /\ UNCHANGED <<session, service, ios, torn>>
    BY <1>6 DEF inner_callback, n
  <2>2. NextNet
    BY <1>4, <2>1
  <2> QED BY <1>1, <1>5, <1>6, <2>1, <2>2, SilentCallback
<1>7. CASE w \in DOMAIN service.table /\ session[service.table[w].s].closing
  <2>1. /\ close_connection(w)
        /\ net' = [net EXCEPT ![w] = [n EXCEPT !.st = fails(reason)]]
        /\ UNCHANGED ios
    BY <1>7 DEF inner_callback, n
  <2>2. NextNet
    BY <1>4, <2>1
  <2> QED BY <1>5, <1>7, <2>1, <2>2, CloseConnection
<1>8. CASE /\ w \in DOMAIN service.table /\ ~session[service.table[w].s].closing
           /\ reason = "WRITEABLE"
  <2>1. /\ UNCHANGED <<session, ios, torn>>
        /\ service' = [service EXCEPT !.table[w].send = IF @ = <<>> THEN @ ELSE Tail(@)]
        /\ \/ net' = [net EXCEPT ![w] = on_writable(w)]
           \/ net' = [net EXCEPT ![w] = [n EXCEPT !.st = fails(reason)]]
    BY <1>8 DEF inner_callback, n
  <2>2. NextNet
    <3>1. CASE net' = [net EXCEPT ![w] = on_writable(w)]
      <4> DEFINE r == on_writable(w)
      <4>1. IsConnection(r)
        BY <1>2 DEF on_writable, IsConnection
      <4> HIDE DEF r
      <4> QED BY <1>1, <3>1, <4>1, NetStep DEF r
    <3>2. CASE net' = [net EXCEPT ![w] = [n EXCEPT !.st = fails(reason)]]
      BY <1>4, <3>2
    <3> QED BY <2>1, <3>1, <3>2
  <2> DEFINE q == service.table[w].send
             send == IF q = <<>> THEN q ELSE Tail(q)
             u == [service.table EXCEPT ![w].send = send]
  <2>3. service' = [service EXCEPT !.table = u]
    BY <1>1, <2>1 DEF IsService
  <2> HIDE DEF send
  <2>4. /\ DOMAIN u = DOMAIN service.table
        /\ \A o \in DOMAIN u : u[o].s = service.table[o].s /\ u[o] = [s |-> u[o].s, send |-> u[o].send]
    <3>1. DOMAIN u = DOMAIN service.table
      OBVIOUS
    <3>2. ASSUME NEW o \in DOMAIN service.table
          PROVE  u[o].s = service.table[o].s /\ u[o] = [s |-> u[o].s, send |-> u[o].send]
      <4>1. service.table[o] = [s |-> service.table[o].s, send |-> service.table[o].send]
        BY <1>1 DEF IsTable
      <4>2. u[o] = IF o = w THEN [service.table[o] EXCEPT !.send = send] ELSE service.table[o]
        BY <3>2
      <4> QED BY <4>1, <4>2
    <3> QED BY <3>1, <3>2
  <2> HIDE DEF u
  <2>5. IsService(service') /\ service'.table = u
    BY <1>1, <2>3 DEF IsService
  <2>6. IsTable(u)
    BY <1>1, <2>4 DEF IsTable
  <2>7. net[w].st \notin {"none", "connecting"}
    BY <1>8 DEF Results
  <2> QED BY <1>5, <2>1, <2>2, <2>4, <2>5, <2>6, <2>7, SilentCallback
<1>9. CASE /\ w \in DOMAIN service.table /\ ~session[service.table[w].s].closing
           /\ reason # "WRITEABLE"
  <2> DEFINE s == service.table[w].s
             e == event(s, w, reason, data)
  <2>1. /\ ios' = Append(ios, e)
        /\ net' = [net EXCEPT ![w] = [n EXCEPT !.st = succeeds(reason)]]
        /\ service' = IF reason = "ESTABLISHED" THEN notify_writeable(service, w) ELSE service
        /\ UNCHANGED <<session, torn>>
    BY <1>9 DEF inner_callback, report_event, n
  <2>2. NextNet
    BY <1>4, <2>1
  <2>3. IsService(service') /\ service'.table = service.table
    BY <1>1, <2>1 DEF notify_writeable, IsService
  <2>4. s \in Session /\ ConnectionOK(session, ios, service.table, net, w)
    BY <1>1, <1>9 DEF IsTable, LwsIInv, TableOK
  <2>5. w \in Nat /\ reason \in Reported
    BY <1>9, LwsAssumption DEF Wsi
  <2>6. e \in Event /\ e.s = s /\ e.reason = reason
    BY <2>4, <2>5 DEF event, Event
  <2> HIDE DEF e
  <2>7. EventOK(session, ios, e, Len(ios) + 1)
    <3>1. session[s].connects > 0
      BY <2>4 DEF ConnectionOK
    <3>2. reason \in Ends => Told(session, ios, s, Len(ios) + 1)
      <4>1. reason \in Ends => net[w].st \notin {"none", "connecting"}
        BY DEF Ends, Results
      <4> QED BY <2>4, <4>1 DEF ConnectionOK
    <3> QED BY <2>6, <3>1, <3>2 DEF EventOK
  <2>8. EventsOK(session, ios') /\ ios' \in Seq(Event)
    BY <1>1, <2>1, <2>6, <2>7, EventsAppend, AppendProperties DEF LwsIInv
  <2>9. \A o \in DOMAIN service.table :
            \/ net'[o].st = net[o].st
            \/ net[o].st \notin {"none", "connecting"}
            \/ service.table[o].s = e.s /\ e.reason \in Results
    <3> SUFFICES ASSUME NEW o \in DOMAIN service.table
                 PROVE  \/ net'[o].st = net[o].st
                        \/ net[o].st \notin {"none", "connecting"}
                        \/ service.table[o].s = e.s /\ e.reason \in Results
      OBVIOUS
    <3>1. CASE o = w
      BY <2>6, <3>1
    <3>2. CASE o # w
      BY <1>1, <2>2, <3>2 DEF IsTable
    <3> QED BY <3>1, <3>2
  <2>10. TableOK(session, ios', service.table, net')
    BY <1>1, <2>1, <2>6, <2>9, TableAppend DEF LwsIInv
  <2> QED BY <1>5, <2>1, <2>2, <2>3, <2>8, <2>10 DEF LwsIInv, SocketTypes
<1> QED BY <1>6, <1>7, <1>8, <1>9

\* The steps of libwebsockets.
LEMMA ConnectionSteps ==
    ASSUME LwsIInv, NEW w \in Wsi,
           \/ established(w) \/ connection_error(w) \/ peer_close(w)
           \/ \E data \in Fragment : receive(w, data)
           \/ closed(w) \/ destroy(w) \/ writeable(w)
    PROVE  LwsIInv'
<1> DEFINE Reports(reason, data) ==
        inner_callback(w, reason, data)
        /\ (reason \notin Results => net[w].st \notin {"none", "connecting"})
<1>1. \E reason \in Reported \cup {"WRITEABLE"} : \E data \in Data : Reports(reason, data)
  <2>1. CASE established(w)
    <3>1. Reports("ESTABLISHED", "none")
      BY <2>1 DEF established, callback, Results
    <3> QED BY <3>1 DEF Reported, Results, Data
  <2>2. CASE connection_error(w)
    <3>1. Reports("CONNECTION_ERROR", "none")
      BY <2>2 DEF connection_error, callback, Results
    <3> QED BY <3>1 DEF Reported, Results, Data
  <2>3. CASE peer_close(w)
    <3>1. Reports("PEER_INITIATED_CLOSE", "none")
      BY <2>3 DEF peer_close, callback, Results
    <3> QED BY <3>1 DEF Reported, Ends, Data
  <2>4. CASE \E data \in Fragment : receive(w, data)
    <3>1. PICK data \in Fragment : receive(w, data)
      BY <2>4
    <3>2. Reports("RECEIVE", data)
      BY <3>1 DEF receive, callback, Results
    <3> QED BY <3>2 DEF Reported, Data
  <2>5. CASE closed(w)
    <3>1. Reports("CLOSED", "none")
      BY <2>5 DEF closed, callback, Results
    <3> QED BY <3>1 DEF Reported, Ends, Data
  <2>6. CASE destroy(w)
    <3>1. Reports("WSI_DESTROY", "none")
      BY <2>6 DEF destroy, callback, Results
    <3> QED BY <3>1 DEF Reported, Ends, Data
  <2>7. CASE writeable(w)
    <3>1. Reports("WRITEABLE", "none")
      BY <2>7 DEF writeable, callback, Results
    <3> QED BY <3>1 DEF Data
  <2> QED BY <2>1, <2>2, <2>3, <2>4, <2>5, <2>6, <2>7
<1>2. PICK reason \in Reported \cup {"WRITEABLE"} : \E data \in Data : Reports(reason, data)
  BY <1>1
<1>3. PICK data \in Data : Reports(reason, data)
  BY <1>2
<1> QED BY <1>3, InnerCallback

\* set_closed: the session was closed by its script.
LEMMA SetClosed ==
    ASSUME LwsIInv, ShutInv, set_closed
    PROVE  LwsIInv'
<1> DEFINE s == torn
           x == [session[s] EXCEPT !.closed = TRUE]
<1>1. /\ session \in [Session -> SessionRec] /\ ios \in Seq(Event)
      /\ IsService(service) /\ IsTable(service.table) /\ s \in Session /\ IsPc(pc)
  BY DEF LwsIInv, SocketTypes, set_closed, unlocked
<1>2. /\ session' = [session EXCEPT ![s] = x] /\ torn' = NoSession
      /\ service' = [service EXCEPT !.promise = IF DOMAIN service.table = {} THEN "none" ELSE @]
      /\ UNCHANGED <<net, ios, pc>>
  <2>1. session' = [session EXCEPT ![torn].closed = TRUE]
    BY DEF set_closed
  <2> QED BY <1>1, <2>1 DEF set_closed
<1>3. session[s] \in SessionRec /\ session[s].shut /\ session[s].connects > 0
  BY <1>1 DEF ShutInv, ShutOK
<1> HIDE DEF s
<1>4. x \in SessionRec
  BY <1>3 DEF SessionRec
<1>5. /\ x.obj = session[s].obj /\ x.closing = session[s].closing /\ x.closed = TRUE
      /\ x.reported = session[s].reported /\ x.shut = session[s].shut
      /\ x.connects = session[s].connects /\ x.timers = session[s].timers
      /\ x.connect_timer = session[s].connect_timer
  BY <1>3 DEF SessionRec
<1> HIDE DEF x
<1>6. SessionOK(session[s], s, pc)
  BY <1>1 DEF LwsIInv, SessionsOK
<1>7. session[s].connects # 0
  BY <1>3 DEF SessionRec
<1>8. SessionOK(x, s, pc)
  BY <1>3, <1>5, <1>6, <1>7 DEF SessionOK
<1>9. Grows(session[s], x)
  BY <1>5 DEF Grows, Answered
<1>10. session' \in [Session -> SessionRec] /\ AllGrow(session, session')
  BY <1>1, <1>2, <1>4, <1>9, OneGrows
<1>11. SessionsOK(session', pc)
  BY <1>1, <1>2, <1>8, SessionsStep DEF LwsIInv
<1>12. EventsOK(session', ios)
  BY <1>1, <1>10, EventsGrow DEF LwsIInv
<1>13. IsService(service') /\ service'.table = service.table
  BY <1>1, <1>2 DEF IsService
<1>14. TableOK(session', ios, service.table, net)
  BY <1>1, <1>10, TableGrow DEF LwsIInv
<1> QED BY <1>2, <1>10, <1>11, <1>12, <1>13, <1>14 DEF LwsIInv, SocketTypes

-----------------------------------------------------------------------------
(* The sockets are quiet.                                                  *)

\* The sockets start with nothing open.
LEMMA LwsStarts ==
    ASSUME lws_init
    PROVE  LwsIInv
<1>1. /\ session = [s \in Session |-> new_session] /\ service = new_service
      /\ net = [w \in Wsi |-> no_wsi] /\ ios = <<>> /\ pc = at("idle") /\ torn = NoSession
  BY DEF lws_init
<1>2. new_session \in SessionRec
  <2>1. <<>> \in Seq(Data) /\ <<>> \in Seq(Outcome) /\ <<>> \in Seq(Seq(Data))
    BY EmptySeq
  <2> QED BY <2>1 DEF new_session, SessionRec, NULL
<1>3. session \in [Session -> SessionRec] /\ \A s \in Session : session[s] = new_session
  BY <1>1, <1>2
<1>4. SessionsOK(session, pc)
  BY <1>3 DEF SessionsOK, SessionOK, new_session
<1>5. IsService(service) /\ service.table = <<>>
  BY <1>1 DEF IsService, new_service
<1>6. DOMAIN service.table = {} /\ DOMAIN ios = {}
  BY <1>1, <1>5
<1>7. IsTable(service.table) /\ TableOK(session, ios, service.table, net) /\ EventsOK(session, ios)
  BY <1>6 DEF IsTable, TableOK, EventsOK
<1>8. IsNet(net)
  BY <1>1 DEF IsNet, IsConnection, no_wsi
<1>9. IsPc(pc)
  BY <1>1, AtPc
<1>10. ios \in Seq(Event)
  BY <1>1, EmptySeq
<1> QED BY <1>1, <1>3, <1>4, <1>5, <1>7, <1>8, <1>9, <1>10 DEF LwsIInv, SocketTypes

\* Every step of the sockets preserves the invariant.
LEMMA LwsKeeps ==
    ASSUME LwsIInv, ShutInv, LwsNext
    PROVE  LwsIInv'
<1>1. CASE Script
  <2>1. ASSUME NEW ok \in BOOLEAN, lua_start(ok) PROVE LwsIInv'
    BY <2>1, LuaStart
  <2>2. ASSUME NEW s \in Session, pc.s = NoSession, lua_open(s) \/ lua_write(s) \/ lua_close(s)
        PROVE  LwsIInv'
    BY <2>2, LuaOpen, LuaWrite, LuaClose
  <2>3. ASSUME NEW s \in Session, NEW w \in Wsi, NEW ok \in BOOLEAN,
               NEW timed \in BOOLEAN, pc.s = NoSession, lua_connect(s, w, ok, timed)
        PROVE  LwsIInv'
    BY <2>3, LuaConnect
  <2>4. CASE on_close_module
    BY <2>4, ModuleSteps
  <2> QED BY <1>1, <2>1, <2>2, <2>3, <2>4 DEF Script
<1>2. CASE Io
  BY <1>2, EndClose, CloseObject, ModuleSteps, CloseAll, SynStop, RunEvent DEF Io
<1>3. CASE Timeout
  BY <1>3, TimeoutKeeps DEF Timeout
<1>4. CASE Network
  <2>1. PICK w \in Wsi : \/ established(w) \/ connection_error(w) \/ peer_close(w)
                         \/ \E data \in Fragment : receive(w, data)
    BY <1>4 DEF Network
  <2> QED BY <2>1, ConnectionSteps
<1>5. CASE ServiceThread
  <2>1. CASE check_writeable
    BY <2>1, CheckWriteable
  <2>2. CASE set_closed
    BY <2>2, SetClosed
  <2>3. CASE \E w \in Wsi : closed(w) \/ destroy(w) \/ writeable(w)
    BY <2>3, ConnectionSteps
  <2> QED BY <1>5, <2>1, <2>2, <2>3 DEF ServiceThread
<1> QED BY <1>1, <1>2, <1>3, <1>4, <1>5 DEF LwsNext

\* A step that leaves the sockets.
LEMMA LwsStutters ==
    ASSUME LwsIInv, UNCHANGED lwsVars
    PROVE  LwsIInv'
BY DEF lwsVars, LwsIInv, SocketTypes

\* A step that does not call the script.
Untold(x, y) ==
    /\ y.calls = x.calls /\ y.reads = x.reads
    /\ y.reported = x.reported /\ y.connected = x.connected
    /\ x.closed => y.closed

\* What a step may do to a session, from x to y: nothing the script sees, an
\* event, or the connect timer, which runs between two functions; and a session
\* that was closed goes on showing it.
Tells(s, x, y) ==
    \/ Untold(x, y)
    \/ \E e \in Event : y = on_event(x, e)
    \/ \E n \in Nat : /\ n \in x.timers /\ pc.s # s
                      /\ y = handle_connect_timeout([x EXCEPT !.timers = @ \ {n}])

SessionStep(s, x, y) == Tells(s, x, y) /\ (ShutOK(x, s, torn) => ShutOK(y, s, torn'))

SessionSteps == \A s \in Session : SessionStep(s, session[s], session'[s])

\* What a session shows of having been closed.
SameShut(x, y) ==
    /\ y.shut = x.shut /\ y.closing = x.closing /\ y.connects = x.connects
    /\ x.closed => y.closed

\* A step of one session: the others are not the one whose flags are written.
LEMMA OneSteps ==
    ASSUME session \in [Session -> SessionRec], NEW s \in Session, NEW x,
           session' = [session EXCEPT ![s] = x],
           SessionStep(s, session[s], x),
           \/ torn' = torn
           \/ torn = NoSession /\ torn' = s
           \/ torn = s /\ torn' = NoSession
    PROVE  SessionSteps
<1>1. session'[s] = x /\ \A o \in Session : o # s => session'[o] = session[o]
  OBVIOUS
<1> SUFFICES ASSUME NEW o \in Session, o # s PROVE SessionStep(o, session[o], session'[o])
  BY <1>1 DEF SessionSteps
<1>2. session'[o] = session[o] /\ o # NoSession
  BY <1>1, LwsAssumption
<1>3. Tells(o, session[o], session[o])
  BY DEF Tells, Untold
<1>4. ShutOK(session[o], o, torn) => ShutOK(session[o], o, torn')
  BY <1>2 DEF ShutOK
<1> QED BY <1>2, <1>3, <1>4 DEF SessionStep

\* A step of one session that leaves what it shows.
LEMMA SameSteps ==
    ASSUME session \in [Session -> SessionRec], NEW s \in Session, NEW x,
           session' = [session EXCEPT ![s] = x], torn' = torn,
           Tells(s, session[s], x), SameShut(session[s], x)
    PROVE  SessionSteps
<1>1. SessionStep(s, session[s], x)
  BY DEF SessionStep, SameShut, ShutOK
<1> QED BY <1>1, OneSteps

\* The first half of close calls nothing.
LEMMA CloseStep ==
    ASSUME session \in [Session -> SessionRec], NEW s \in Session,
           NEW x \in SessionRec, Untold(session[s], x), NEW after, begin_close(s, x, after),
           x.connects = session[s].connects, torn' = torn
    PROVE  SessionSteps
<1> DEFINE y == [x EXCEPT !.shut = TRUE, !.closing = IF x.closed THEN x.closing ELSE TRUE]
<1>1. session' = [session EXCEPT ![s] = y]
  BY DEF begin_close
<1>2. y.calls = x.calls /\ y.reads = x.reads
  BY DEF SessionRec
<1>3. y.reported = x.reported /\ y.connected = x.connected /\ y.closed = x.closed
  BY DEF SessionRec
<1>4. y.closing \/ y.closed
  BY DEF SessionRec
<1>5. y.shut = TRUE /\ y.connects = x.connects
  BY DEF SessionRec
<1> HIDE DEF y
<1>6. Tells(s, session[s], y)
  BY <1>2, <1>3 DEF Untold, Tells
<1>7. ShutOK(session[s], s, torn) => ShutOK(y, s, torn')
  BY <1>4, <1>5 DEF ShutOK
<1>8. SessionStep(s, session[s], y)
  BY <1>6, <1>7 DEF SessionStep
<1> QED BY <1>1, <1>8, OneSteps

\* Every step of the sockets is a step of the sessions.
LEMMA LwsSteps ==
    ASSUME LwsIInv, ShutInv, LwsNext
    PROVE  SessionSteps
<1>0. /\ session \in [Session -> SessionRec] /\ ios \in Seq(Event) /\ IsTable(service.table)
      /\ IsPc(pc) /\ torn \in Session \cup {NoSession}
  BY DEF LwsIInv, SocketTypes
<1>1. ASSUME UNCHANGED <<session, torn>> PROVE SessionSteps
  BY <1>1 DEF SessionSteps, SessionStep, Tells, Untold
<1>2. ASSUME NEW s \in Session, lua_open(s) PROVE SessionSteps
  <2> DEFINE x == [session[s] EXCEPT !.obj = TRUE]
  <2>1. session' = [session EXCEPT ![s] = x] /\ torn' = torn
    BY <1>2 DEF lua_open
  <2>2. Untold(session[s], x) /\ SameShut(session[s], x)
    BY <1>0 DEF SessionRec, Untold, SameShut
  <2> HIDE DEF x
  <2> QED BY <1>0, <2>1, <2>2, SameSteps DEF Tells
<1>3. ASSUME NEW s \in Session, lua_write(s) PROVE SessionSteps
  <2> DEFINE n == session[s].written + 1
             x == [session[s] EXCEPT !.written = n]
  <2>1. session' = [session EXCEPT ![s] = x] /\ torn' = torn
    BY <1>3 DEF lua_write
  <2> HIDE DEF n
  <2>2. Untold(session[s], x) /\ SameShut(session[s], x)
    BY <1>0 DEF SessionRec, Untold, SameShut
  <2> HIDE DEF x
  <2> QED BY <1>0, <2>1, <2>2, SameSteps DEF Tells
<1>4. ASSUME NEW s \in Session, lua_close(s) PROVE SessionSteps
  <2> DEFINE x == [session[s] EXCEPT !.obj = FALSE]
  <2>1. begin_close(s, x, pc) /\ torn' = torn
    BY <1>4 DEF lua_close
  <2>2. session[s] \in SessionRec
    BY <1>0
  <2>3. x \in SessionRec /\ Untold(session[s], x) /\ x.connects = session[s].connects
    BY <2>2 DEF SessionRec, Untold
  <2> HIDE DEF x
  <2> QED BY <1>0, <2>1, <2>3, CloseStep
<1>5. ASSUME NEW s \in Session, NEW w \in Wsi, NEW ok \in BOOLEAN, NEW timed \in BOOLEAN,
             lua_connect(s, w, ok, timed)
      PROVE  SessionSteps
  <2> DEFINE n == session[s].connects + 1
             v == IF timed THEN session[s].timers \cup {n} ELSE session[s].timers
             c == IF timed THEN n ELSE session[s].connect_timer
             x == [session[s] EXCEPT !.connects = n, !.timers = v, !.connect_timer = c]
  <2>1. session' = [session EXCEPT ![s] = x] /\ torn' = torn /\ torn = NoSession
    BY <1>5 DEF lua_connect, session_connect, unlocked
  <2> HIDE DEF n, v, c
  <2>2. /\ Untold(session[s], x) /\ x.shut = session[s].shut /\ x.closing = session[s].closing
        /\ x.closed = session[s].closed
    BY <1>0 DEF SessionRec, Untold
  <2> HIDE DEF x
  <2>3. s # NoSession
    BY LwsAssumption
  <2>4. SessionStep(s, session[s], x)
    BY <2>1, <2>2, <2>3 DEF SessionStep, Tells, ShutOK
  <2> QED BY <1>0, <2>1, <2>4, OneSteps
<1>6. ASSUME end_close PROVE SessionSteps
  <2> DEFINE s == pc.s
             c == cancel_timer(session[s])
             x == [c EXCEPT !.service = FALSE]
  <2>1. s \in Session /\ session' = [session EXCEPT ![s] = x] /\ torn' = torn
    BY <1>0, <1>6 DEF end_close, close_service, IsPc
  <2> HIDE DEF s
  <2>2. session[s] \in SessionRec
    BY <1>0, <2>1
  <2>3. c = [session[s] EXCEPT !.timers = session[s].timers \ {session[s].connect_timer},
                               !.connect_timer = 0]
    BY <2>2, CancelTimerRec
  <2> HIDE DEF c
  <2>4. Untold(session[s], x) /\ SameShut(session[s], x)
    BY <2>2, <2>3 DEF SessionRec, Untold, SameShut
  <2> HIDE DEF x
  <2> QED BY <1>0, <2>1, <2>4, SameSteps DEF Tells
<1>7. ASSUME close_object PROVE SessionSteps
  <2>1. PICK s \in pc.todo : begin_close(s, session[s], [pc EXCEPT !.todo = @ \ {s}])
    BY <1>7 DEF close_object
  <2>2. s \in Session /\ session[s] \in SessionRec /\ torn' = torn
    BY <1>0, <1>7 DEF IsPc, close_object
  <2>3. Untold(session[s], session[s])
    BY DEF Untold
  <2> QED BY <1>0, <2>1, <2>2, <2>3, CloseStep
<1>8. ASSUME run_event PROVE SessionSteps
  <2> DEFINE e == Head(ios)
             s == e.s
             x == on_event(session[s], e)
  <2>1. session' = [session EXCEPT ![s] = x] /\ ios # <<>> /\ torn' = torn
    BY <1>8 DEF run_event
  <2>2. e \in Event
    BY <1>0, <2>1, HeadTailProperties
  <2> HIDE DEF e
  <2>3. s \in Session
    BY <2>2 DEF Event
  <2>4. Tells(s, session[s], x)
    BY <2>2 DEF Tells
  <2>5. session[s] \in SessionRec /\ (session[s].closing => session[s].shut)
    BY <1>0, <2>3 DEF LwsIInv, SessionsOK, SessionOK
  <2>6. SameShut(session[s], x)
    BY <2>2, <2>5, OnEvent DEF SameShut
  <2> HIDE DEF s, x
  <2> QED BY <1>0, <2>1, <2>3, <2>4, <2>6, SameSteps
<1>9. ASSUME NEW s \in Session, NEW n \in 1 .. Reconnects, connect_timeout(s, n) PROVE SessionSteps
  <2> DEFINE x == handle_connect_timeout([session[s] EXCEPT !.timers = @ \ {n}])
  <2>1. /\ session' = [session EXCEPT ![s] = x] /\ n \in session[s].timers /\ pc.s = NoSession
        /\ torn' = torn
    BY <1>9 DEF connect_timeout, between
  <2>2. n \in Nat /\ session[s] \in SessionRec
    BY <1>0, LwsAssumption
  <2>3. Tells(s, session[s], x)
    BY <2>1, <2>2, LwsAssumption DEF Tells
  <2>4. SameShut(session[s], x)
    BY <2>2, ConnectTimeout DEF SameShut
  <2> HIDE DEF x
  <2> QED BY <1>0, <2>1, <2>3, <2>4, SameSteps
<1>10. ASSUME NEW w \in DOMAIN service.table, torn = NoSession,
              session[service.table[w].s].closing, close_connection(w)
       PROVE  SessionSteps
  <2> DEFINE s == service.table[w].s
             y == [session[s] EXCEPT !.closing = FALSE]
  <2>1. s \in Session /\ ConnectionOK(session, ios, service.table, net, w)
    BY <1>0 DEF IsTable, LwsIInv, TableOK
  <2>2. session[s] \in SessionRec /\ session[s].shut /\ session[s].connects > 0
    BY <1>0, <1>10, <2>1 DEF LwsIInv, SessionsOK, SessionOK, ConnectionOK
  <2>3. session' = [session EXCEPT ![s].closing = FALSE] /\ torn' = s
    BY <1>10 DEF close_connection
  <2> HIDE DEF s
  <2>4. session' = [session EXCEPT ![s] = y]
    BY <1>0, <2>1, <2>3
  <2>5. Untold(session[s], y) /\ y.shut = session[s].shut /\ y.connects = session[s].connects
    BY <2>2 DEF SessionRec, Untold
  <2> HIDE DEF y
  <2>6. SessionStep(s, session[s], y)
    BY <2>2, <2>3, <2>5 DEF SessionStep, Tells, ShutOK
  <2> QED BY <1>0, <1>10, <2>1, <2>3, <2>4, <2>6, OneSteps
<1>11. ASSUME NEW w, NEW reason, NEW data, torn = NoSession, inner_callback(w, reason, data)
       PROVE  SessionSteps
  <2>1. \/ UNCHANGED <<session, torn>>
        \/ /\ w \in DOMAIN service.table /\ session[service.table[w].s].closing
           /\ close_connection(w)
    BY <1>11 DEF inner_callback
  <2> QED BY <1>1, <1>10, <1>11, <2>1
<1>12. ASSUME NEW w, NEW reason, NEW data, callback(w, reason, data) PROVE SessionSteps
  BY <1>11, <1>12 DEF callback, working, unlocked
<1>18. ASSUME set_closed PROVE SessionSteps
  <2> DEFINE s == torn
             y == [session[s] EXCEPT !.closed = TRUE]
  <2>1. s \in Session /\ torn' = NoSession /\ session' = [session EXCEPT ![s].closed = TRUE]
    BY <1>0, <1>18 DEF set_closed, unlocked
  <2>2. session[s] \in SessionRec
    BY <1>0, <2>1
  <2>3. session' = [session EXCEPT ![s] = y] /\ s # NoSession
    BY <1>0, <2>1, LwsAssumption
  <2>4. Untold(session[s], y) /\ y.closed = TRUE
    BY <2>2 DEF SessionRec, Untold
  <2>6. torn' # s
    BY <2>1, <2>3
  <2> HIDE DEF y
  <2>5. SessionStep(s, session[s], y)
    BY <2>4, <2>6 DEF SessionStep, Tells, ShutOK
  <2> QED BY <1>0, <2>1, <2>3, <2>5, OneSteps
<1>13. CASE Script
  BY <1>1, <1>2, <1>3, <1>4, <1>5, <1>13 DEF Script, lua_start, on_close_module
<1>14. CASE Io
  BY <1>1, <1>6, <1>7, <1>8, <1>14 DEF Io, stop, close_all, wait_for, waited, syn_stop
<1>15. CASE Timeout
  BY <1>9, <1>15 DEF Timeout
<1>16. CASE Network
  BY <1>12, <1>16 DEF Network, established, connection_error, peer_close, receive
<1>17. CASE ServiceThread
  BY <1>1, <1>12, <1>17, <1>18
     DEF ServiceThread, check_writeable, closed, destroy, writeable
<1> QED BY <1>13, <1>14, <1>15, <1>16, <1>17 DEF LwsNext

\* A session that was closed goes on showing it.
LEMMA ShutKeeps ==
    ASSUME ShutInv, SessionSteps
    PROVE  ShutInv'
BY DEF ShutInv, SessionSteps, SessionStep

\* What a step may do to the sessions that were closed.
QuietStep ==
    \A s \in Session :
        session[s].shut /\ torn # s
            => /\ UNCHANGED session[s].reads
               /\ session'[s].calls # session[s].calls
                    => session[s].connects > 1 /\ session[s].timers # {}

\* Every step of the sockets is quiet.
LEMMA LwsQuiet ==
    ASSUME LwsIInv, ShutInv, SessionSteps
    PROVE  QuietStep
<1> SUFFICES ASSUME NEW s \in Session, session[s].shut, torn # s
             PROVE  /\ UNCHANGED session[s].reads
                    /\ session'[s].calls # session[s].calls
                         => session[s].connects > 1 /\ session[s].timers # {}
  BY DEF QuietStep
<1>1. session[s] \in SessionRec /\ SessionOK(session[s], s, pc) /\ ShutOK(session[s], s, torn)
  BY DEF LwsIInv, SocketTypes, SessionsOK, ShutInv
<1>2. CASE Untold(session[s], session'[s])
  BY <1>2 DEF Untold
<1>3. ASSUME NEW e \in Event, session'[s] = on_event(session[s], e)
      PROVE  UNCHANGED <<session[s].calls, session[s].reads>>
  <2>1. (session[s].closing \/ session[s].closed) /\ (session[s].closing => session[s].shut)
    BY <1>1 DEF SessionOK, ShutOK
  <2>2. session'[s] = session[s]
    BY <1>1, <1>3, <2>1, OnEvent
  <2> QED BY <2>2
<1>4. ASSUME NEW n \in Nat, n \in session[s].timers, pc.s # s,
             session'[s] = handle_connect_timeout([session[s] EXCEPT !.timers = @ \ {n}])
      PROVE  /\ UNCHANGED session[s].reads
             /\ session'[s].calls # session[s].calls
                  => session[s].connects > 1 /\ session[s].timers # {}
  <2>1. session[s].connects <= 1 => session[s].reported
    BY <1>1, <1>4 DEF SessionOK
  <2> DEFINE y == handle_connect_timeout([session[s] EXCEPT !.timers = @ \ {n}])
  <2>2. y.reads = session[s].reads /\ (session[s].reported => y.calls = session[s].calls)
    BY <1>1, ConnectTimeout
  <2> HIDE DEF y
  <2>3. session'[s] = y
    BY <1>4 DEF y
  <2>4. PICK k \in Nat : k = session[s].connects
    BY <1>1 DEF SessionRec
  <2>5. k <= 1 \/ k > 1
    OBVIOUS
  <2> QED BY <1>4, <2>1, <2>2, <2>3, <2>4, <2>5
<1>5. Tells(s, session[s], session'[s])
  BY DEF SessionSteps, SessionStep
<1> QED BY <1>2, <1>3, <1>4, <1>5 DEF Tells

-----------------------------------------------------------------------------
(* A session is answered once.                                             *)

Answer3 == {"connected", "failed", "timeout"}

\* What the script was told of a session.
AnsweredOnce(x) ==
    /\ ~x.reported => x.calls = <<>>
    /\ x.reported => \E a \in Answer3 :
                        \/ x.calls = <<a>>
                        \/ x.closed /\ x.calls = <<a, "disconnected">>

\* A session that was connected was answered, so that a disconnection is never
\* the first that the script is told.
CallsOK(x) == (x.connected => x.reported) /\ AnsweredOnce(x)

CallsInv == \A s \in Session : CallsOK(session[s])

\* report_connection_result answers what was not answered.
LEMMA SettledOnce ==
    ASSUME NEW x \in SessionRec, AnsweredOnce(x), NEW v \in Nat, NEW what \in Answer3,
           NEW y, y = Settled(x, v, what)
    PROVE  y.reported /\ AnsweredOnce(y)
<1>1. CASE x.reported
  <2>1. y = x
    BY <1>1 DEF Settled
  <2> QED BY <1>1, <2>1
<1>2. CASE ~x.reported
  <2> DEFINE c == call(x, what)
             d == [c EXCEPT !.wsi = v, !.reported = TRUE]
  <2>0. what \in Outcome
    BY DEF Answer3, Outcome
  <2>1. c \in SessionRec /\ c = [x EXCEPT !.calls = Append(x.calls, what)]
    BY <2>0, CallRec
  <2>2. x.calls = <<>>
    BY <1>2 DEF AnsweredOnce
  <2>3. Append(x.calls, what) = <<what>>
    BY <2>2
  <2>4. c = [x EXCEPT !.calls = <<what>>]
    BY <2>1, <2>3
  <2> HIDE DEF c
  <2>5. d \in SessionRec /\ d.calls = <<what>> /\ d.reported = TRUE
    BY <2>1, <2>4 DEF SessionRec
  <2>6. y = cancel_timer(d)
    BY <1>2 DEF Settled, c
  <2> HIDE DEF d
  <2>7. y = [d EXCEPT !.timers = d.timers \ {d.connect_timer}, !.connect_timer = 0]
    BY <2>5, <2>6, CancelTimerRec
  <2>8. y.calls = <<what>> /\ y.reported = TRUE
    BY <2>5, <2>7 DEF SessionRec
  <2> QED BY <2>8 DEF AnsweredOnce
<1> QED BY <1>1, <1>2

\* A second call.
LEMMA AppendSecond ==
    ASSUME NEW a, NEW b
    PROVE  Append(<<a>>, b) = <<a, b>>
<1> DEFINE S == {a, b}
           s == <<a>>
           t == <<a, b>>
<1>1. s \in Seq(S) /\ t \in Seq(S) /\ b \in S
  OBVIOUS
<1>2. Len(s) = 1 /\ s[1] = a /\ Len(t) = 2 /\ t[1] = a /\ t[2] = b
  OBVIOUS
<1> HIDE DEF S, s, t
<1> DEFINE u == Append(s, b)
<1>3. u \in Seq(S) /\ Len(u) = Len(s) + 1 /\ u[Len(s) + 1] = b
      /\ \A i \in 1 .. Len(s) : u[i] = s[i]
  BY <1>1, AppendProperties
<1> HIDE DEF u
<1>4. Len(u) = 2 /\ u[1] = a /\ u[2] = b
  BY <1>2, <1>3
<1>5. \A i \in 1 .. Len(u) : u[i] = t[i]
  BY <1>2, <1>4
<1>6. u = t
  BY <1>1, <1>2, <1>3, <1>4, <1>5, SeqEqual
<1> QED BY <1>6 DEF u, s, t

\* The end of a connection is told after the answer.
LEMMA DisconnectedOnce ==
    ASSUME NEW x \in SessionRec, CallsOK(x), ~x.closed,
           NEW y, y = report_disconnected([x EXCEPT !.closed = TRUE])
    PROVE  CallsOK(y)
<1> DEFINE c == [x EXCEPT !.closed = TRUE]
<1>1. /\ c \in SessionRec /\ c.closed = TRUE /\ c.calls = x.calls
      /\ c.reported = x.reported /\ c.connected = x.connected
  BY DEF SessionRec
<1> HIDE DEF c
<1>2. CASE ~x.connected
  <2>1. y = c
    BY <1>1, <1>2 DEF report_disconnected, c
  <2> QED BY <1>1, <2>1 DEF CallsOK, AnsweredOnce
<1>3. CASE x.connected
  <2>1. y = call(c, "disconnected")
    BY <1>1, <1>3 DEF report_disconnected, c
  <2>2. "disconnected" \in Outcome
    BY DEF Outcome
  <2>3. y = [c EXCEPT !.calls = Append(c.calls, "disconnected")]
    BY <1>1, <2>1, <2>2, CallRec
  <2>4. x.reported
    BY <1>3 DEF CallsOK
  <2>5. PICK a \in Answer3 : x.calls = <<a>>
    BY <2>4 DEF CallsOK, AnsweredOnce
  <2>6. Append(c.calls, "disconnected") = <<a, "disconnected">>
    BY <1>1, <2>5, AppendSecond
  <2>7. y = [c EXCEPT !.calls = <<a, "disconnected">>]
    BY <2>3, <2>6
  <2>8. /\ y.calls = <<a, "disconnected">> /\ y.closed = TRUE
        /\ y.reported = x.reported /\ y.connected = x.connected
    BY <1>1, <2>7 DEF SessionRec
  <2> QED BY <2>4, <2>8 DEF CallsOK, AnsweredOnce
<1> QED BY <1>2, <1>3

\* An event tells the script once.
LEMMA EventOnce ==
    ASSUME NEW x \in SessionRec, CallsOK(x), NEW e \in Event, NEW y, y = on_event(x, e)
    PROVE  CallsOK(y)
<1>0. e.wsi \in Nat /\ e.reason \in Reported /\ e.data \in Data
  BY DEF Event
<1>1. CASE x.closing \/ x.closed
  <2>1. y = x
    BY <1>1 DEF on_event
  <2> QED BY <2>1
<1>2. CASE ~(x.closing \/ x.closed) /\ e.reason = "ESTABLISHED"
  <2> DEFINE c == [x EXCEPT !.connected = TRUE]
  <2>1. c \in SessionRec /\ c.reported = x.reported /\ c.calls = x.calls /\ c.closed = x.closed
    BY DEF SessionRec
  <2>2. y = Settled(c, e.wsi, "connected")
    BY <1>2 DEF on_event, report_connection_result, Settled
  <2> HIDE DEF c
  <2>3. AnsweredOnce(c) /\ "connected" \in Answer3
    BY <2>1 DEF CallsOK, AnsweredOnce, Answer3
  <2>4. y.reported /\ AnsweredOnce(y)
    BY <1>0, <2>1, <2>2, <2>3, SettledOnce
  <2> QED BY <2>4 DEF CallsOK
<1>3. CASE ~(x.closing \/ x.closed) /\ e.reason = "CONNECTION_ERROR"
  <2>1. y = report_connection_result(x, e.wsi, FALSE, "failed")
    BY <1>3 DEF on_event
  <2>2. AnsweredOnce(x) /\ "failed" \in Answer3 /\ "failed" \in Outcome
    BY DEF CallsOK, Answer3, Outcome
  <2>3. y = Settled(x, x.wsi, "failed") /\ x.wsi \in Nat
    BY <2>1, <2>2, NotConnected
  <2>4. y.reported /\ AnsweredOnce(y)
    BY <2>2, <2>3, SettledOnce
  <2> QED BY <2>4 DEF CallsOK
<1>4. CASE ~(x.closing \/ x.closed) /\ e.reason = "RECEIVE"
  <2> DEFINE text == Append(x.msg, e.data)
             r == Append(x.reads, text)
  <2>1. y = [x EXCEPT !.reads = r, !.msg = <<>>] \/ y = [x EXCEPT !.msg = text]
    BY <1>4 DEF on_event, report_read_data, get_completed_json_message
  <2> HIDE DEF text, r
  <2>2. y.calls = x.calls /\ y.reported = x.reported /\ y.connected = x.connected /\ y.closed = x.closed
    BY <2>1 DEF SessionRec
  <2> QED BY <2>2 DEF CallsOK, AnsweredOnce
<1>5. CASE ~(x.closing \/ x.closed) /\ e.reason \in Ends
  <2>1. y = report_disconnected([x EXCEPT !.closed = TRUE])
    BY <1>5 DEF on_event, Ends
  <2> QED BY <1>5, <2>1, DisconnectedOnce
<1> QED BY <1>0, <1>1, <1>2, <1>3, <1>4, <1>5 DEF Reported, Results

\* The connect timer tells the script once.
LEMMA SocketTimeoutOnce ==
    ASSUME NEW x \in SessionRec, CallsOK(x), NEW n \in Nat,
           NEW y, y = handle_connect_timeout([x EXCEPT !.timers = @ \ {n}])
    PROVE  CallsOK(y)
<1> DEFINE c == [x EXCEPT !.timers = x.timers \ {n}]
<1>1. c \in SessionRec /\ c.reported = x.reported /\ c.calls = x.calls /\ c.closed = x.closed
  BY DEF SessionRec
<1>2. y = report_connection_result(c, NULL, FALSE, "timeout")
  BY DEF handle_connect_timeout
<1> HIDE DEF c
<1>3. AnsweredOnce(c) /\ "timeout" \in Answer3 /\ "timeout" \in Outcome
  BY <1>1 DEF CallsOK, AnsweredOnce, Answer3, Outcome
<1>4. y = Settled(c, c.wsi, "timeout") /\ c.wsi \in Nat
  BY <1>1, <1>2, <1>3, NotConnected
<1>5. y.reported /\ AnsweredOnce(y)
  BY <1>1, <1>3, <1>4, SettledOnce
<1> QED BY <1>5 DEF CallsOK

\* Every step of the sockets tells the script once.
LEMMA LwsOnce ==
    ASSUME LwsIInv, CallsInv, SessionSteps
    PROVE  CallsInv'
<1> SUFFICES ASSUME NEW s \in Session PROVE CallsOK(session'[s])
  BY DEF CallsInv
<1>1. session[s] \in SessionRec /\ CallsOK(session[s])
  BY DEF LwsIInv, SocketTypes, CallsInv
<1>2. CASE Untold(session[s], session'[s])
  BY <1>1, <1>2 DEF Untold, CallsOK, AnsweredOnce
<1>3. ASSUME NEW e \in Event, session'[s] = on_event(session[s], e)
      PROVE  CallsOK(session'[s])
  BY <1>1, <1>3, EventOnce
<1>4. ASSUME NEW n \in Nat,
             session'[s] = handle_connect_timeout([session[s] EXCEPT !.timers = @ \ {n}])
      PROVE  CallsOK(session'[s])
  BY <1>1, <1>4, SocketTimeoutOnce
<1> QED BY <1>2, <1>3, <1>4 DEF SessionSteps, SessionStep, Tells

-----------------------------------------------------------------------------
(* The timers.                                                             *)

TimerRec ==
    [obj : BOOLEAN, interval : Nat, total_times : Int, invoke_times : Nat, is_cancel : BOOLEAN,
     wait : {"off", "waiting", "queued"}, fired : Nat, closed : BOOLEAN]

\* A timer that is closed is cancelled; one with a count that waits has calls
\* left.
TimerOK(x) ==
    /\ x.closed => x.is_cancel
    /\ x.invoke_times = x.fired
    /\ x.total_times > 0 => x.fired <= x.total_times
    /\ x.total_times > 0 /\ ~x.is_cancel /\ x.wait # "off" => x.fired < x.total_times

TimerIInv == timer \in [Timer -> TimerRec] /\ \A t \in Timer : TimerOK(timer[t])

\* What a step may do to a timer.
Abides(x, y) ==
    /\ x.closed => y.fired = x.fired
    /\ x.total_times > 0 => y.fired <= x.total_times

QuietTimers == \A t \in Timer : Abides(timer[t], timer'[t])

\* What becomes of a timer that does not call.
LEMMA TimerWaits ==
    ASSUME NEW x \in TimerRec, TimerOK(x), NEW y \in TimerRec,
           y.fired = x.fired, y.invoke_times = x.invoke_times, y.total_times = x.total_times,
           x.is_cancel => y.is_cancel, y.closed => x.closed \/ y.is_cancel,
           y.wait # "off" => x.wait # "off"
    PROVE  TimerOK(y) /\ Abides(x, y)
BY DEF TimerOK, Abides

\* Cancelling leaves a timer.
LEMMA CancelTimer ==
    ASSUME NEW x \in TimerRec, NEW y, y = cancel(x)
    PROVE  /\ y \in TimerRec
           /\ y.is_cancel /\ y.fired = x.fired /\ y.invoke_times = x.invoke_times
           /\ y.total_times = x.total_times
           /\ y.wait # "off" => x.wait # "off"
<1>1. y = [x EXCEPT !.is_cancel = TRUE, !.wait = IF x.wait = "waiting" THEN "queued" ELSE x.wait]
  BY DEF cancel
<1> QED BY <1>1 DEF TimerRec

\* close_timer, with the object or without.
LEMMA CloseTimer ==
    ASSUME NEW x \in TimerRec, TimerOK(x), NEW o \in BOOLEAN,
           NEW y, y = close_timer([x EXCEPT !.obj = o])
    PROVE  y \in TimerRec /\ TimerOK(y) /\ Abides(x, y)
<1> DEFINE c == [x EXCEPT !.obj = o, !.closed = TRUE]
<1>1. y = cancel(c)
  BY DEF close_timer, TimerRec
<1>2. /\ c \in TimerRec /\ c.fired = x.fired /\ c.invoke_times = x.invoke_times
      /\ c.total_times = x.total_times /\ c.wait = x.wait
  BY DEF TimerRec
<1> HIDE DEF c
<1>3. /\ y \in TimerRec
      /\ y.is_cancel /\ y.fired = c.fired /\ y.invoke_times = c.invoke_times
      /\ y.total_times = c.total_times
      /\ y.wait # "off" => c.wait # "off"
  BY <1>1, <1>2, CancelTimer
<1> QED BY <1>2, <1>3, TimerWaits

\* on_timer: a cancelled timer does nothing, another one has a call left.
LEMMA OnTimer ==
    ASSUME NEW x \in TimerRec, TimerOK(x), x.wait = "queued", NEW closes \in BOOLEAN,
           NEW y, y = on_timer(x, closes)
    PROVE  y \in TimerRec /\ TimerOK(y) /\ Abides(x, y)
<1>1. CASE x.is_cancel
  <2>1. y = [x EXCEPT !.wait = "off"]
    BY <1>1 DEF on_timer
  <2>2. /\ y \in TimerRec /\ y.fired = x.fired /\ y.invoke_times = x.invoke_times
        /\ y.total_times = x.total_times /\ y.wait = "off"
        /\ y.is_cancel = x.is_cancel /\ y.closed = x.closed
    BY <2>1 DEF TimerRec
  <2> QED BY <2>2, TimerWaits
<1>2. CASE ~x.is_cancel
  <2> DEFINE f == x.fired + 1
             i == x.invoke_times + 1
             c == [x EXCEPT !.fired = f, !.invoke_times = i]
             d == handle_timeout(x, closes)
  <2>1. PICK n \in Nat, total \in Int : n = x.fired /\ total = x.total_times
    BY DEF TimerRec
  <2>2. f = n + 1 /\ i = n + 1 /\ f \in Nat /\ i \in Nat
    BY <2>1 DEF TimerOK
  <2>3. d = c \/ d = cancel([c EXCEPT !.obj = FALSE, !.closed = TRUE])
    BY DEF handle_timeout
  <2> HIDE DEF f, i, d
  <2>4. /\ d \in TimerRec /\ d.fired = f /\ d.invoke_times = i /\ d.total_times = x.total_times
        /\ d.closed => d.is_cancel
    <3>1. c \in TimerRec /\ c.fired = f /\ c.invoke_times = i /\ c.total_times = x.total_times
          /\ c.closed = x.closed /\ c.is_cancel = x.is_cancel
      BY <2>2 DEF TimerRec
    <3> HIDE DEF c
    <3>2. CASE d = c
      BY <3>1, <3>2 DEF TimerOK
    <3>3. CASE d = cancel([c EXCEPT !.obj = FALSE, !.closed = TRUE])
      <4> DEFINE e == [c EXCEPT !.obj = FALSE, !.closed = TRUE]
      <4>1. e \in TimerRec /\ e.fired = c.fired /\ e.invoke_times = c.invoke_times
            /\ e.total_times = c.total_times
        BY <3>1 DEF TimerRec
      <4>2. d = cancel(e)
        BY <3>3
      <4> HIDE DEF e
      <4>3. /\ d \in TimerRec /\ d.is_cancel /\ d.fired = e.fired
            /\ d.invoke_times = e.invoke_times /\ d.total_times = e.total_times
        BY <4>1, <4>2, CancelTimer
      <4> QED BY <3>1, <4>1, <4>3
    <3> QED BY <2>3, <3>2, <3>3
  <2> HIDE DEF c
  <2>5. y = [d EXCEPT !.wait = IF again(d) THEN "waiting" ELSE "off"]
    BY <1>2 DEF on_timer, d
  <2>6. again(d) <=> total < 0 \/ n + 1 < total
    BY <2>1, <2>2, <2>4 DEF again
  <2>7. /\ y \in TimerRec /\ y.fired = d.fired /\ y.invoke_times = d.invoke_times
        /\ y.total_times = d.total_times /\ y.closed = d.closed /\ y.is_cancel = d.is_cancel
        /\ y.wait # "off" => again(d)
    BY <2>4, <2>5 DEF TimerRec
  <2>8. y.fired = n + 1 /\ y.invoke_times = n + 1 /\ y.total_times = total
    BY <2>1, <2>2, <2>4, <2>7
  <2>9. total > 0 => n < total
    BY <1>2, <2>1 DEF TimerOK
  <2>10. total > 0 => n + 1 <= total
    BY <2>9
  <2>11. total > 0 /\ y.wait # "off" => n + 1 < total
    BY <2>6, <2>7
  <2>12. TimerOK(y)
    BY <2>4, <2>7, <2>8, <2>10, <2>11 DEF TimerOK
  <2>13. ~ x.closed
    BY <1>2 DEF TimerOK
  <2>14. Abides(x, y)
    BY <2>1, <2>8, <2>10, <2>13 DEF Abides
  <2> QED BY <2>7, <2>12, <2>14
<1> QED BY <1>1, <1>2

\* A step of one timer.
LEMMA OneTimer ==
    ASSUME TimerIInv, NEW t \in Timer, NEW y \in TimerRec, timer' = [timer EXCEPT ![t] = y],
           TimerOK(y), Abides(timer[t], y)
    PROVE  TimerIInv' /\ QuietTimers
<1>1. timer' \in [Timer -> TimerRec] /\ timer'[t] = y /\ \A o \in Timer : o # t => timer'[o] = timer[o]
  BY DEF TimerIInv
<1>2. \A o \in Timer : TimerOK(timer'[o])
  <2> SUFFICES ASSUME NEW o \in Timer PROVE TimerOK(timer'[o])
    OBVIOUS
  <2> QED BY <1>1 DEF TimerIInv
<1>3. QuietTimers
  <2> SUFFICES ASSUME NEW o \in Timer PROVE Abides(timer[o], timer'[o])
    BY DEF QuietTimers
  <2>1. CASE o = t
    BY <1>1, <2>1
  <2>2. CASE o # t
    <3>1. timer'[o] = timer[o]
      BY <1>1, <2>2
    <3>2. timer[o] \in TimerRec /\ TimerOK(timer[o])
      BY DEF TimerIInv
    <3>3. Abides(timer[o], timer[o])
      BY <3>2 DEF TimerOK, Abides
    <3> QED BY <3>1, <3>3
  <2> QED BY <2>1, <2>2
<1> QED BY <1>1, <1>2, <1>3 DEF TimerIInv

\* Every step of the timers preserves the invariant and is quiet.
LEMMA TimerKeeps ==
    ASSUME TimerIInv, TimerNext
    PROVE  TimerIInv' /\ QuietTimers
<1>0. \A t \in Timer : timer[t] \in TimerRec /\ TimerOK(timer[t])
  BY DEF TimerIInv
<1>1. ASSUME NEW t \in Timer, NEW interval \in Intervals, NEW count \in Counts,
             timer_open(t, interval, count)
      PROVE  TimerIInv' /\ QuietTimers
  <2> DEFINE c == [new_timer EXCEPT !.obj = TRUE, !.interval = interval, !.total_times = count]
             y == start_timer(interval, count)
  <2>1. timer[t] = new_timer /\ timer' = [timer EXCEPT ![t] = y]
    BY <1>1 DEF timer_open
  <2>2. interval \in Nat /\ count \in Int
    BY TimerAssumption
  <2>3. y = async_wait(c)
    BY DEF start_timer
  <2>4. /\ c \in TimerRec /\ c.fired = 0 /\ c.invoke_times = 0 /\ c.total_times = count
        /\ c.is_cancel = FALSE /\ c.closed = FALSE /\ c.wait = "off"
    BY <2>2 DEF new_timer, TimerRec
  <2> HIDE DEF c, y
  <2>5. y = c \/ y = [c EXCEPT !.invoke_times = 0, !.wait = "waiting"]
    BY <2>3 DEF async_wait
  <2>6. /\ y \in TimerRec /\ y.fired = 0 /\ y.invoke_times = 0 /\ y.total_times = count
        /\ y.is_cancel = FALSE /\ y.closed = FALSE
    BY <2>4, <2>5 DEF TimerRec
  <2>7. count > 0 => 0 < count /\ 0 <= count
    BY <2>2
  <2>8. TimerOK(y)
    BY <2>6, <2>7 DEF TimerOK
  <2>9. Abides(timer[t], y)
    BY <2>1, <2>6 DEF Abides, new_timer
  <2> QED BY <2>1, <2>6, <2>8, <2>9, OneTimer
<1>2. ASSUME NEW t \in Timer, timer_close(t) PROVE TimerIInv' /\ QuietTimers
  <2> DEFINE y == close_timer([timer[t] EXCEPT !.obj = FALSE])
  <2>1. timer' = [timer EXCEPT ![t] = y]
    BY <1>2 DEF timer_close
  <2>2. y \in TimerRec /\ TimerOK(y) /\ Abides(timer[t], y)
    BY <1>0, CloseTimer
  <2> HIDE DEF y
  <2> QED BY <2>1, <2>2, OneTimer
<1>3. ASSUME NEW t \in Timer, expire(t) PROVE TimerIInv' /\ QuietTimers
  <2> DEFINE y == [timer[t] EXCEPT !.wait = "queued"]
  <2>1. timer' = [timer EXCEPT ![t] = y] /\ timer[t].wait = "waiting"
    BY <1>3 DEF expire
  <2>2. /\ y \in TimerRec /\ y.fired = timer[t].fired /\ y.invoke_times = timer[t].invoke_times
        /\ y.total_times = timer[t].total_times /\ y.is_cancel = timer[t].is_cancel
        /\ y.closed = timer[t].closed
    BY <1>0 DEF TimerRec
  <2> HIDE DEF y
  <2>3. TimerOK(y) /\ Abides(timer[t], y)
    BY <1>0, <2>1, <2>2, TimerWaits
  <2> QED BY <2>1, <2>2, <2>3, OneTimer
<1>4. ASSUME NEW t \in Timer, NEW closes \in BOOLEAN, run_timer(t, closes)
      PROVE  TimerIInv' /\ QuietTimers
  <2> DEFINE y == on_timer(timer[t], closes)
  <2>1. timer' = [timer EXCEPT ![t] = y] /\ timer[t].wait = "queued"
    BY <1>4 DEF run_timer
  <2>2. y \in TimerRec /\ TimerOK(y) /\ Abides(timer[t], y)
    BY <1>0, <2>1, OnTimer
  <2> HIDE DEF y
  <2> QED BY <2>1, <2>2, OneTimer
<1>5. CASE timer_close_module
  <2>1. timer' = [t \in Timer |-> IF timer[t].obj THEN close_timer(timer[t]) ELSE timer[t]]
    BY <1>5 DEF timer_close_module
  <2>2. ASSUME NEW t \in Timer
        PROVE  timer'[t] \in TimerRec /\ TimerOK(timer'[t]) /\ Abides(timer[t], timer'[t])
    <3>1. timer[t] \in TimerRec /\ TimerOK(timer[t])
      BY <1>0
    <3>2. CASE timer[t].obj
      <4>1. timer'[t] = close_timer(timer[t])
        BY <2>1, <3>2
      <4>2. [timer[t] EXCEPT !.obj = TRUE] = timer[t]
        BY <3>1, <3>2 DEF TimerRec
      <4>3. timer'[t] = close_timer([timer[t] EXCEPT !.obj = TRUE])
        BY <4>1, <4>2
      <4> QED BY <3>1, <4>3, CloseTimer
    <3>3. CASE ~timer[t].obj
      <4>1. timer'[t] = timer[t]
        BY <2>1, <3>3
      <4> QED BY <3>1, <4>1, TimerWaits
    <3> QED BY <3>2, <3>3
  <2>3. timer' \in [Timer -> TimerRec]
    BY <2>1, <2>2
  <2> QED BY <2>2, <2>3 DEF TimerIInv, QuietTimers
<1> QED BY <1>1, <1>2, <1>3, <1>4, <1>5 DEF TimerNext

-----------------------------------------------------------------------------
(* The theorem.                                                            *)

ModulesIInv == LwsIInv /\ ShutInv /\ CallsInv /\ TimerIInv

\* Every step of the modules is quiet and preserves the invariant.
LEMMA ModulesKeep ==
    ASSUME ModulesIInv, [Next]_<<part, httpVars, lwsVars, timerVars>>
    PROVE  ModulesIInv' /\ [QuietStep]_lwsVars /\ [QuietTimers]_timerVars
<1>1. ASSUME UNCHANGED timerVars PROVE TimerIInv'
  BY <1>1 DEF ModulesIInv, TimerIInv, timerVars
<1>2. ASSUME UNCHANGED lwsVars PROVE LwsIInv' /\ ShutInv' /\ CallsInv'
  BY <1>2, LwsStutters DEF ModulesIInv, ShutInv, CallsInv, lwsVars
<1>3. CASE part = "http" /\ HttpNext /\ UNCHANGED <<part, lwsVars, timerVars>>
  BY <1>1, <1>2, <1>3 DEF ModulesIInv
<1>4. CASE part = "sockets" /\ LwsNext /\ UNCHANGED <<part, httpVars, timerVars>>
  BY <1>1, <1>4, LwsKeeps, LwsSteps, ShutKeeps, LwsQuiet, LwsOnce DEF ModulesIInv
<1>5. CASE part = "timer" /\ TimerNext /\ UNCHANGED <<part, httpVars, lwsVars>>
  BY <1>2, <1>5, TimerKeeps DEF ModulesIInv
<1>6. CASE UNCHANGED <<part, httpVars, lwsVars, timerVars>>
  BY <1>1, <1>2, <1>6 DEF ModulesIInv
<1> QED BY <1>3, <1>4, <1>5, <1>6 DEF Next

\* The modules start with nothing open.
LEMMA ModulesStart ==
    ASSUME Init
    PROVE  ModulesIInv
<1>1. LwsIInv
  BY LwsStarts DEF Init
<1>2. TimerIInv
  <2>1. timer = [t \in Timer |-> new_timer]
    BY DEF Init, timer_init
  <2>2. new_timer \in TimerRec /\ TimerOK(new_timer)
    BY DEF new_timer, TimerRec, TimerOK
  <2> QED BY <2>1, <2>2 DEF TimerIInv
<1>3. CallsInv
  <2>1. \A s \in Session : session[s] = new_session
    BY DEF Init, lws_init
  <2>2. CallsOK(new_session)
    BY DEF new_session, CallsOK, AnsweredOnce
  <2> QED BY <2>1, <2>2 DEF CallsInv
<1>4. ShutInv
  <2>1. (\A s \in Session : session[s] = new_session) /\ torn = NoSession
    BY DEF Init, lws_init
  <2>2. \A s \in Session : s # NoSession
    BY LwsAssumption
  <2> QED BY <2>1, <2>2 DEF new_session, ShutInv, ShutOK
<1> QED BY <1>1, <1>2, <1>3, <1>4 DEF ModulesIInv

\* A script that has closed a web socket is not called by an event of it any
\* more, whatever was in the queue of the io thread, in the table of the service
\* or on its way through libwebsockets, but for one that the io thread handles
\* while the service's thread is between its two writes of the flags; and not by
\* a connect timer, but for the one that a second connect forgot (LuaLwsSession::
\* close, on_event, handle_connect_timeout, LuaLwsService::inner_callback). A
\* timer that was closed calls no more (AsyncWaitTimer::on_timer).
THEOREM ClosedIsQuiet == Spec => ModulesQuiet
<1>2. ModulesIInv /\ [Next]_<<part, httpVars, lwsVars, timerVars>>
        => ModulesIInv' /\ [QuietStep]_lwsVars /\ [QuietTimers]_timerVars
  BY ModulesKeep
<1>3. Spec => [][QuietStep]_lwsVars /\ [][QuietTimers]_timerVars
  BY ModulesStart, <1>2, PTL DEF Spec
<1>4. [QuietStep]_lwsVars
        <=> [\A s \in Session :
                session[s].shut /\ torn # s
                    => /\ UNCHANGED session[s].reads
                       /\ session'[s].calls # session[s].calls
                            => session[s].connects > 1 /\ session[s].timers # {}]_lwsVars
  BY DEF QuietStep
<1>5. [QuietTimers]_timerVars
        <=> [\A t \in Timer :
                /\ timer[t].closed => timer'[t].fired = timer[t].fired
                /\ timer[t].total_times > 0 => timer'[t].fired <= timer[t].total_times]_timerVars
  BY DEF QuietTimers, Abides
<1> QED BY <1>3, <1>4, <1>5, PTL DEF ModulesQuiet, Quiet, TimerQuiet

\* The script is told of its attempt to connect once, whatever comes first of
\* the connection, the error and the timeout of any of its attempts, and of a
\* disconnection after that, once, as the last call (LuaLwsSession::
\* report_connection_result, report_disconnected).
THEOREM ToldOnce == Spec => []ReportedOnce
<1>1. ModulesIInv /\ [Next]_<<part, httpVars, lwsVars, timerVars>> => ModulesIInv'
  BY ModulesKeep
<1>2. ModulesIInv => ReportedOnce
  <2> SUFFICES ASSUME ModulesIInv, NEW s \in Session
               PROVE  LET calls == session[s].calls IN
                      /\ Len(calls) <= 2
                      /\ Len(calls) = 2 => calls[2] = "disconnected" /\ calls[1] # "disconnected"
                      /\ calls # <<>> /\ Last(calls) = "disconnected" => session[s].closed
    BY DEF ReportedOnce
  <2> DEFINE calls == session[s].calls
  <2>1. CallsOK(session[s])
    BY DEF ModulesIInv, CallsInv
  <2>2. CASE calls = <<>>
    BY <2>2
  <2>3. CASE calls # <<>>
    <3>1. PICK a \in Answer3 : \/ calls = <<a>>
                               \/ session[s].closed /\ calls = <<a, "disconnected">>
      BY <2>1, <2>3 DEF CallsOK, AnsweredOnce
    <3>2. a # "disconnected"
      BY DEF Answer3
    <3>3. CASE calls = <<a>>
      <4>1. Len(calls) = 1 /\ Last(calls) = a
        BY <3>3 DEF Last
      <4> QED BY <3>2, <4>1
    <3>4. CASE session[s].closed /\ calls = <<a, "disconnected">>
      <4>1. Len(calls) = 2 /\ calls[1] = a /\ calls[2] = "disconnected"
        BY <3>4
      <4> QED BY <3>2, <3>4, <4>1
    <3> QED BY <3>1, <3>3, <3>4
  <2> QED BY <2>2, <2>3
<1> QED BY ModulesStart, <1>1, <1>2, PTL DEF Spec
=============================================================================
