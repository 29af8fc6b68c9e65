------------------------------- MODULE LuaLws -------------------------------
(***************************************************************************)
(* Web sockets of a script: LuaLwsModule, LuaLwsSession and LuaLwsService  *)
(* (src/src/lua/module).                                                   *)
(*                                                                         *)
(* Two threads.  The io thread runs the calls of the script, the handlers  *)
(* in `ios' and the timers; the thread of the service runs libwebsockets,  *)
(* whose callbacks enter inner_callback, and check_writeable.  `mutex_'    *)
(* guards the table of connections, so a function that holds it is one     *)
(* step and needs the mutex to be free; the flags closing_ and closed_ of  *)
(* a session are not guarded: the service's thread writes one and then the *)
(* other, under the mutex, and the io thread reads them in between.        *)
(*                                                                         *)
(* libwebsockets is external: a connection is connecting, open, closing    *)
(* (CLOSED is due), destroyed (WSI_DESTROY is due) and gone.               *)
(***************************************************************************)
EXTENDS Integers, Sequences, SequencesExt, Functions

CONSTANTS
    Session,      \* handles of sessions
    MaxConnects,  \* bound on the connections
    Reconnects,   \* bound on the calls of connect of one session
    MaxWrites,    \* bound on the messages a script writes to one session
    MaxReads      \* bound on the fragments a server sends on one connection

NULL == 0
NoSession == "none"

ASSUME LwsAssumption ==
    /\ MaxConnects \in Nat /\ Reconnects \in Nat /\ MaxWrites \in Nat /\ MaxReads \in Nat
    /\ NoSession \notin Session

VARIABLES
    session,  \* the LuaLwsSession of each handle
    service,  \* the LuaLwsService
    net,      \* the connections of libwebsockets
    ios,      \* the handlers posted to the io_service
    pc,       \* what the io thread is in
    torn      \* the session whose flags the service's thread is writing

lwsVars == <<session, service, net, ios, pc, torn>>

Wsi == 1 .. MaxConnects

\* A message of the server is one fragment or two.
Fragment == {"whole", "head", "tail"}
parses(text) == text \in {<<"whole">>, <<"head", "tail">>}

new_session ==
    [obj |-> FALSE, service |-> TRUE, wsi |-> NULL, closing |-> FALSE, closed |-> FALSE,
     connected |-> FALSE, reported |-> FALSE, timers |-> {}, connect_timer |-> NULL,
     connects |-> 0,
     msg |-> <<>>,
     calls |-> <<>>, reads |-> <<>>, written |-> 0, shut |-> FALSE]

new_service ==
    [running |-> FALSE, table |-> <<>>, writeable |-> {}, promise |-> "none"]

no_wsi == [st |-> "none", pollout |-> FALSE, sent |-> <<>>, received |-> <<>>]

at(k) == [k |-> k, todo |-> {}, s |-> NoSession]

lws_init ==
    /\ session = [s \in Session |-> new_session]
    /\ service = new_service
    /\ net = [w \in Wsi |-> no_wsi]
    /\ ios = <<>>
    /\ pc = at("idle")
    /\ torn = NoSession

-----------------------------------------------------------------------------
(* LuaLwsService.                                                          *)

notify_writeable(v, w) == [v EXCEPT !.writeable = @ \cup {w}]

\* service.close: one loop of the service's thread will close the connection.
service_close(v, w) ==
    IF v.running /\ w \in DOMAIN v.table THEN notify_writeable(v, w) ELSE v

\* Faulty variant: nobody tells the service's thread.
service_write_quiet(v, w, m) ==
    IF v.running /\ w \in DOMAIN v.table
    THEN [v EXCEPT !.table[w].send = Append(@, m)]
    ELSE v

\* A write to a connection that is not in the table is dropped.
service_write(v, w, m) ==
    IF v.running /\ w \in DOMAIN v.table
    THEN notify_writeable([v EXCEPT !.table[w].send = Append(@, m)], w)
    ELSE v

erase(v, w) == [v EXCEPT !.table = Restrict(@, DOMAIN @ \ {w})]

event(s, w, reason, data) == [s |-> s, wsi |-> w, reason |-> reason, data |-> data]

report_event(s, w, reason, data) == ios' = Append(ios, event(s, w, reason, data))

\* connect: a new entry in the table, or the error is reported.
service_connect(s, w, ok) ==
    IF ok
    THEN /\ service' = notify_writeable(
                [service EXCEPT !.table =
                    [x \in DOMAIN @ \cup {w} |-> IF x = w THEN [s |-> s, send |-> <<>>] ELSE @[x]]], w)
         /\ net' = [net EXCEPT ![w].st = "connecting"]
         /\ UNCHANGED ios
    ELSE /\ report_event(s, NULL, "CONNECTION_ERROR", "none")
         /\ UNCHANGED <<service, net>>

-----------------------------------------------------------------------------
(* LuaLwsSession, on the io thread.                                        *)

\* The Lua function of connect is called with success or an error.
call(x, what) == [x EXCEPT !.calls = Append(@, what)]

\* connect_timer_ is the last that was set, and NULL once it is cancelled.
cancel_timer(x) == [x EXCEPT !.timers = @ \ {x.connect_timer}, !.connect_timer = NULL]

\* Faulty variant: a result is reported whenever there is one.
report_connection_result_again(x, w, success, what) ==
    cancel_timer([call(x, what) EXCEPT !.wsi = IF success THEN w ELSE @, !.reported = TRUE])

report_connection_result(x, w, success, what) ==
    IF x.reported THEN x
    ELSE cancel_timer([call(x, what) EXCEPT !.wsi = IF success THEN w ELSE @, !.reported = TRUE])

report_disconnected(x) == IF x.connected THEN call(x, "disconnected") ELSE x

\* What has arrived of a message, with the new fragment.
get_completed_json_message(x, data) == Append(x.msg, data)

report_read_data(x, data) ==
    LET text == get_completed_json_message(x, data) IN
    IF parses(text) THEN [x EXCEPT !.reads = Append(@, text), !.msg = <<>>]
    ELSE [x EXCEPT !.msg = text]

\* Faulty variant: only a session that is closed ignores an event.
on_event_closing(x, e) ==
    IF x.closed THEN x
    ELSE CASE e.reason = "ESTABLISHED" ->
                report_connection_result([x EXCEPT !.connected = TRUE], e.wsi, TRUE, "connected")
           [] e.reason = "CONNECTION_ERROR" -> report_connection_result(x, e.wsi, FALSE, "failed")
           [] e.reason = "RECEIVE" -> report_read_data(x, e.data)
           [] OTHER -> report_disconnected([x EXCEPT !.closed = TRUE])

\* Once the session closes, the Lua state may be gone: events are ignored.
on_event(x, e) ==
    IF x.closing \/ x.closed THEN x
    ELSE CASE e.reason = "ESTABLISHED" ->
                report_connection_result([x EXCEPT !.connected = TRUE], e.wsi, TRUE, "connected")
           [] e.reason = "CONNECTION_ERROR" -> report_connection_result(x, e.wsi, FALSE, "failed")
           [] e.reason = "RECEIVE" -> report_read_data(x, e.data)
           [] OTHER -> report_disconnected([x EXCEPT !.closed = TRUE])

handle_connect_timeout(x) == report_connection_result(x, NULL, FALSE, "timeout")

\* connect: with a timeout the timer of this attempt is set; an earlier one is
\* forgotten, not cancelled.
session_connect(x, timed) ==
    LET n == x.connects + 1 IN
    [x EXCEPT !.connects = n,
              !.timers = IF timed THEN @ \cup {n} ELSE @,
              !.connect_timer = IF timed THEN n ELSE @]

may_write(x) == ~(x.closing \/ x.closed) /\ x.service

\* The second half of close: the service is told, the timer is cancelled.
close_service(s) ==
    /\ service' = service_close(service, session[s].wsi)
    /\ session' = [session EXCEPT ![s] = [cancel_timer(@) EXCEPT !.service = FALSE]]

-----------------------------------------------------------------------------
(* LuaLwsModule: the functions a script calls.                             *)

idle == pc.k = "idle"

unlocked == torn = NoSession

lua_start(ok) ==
    /\ idle /\ ~service.running
    /\ service' = [new_service EXCEPT !.running = ok]
    /\ UNCHANGED <<session, net, ios, pc, torn>>

lua_open(s) ==
    /\ idle /\ service.running /\ session[s] = new_session
    /\ session' = [session EXCEPT ![s].obj = TRUE]
    /\ UNCHANGED <<service, net, ios, pc, torn>>

lua_connect(s, w, ok, timed) ==
    /\ idle /\ service.running /\ session[s].obj /\ unlocked
    /\ net[w].st = "none" /\ \A x \in Wsi : x < w => net[x].st # "none"
    /\ session[s].connects < Reconnects
    /\ session' = [session EXCEPT ![s] = session_connect(@, timed)]
    /\ service_connect(s, w, ok)
    /\ UNCHANGED <<pc, torn>>

lua_write(s) ==
    /\ idle /\ service.running /\ session[s].obj
    /\ may_write(session[s]) /\ unlocked
    /\ session[s].written < MaxWrites
    /\ session' = [session EXCEPT ![s].written = @ + 1]
    /\ service' = service_write(service, session[s].wsi, session[s].written + 1)
    /\ UNCHANGED <<net, ios, pc, torn>>

\* The first half of LuaLwsSession::close; `after' follows it.
begin_close(s, x, after) ==
    /\ session' = [session EXCEPT ![s] =
            [x EXCEPT !.shut = TRUE, !.closing = IF x.closed THEN x.closing ELSE TRUE]]
    /\ pc' = IF x.closed \/ x.closing THEN after ELSE [after EXCEPT !.s = s]

lua_close(s) ==
    /\ idle /\ service.running /\ session[s].obj
    /\ begin_close(s, [session[s] EXCEPT !.obj = FALSE], pc)
    /\ UNCHANGED <<service, net, ios, torn>>

end_close ==
    /\ pc.s # NoSession /\ unlocked
    /\ close_service(pc.s)
    /\ pc' = [pc EXCEPT !.s = NoSession]
    /\ UNCHANGED <<net, ios, torn>>

\* The script's state is closed: every session, then the service.
on_close_module ==
    /\ idle /\ pc.s = NoSession
    /\ pc' = [at("module") EXCEPT !.todo = {s \in Session : session[s].obj}]
    /\ UNCHANGED <<session, service, net, ios, torn>>

close_object ==
    /\ pc.k = "module" /\ pc.s = NoSession
    /\ \E s \in pc.todo : begin_close(s, session[s], [pc EXCEPT !.todo = @ \ {s}])
    /\ UNCHANGED <<service, net, ios, torn>>

stop ==
    /\ pc.k = "module" /\ pc.s = NoSession /\ pc.todo = {}
    /\ pc' = at(IF service.running THEN "close_all" ELSE "stopped")
    /\ UNCHANGED <<session, service, net, ios, torn>>

close_all ==
    LET left == {w \in DOMAIN service.table : ~session[service.table[w].s].closed} IN
    /\ pc.k = "close_all" /\ unlocked
    /\ service' = [service EXCEPT !.table = Restrict(@, left),
                                  !.promise = IF left = {} THEN "none" ELSE "active"]
    /\ pc' = at(IF left = {} THEN "syn_stop" ELSE "wait_for")
    /\ UNCHANGED <<session, net, ios, torn>>

\* close_promise_->wait_for(2000), which reads close_promise_ without the
\* mutex: the service's thread may have reset it.
wait_for ==
    /\ pc.k = "wait_for"
    /\ pc' = at(IF service.promise = "none" THEN "crashed" ELSE "waiting")
    /\ UNCHANGED <<session, service, net, ios, torn>>

\* The promise is honored, or two seconds have passed.
waited ==
    /\ pc.k = "waiting"
    /\ pc' = at("syn_stop")
    /\ UNCHANGED <<session, service, net, ios, torn>>

\* SynStop, and the context goes with its connections.
syn_stop ==
    /\ pc.k = "syn_stop" /\ unlocked
    /\ service' = [service EXCEPT !.running = FALSE, !.table = <<>>]
    /\ net' = [w \in Wsi |-> [net[w] EXCEPT !.st = IF @ = "none" THEN @ ELSE "gone"]]
    /\ pc' = at("stopped")
    /\ UNCHANGED <<session, ios, torn>>

-----------------------------------------------------------------------------
(* The io thread's handlers.  They run when the script does not, also      *)
(* after the module is closed.                                             *)

between == pc.s = NoSession /\ pc.k \in {"idle", "stopped"}

run_event ==
    /\ between /\ ios # <<>>
    /\ session' = [session EXCEPT ![Head(ios).s] = on_event(@, Head(ios))]
    /\ ios' = Tail(ios)
    /\ UNCHANGED <<service, net, pc, torn>>

connect_timeout(s, n) ==
    /\ between /\ n \in session[s].timers
    /\ session' = [session EXCEPT
            ![s] = handle_connect_timeout([session[s] EXCEPT !.timers = @ \ {n}])]
    /\ UNCHANGED <<service, net, ios, pc, torn>>

-----------------------------------------------------------------------------
(* The service's thread.                                                   *)

working == service.running /\ unlocked /\ pc.k # "crashed"

\* check_writeable: lws_callback_on_writable for the connections in the set.
check_writeable ==
    /\ working /\ service.writeable # {}
    /\ net' = [w \in Wsi |-> [net[w] EXCEPT !.pollout =
            \/ @
            \/ /\ w \in service.writeable \cap DOMAIN service.table
               /\ ~session[service.table[w].s].closed]]
    /\ service' = [service EXCEPT !.writeable = {}]
    /\ UNCHANGED <<session, ios, pc, torn>>

\* on_writable: one message, and another round is asked for.
on_writable(w) ==
    LET q == service.table[w].send IN
    IF q = <<>> THEN [net[w] EXCEPT !.pollout = FALSE]
    ELSE [net[w] EXCEPT !.sent = Append(@, Head(q)), !.pollout = TRUE]

\* A session that closes leaves the table, and libwebsockets is told to close
\* the connection: set_closing(false), with the mutex held.
close_connection(w) ==
    LET s == service.table[w].s IN
    /\ service' = erase(service, w)
    /\ session' = [session EXCEPT ![s].closing = FALSE]
    /\ torn' = s

\* Then set_closed(true); the last connection honors close_promise_, and the
\* mutex is free.
set_closed ==
    /\ ~unlocked
    /\ session' = [session EXCEPT ![torn].closed = TRUE]
    /\ service' = [service EXCEPT !.promise = IF DOMAIN service.table = {} THEN "none" ELSE @]
    /\ torn' = NoSession
    /\ UNCHANGED <<net, ios, pc>>

\* Where libwebsockets is after a callback that returned 0, and after -1.
succeeds(reason) ==
    CASE reason = "ESTABLISHED" -> "open"
      [] reason = "PEER_INITIATED_CLOSE" -> "closing"
      [] reason \in {"CONNECTION_ERROR", "CLOSED"} -> "destroyed"
      [] reason = "WSI_DESTROY" -> "gone"
      [] OTHER -> "open"

fails(reason) ==
    IF succeeds(reason) = "open" THEN "closing" ELSE succeeds(reason)

\* inner_callback, for the callbacks pre_handle_event lets through.
inner_callback(w, reason, data) ==
    LET n == [net[w] EXCEPT !.pollout = @ /\ reason # "WRITEABLE",
                            !.received = IF reason = "RECEIVE" THEN Append(@, data) ELSE @] IN
    /\ UNCHANGED pc
    /\ IF w \notin DOMAIN service.table
       THEN /\ net' = [net EXCEPT ![w] = [n EXCEPT !.st = succeeds(reason)]]
            /\ UNCHANGED <<session, service, ios, torn>>
       ELSE IF session[service.table[w].s].closing
       THEN /\ close_connection(w)
            /\ net' = [net EXCEPT ![w] = [n EXCEPT !.st = fails(reason)]]
            /\ UNCHANGED ios
       ELSE IF reason = "WRITEABLE"
       THEN /\ UNCHANGED <<session, ios, torn>>
            /\ service' = [service EXCEPT !.table[w].send = IF @ = <<>> THEN @ ELSE Tail(@)]
            /\ \/ net' = [net EXCEPT ![w] = on_writable(w)]
               \/ /\ service.table[w].send # <<>>   \* lws_write fails
                  /\ net' = [net EXCEPT ![w] = [n EXCEPT !.st = fails(reason)]]
       ELSE /\ report_event(service.table[w].s, w, reason, data)
            /\ net' = [net EXCEPT ![w] = [n EXCEPT !.st = succeeds(reason)]]
            /\ service' = IF reason = "ESTABLISHED" THEN notify_writeable(service, w) ELSE service
            /\ UNCHANGED <<session, torn>>

callback(w, reason, data) == working /\ inner_callback(w, reason, data)

\* What libwebsockets may report of a connection.
established(w) == net[w].st = "connecting" /\ callback(w, "ESTABLISHED", "none")
connection_error(w) == net[w].st = "connecting" /\ callback(w, "CONNECTION_ERROR", "none")
peer_close(w) == net[w].st = "open" /\ callback(w, "PEER_INITIATED_CLOSE", "none")
closed(w) == net[w].st = "closing" /\ callback(w, "CLOSED", "none")
destroy(w) == net[w].st = "destroyed" /\ callback(w, "WSI_DESTROY", "none")
writeable(w) == net[w].st = "open" /\ net[w].pollout /\ callback(w, "WRITEABLE", "none")

\* The fragments of a message arrive one after the other.
receive(w, data) ==
    /\ net[w].st = "open" /\ Len(net[w].received) < MaxReads
    /\ data = "tail" <=> (net[w].received # <<>> /\ Last(net[w].received) = "head")
    /\ callback(w, "RECEIVE", data)

-----------------------------------------------------------------------------

Script ==
    \/ \E ok \in BOOLEAN : lua_start(ok)
    \/ \E s \in Session : pc.s = NoSession /\ (lua_open(s) \/ lua_write(s) \/ lua_close(s))
    \/ \E s \in Session, w \in Wsi, ok, timed \in BOOLEAN :
            pc.s = NoSession /\ lua_connect(s, w, ok, timed)
    \/ on_close_module

Io ==
    \/ end_close \/ close_object \/ stop \/ close_all \/ wait_for \/ waited \/ syn_stop
    \/ run_event

Timeout == \E s \in Session, n \in 1 .. Reconnects : connect_timeout(s, n)

Network ==
    \E w \in Wsi :
        \/ established(w) \/ connection_error(w) \/ peer_close(w)
        \/ \E data \in Fragment : receive(w, data)

ServiceThread ==
    \/ check_writeable \/ set_closed
    \/ \E w \in Wsi : closed(w) \/ destroy(w) \/ writeable(w)

LwsNext == Script \/ Io \/ Timeout \/ Network \/ ServiceThread

\* The io thread and the service's thread keep running and timers expire;
\* the script and the network may be idle.
LwsFairness ==
    /\ WF_lwsVars(Io)
    /\ \A s \in Session, n \in 1 .. Reconnects : WF_lwsVars(connect_timeout(s, n))
    /\ WF_lwsVars(check_writeable) /\ WF_lwsVars(set_closed)
    /\ \A w \in Wsi : WF_lwsVars(closed(w)) /\ WF_lwsVars(destroy(w)) /\ WF_lwsVars(writeable(w))

-----------------------------------------------------------------------------
(* Properties.                                                             *)

\* After close no event calls into the script: on_event finds the session
\* closing or closed ("At this time, Lua Context could have been released").
\* Two gaps are left, and nothing else.  While the service's thread is between
\* set_closing(false) and set_closed(true) the session looks open, and an event
\* that the io thread handles there reaches the script.  And handle_connect_-
\* timeout looks at neither flag: the timer that a second connect forgot calls
\* the script when it expires.
Quiet ==
    [][\A s \in Session :
        session[s].shut /\ torn # s
            => /\ UNCHANGED session[s].reads
               /\ session'[s].calls # session[s].calls
                    => session[s].connects > 1 /\ session[s].timers # {}]_lwsVars

\* The result of connect is reported once, whatever comes first of the
\* connection, the error and the timeout; a disconnection is reported once and
\* is the last call.
ReportedOnce ==
    \A s \in Session :
        LET calls == session[s].calls IN
        /\ Len(calls) <= 2
        /\ Len(calls) = 2 => calls[2] = "disconnected" /\ calls[1] # "disconnected"
        /\ calls # <<>> /\ Last(calls) = "disconnected" => session[s].closed

\* A session with json_completed reads whole messages, until it is closed in
\* the order in which the server sent them, and what it keeps is the beginning
\* of the next.
ReadsWhole ==
    \A s \in Session :
        /\ \A i \in DOMAIN session[s].reads : parses(session[s].reads[i])
        /\ session[s].connects <= 1 /\ ~session[s].shut =>
              \E w \in Wsi : IsPrefix(FlattenSeq(session[s].reads) \o session[s].msg, net[w].received)

\* A message in the queue of an open connection is sent, unless the connection
\* or its session closes: notify_writeable, check_writeable and the next round
\* asked for in on_writable lose no wakeup between the two threads.
QueuedIsSent ==
    \A w \in Wsi :
        (w \in DOMAIN service.table /\ net[w].st = "open" /\ service.table[w].send # <<>>)
            ~> (\/ w \notin DOMAIN service.table
                \/ net[w].st # "open"
                \/ service.table[w].send = <<>>
                \/ session[service.table[w].s].closed)

\* connect is answered, connected, failed or timeout, when it was given a
\* timeout or the network has answered; unless the session is closed first or
\* the module is.  Without a timeout a silent network leaves it for ever.
ConnectAnswered ==
    \A s \in Session :
        (\/ session[s].timers # {}
         \/ \E i \in DOMAIN ios : ios[i].s = s /\ ios[i].reason \in {"ESTABLISHED", "CONNECTION_ERROR"})
            ~> (session[s].calls # <<>> \/ session[s].shut \/ ~idle)

\* What the script is told of its connections, and what it reads from them.
LwsInv == ReportedOnce /\ ReadsWhole
=============================================================================
