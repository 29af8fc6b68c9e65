------------------------------- MODULE LuaHttp -------------------------------
(***************************************************************************)
(* An HTTP exchange as a Lua script sees it: the state machine framework   *)
(* (src/src/state), HttpSession and its states (src/src/network), the Lua  *)
(* session and reader (src/src/lua/module).                                *)
(*                                                                         *)
(* Everything runs on the io thread, one handler of `queue' at a time.  An *)
(* operation of the socket (`op') ends in a completion, which waits in the *)
(* queue.  The session is one record; an operator takes a session and      *)
(* returns the session its function leaves behind.                         *)
(*                                                                         *)
(* A response is a sequence of tokens: the header, the bytes of the body,  *)
(* the line with the size of a chunk and the line end after it.  A line is *)
(* one token, so that the `+ 2' of the code is + 1 here.                   *)
(* Connecting is an operation that may be repeated for the next endpoint,  *)
(* beside the timer that checks it; TcpConnect has the detail, and         *)
(* Connect_Fail stands for a TLS handshake that fails as well.             *)
(***************************************************************************)
EXTENDS Integers, Sequences, SequencesExt

CONSTANTS
    Responses,         \* what a server may answer
    Modes,             \* options of get: [async, manual, one_off : BOOLEAN]
    Verdicts,          \* what a callback of the script may return
    MaxContentLength,  \* kMaxContentLength
    MaxRedirects,      \* bound on the redirections
    ReadSizes          \* sizes of the buffers a script reads into

VARIABLE h             \* the session

httpVars == <<h>>

Response == [status : {"ok", "redirect", "other30x", "error"}, location : BOOLEAN,
             chunked : BOOLEAN, sizes : Seq(Nat)]

ASSUME HttpAssumption ==
    /\ Responses \subseteq Response
    /\ Modes \subseteq [async : BOOLEAN, manual : BOOLEAN, one_off : BOOLEAN]
    /\ Verdicts \subseteq {"accept", "reject", "error", "close"}
    /\ MaxContentLength \in Nat /\ MaxRedirects \in Nat
    /\ ReadSizes \subseteq Nat \ {0}

-----------------------------------------------------------------------------
(* What is on the wire.                                                    *)

\* The bytes of a body are numbered, so that their order can be checked.
bytes(from, n) == [i \in 1 .. n |-> [t |-> "byte", n |-> from + i]]

before(sizes, i) == FoldLeft(LAMBDA a, b : a + b, 0, SubSeq(sizes, 1, i - 1))

Body(r) == bytes(0, before(r.sizes, Len(r.sizes) + 1))

chunk(r, i) ==
    <<[t |-> "size", n |-> r.sizes[i]]>> \o bytes(before(r.sizes, i), r.sizes[i])
        \o <<[t |-> "crlf", n |-> 0]>>

Stream(r) ==
    <<[t |-> "header", n |-> 0]>> \o
    IF ~r.chunked THEN Body(r)
    ELSE FlattenSeq([i \in 1 .. Len(r.sizes) |-> chunk(r, i)])
            \o <<[t |-> "size", n |-> 0], [t |-> "crlf", n |-> 0]>>

\* HttpResponse::get_content_len: -1 without a Content-Length header.
get_content_len(r) == IF r.chunked THEN -1 ELSE Len(Body(r))

-----------------------------------------------------------------------------
(* The session.                                                            *)

NoOp == [kind |-> "none", n |-> 0, who |-> "none"]
NoReader == [size |-> 0, pos |-> 0, cond |-> "none", live |-> FALSE]

\* A task of the io_service: execute a state, a posted close or load, or the
\* handler of a socket operation.
exec(st) == [k |-> "exec", who |-> st, ec |-> "ok"]
completion(who, ec) == [k |-> "completion", who |-> who, ec |-> ec]
close_task == [k |-> "close", who |-> "none", ec |-> "ok"]
load_task == [k |-> "load", who |-> "none", ec |-> "ok"]

new_http ==
    [live |-> FALSE, async |-> FALSE, manual |-> FALSE, one_off |-> TRUE, waiting |-> FALSE,
     answers |-> <<>>, deleted |-> FALSE,
     state |-> "none", connected |-> FALSE, sock |-> FALSE, ios |-> TRUE, installed |-> FALSE,
     setup |-> {}, op |-> NoOp, queue |-> <<>>,
     resp |-> [status |-> "none", location |-> FALSE, chunked |-> FALSE, sizes |-> <<>>],
     wire |-> <<>>, buf |-> <<>>,
     chunk |-> 0, content |-> <<>>,
     is_chunk |-> FALSE, cur_chunk_size |-> 0, cur_chunk_left |-> 0,
     reader |-> NoReader, reading |-> FALSE, read_by_script |-> <<>>,
     redirects |-> 0, rejected |-> FALSE, check |-> FALSE, timeouts |-> 0]

post(s, task) == [s EXCEPT !.queue = Append(@, task)]

async(s, kind, n, who) == [s EXCEPT !.op = [kind |-> kind, n |-> n, who |-> who]]

consume(s, n) == [s EXCEPT !.buf = SubSeq(@, n + 1, Len(@))]

\* The socket is closed: what is pending on it ends as aborted.
abort(s) ==
    IF s.op = NoOp THEN s
    ELSE [post(s, completion(s.op.who, "aborted")) EXCEPT !.op = NoOp]

\* TcpStateMachine::stop does nothing while the connection is not there.
stop_machine(s) ==
    IF ~s.connected THEN s
    ELSE [abort(s) EXCEPT !.sock = FALSE, !.connected = FALSE, !.ios = FALSE, !.installed = FALSE]

\* setup_socket for a redirection: a new socket, empty caches.
setup_socket(s) == [abort(s) EXCEPT !.sock = TRUE, !.buf = <<>>, !.wire = <<>>]

-----------------------------------------------------------------------------
(* LuaHttpSession: answers to the script.                                  *)

close(s) == stop_machine([s EXCEPT !.reader = NoReader, !.live = FALSE])

\* The Timeout of a connection need not be the last word, so that it is
\* counted apart from the answers.
push_response(s, ec, body) ==
    IF ec = "Timeout" THEN [s EXCEPT !.timeouts = @ + 1]
    ELSE [s EXCEPT !.answers = Append(@, [ec |-> ec, body |-> body])]

\* The callback of async_get may be called again.
report_async_get_result(s, ec, body) == IF s.live THEN push_response(s, ec, body) ELSE s

\* The coroutine that waits in get is resumed once.
resume(s, ec, body) ==
    IF s.live /\ s.waiting THEN [push_response(s, ec, body) EXCEPT !.waiting = FALSE] ELSE s

report(s, ec, body) ==
    IF s.async THEN report_async_get_result(s, ec, body) ELSE resume(s, ec, body)

\* Faulty variant: only a session that lasts is closed.
post_close_lasting(s) == IF ~s.one_off /\ s.ios THEN post(s, close_task) ELSE s

post_close(s) == IF s.one_off /\ s.ios THEN post(s, close_task) ELSE s

\* The program ends in the middle of a handler.
crash(s) ==
    [s EXCEPT !.live = FALSE, !.deleted = TRUE, !.reader = NoReader, !.connected = FALSE, !.sock = FALSE,
              !.ios = FALSE, !.installed = FALSE, !.check = FALSE, !.op = NoOp, !.queue = <<>>]

\* LuaHttpSession::output.
output(s, ec) ==
    CASE ec = "crash" -> crash(s)
      [] ec \in {"Success", "State_Machine_Finished"} -> s
      [] OTHER -> post_close(report(s, ec, <<>>))

\* The result of a callback set with set_callback.  One that closes its own
\* session leaves main_ NULL for the lua_pop that follows it.
verdict(v) ==
    CASE v = "reject" -> "Engine_Reject"
      [] v = "error" -> "Engine_Script_Error"
      [] v = "close" -> "crash"
      [] OTHER -> "Success"

\* The step handlers ask the script's callback while there is a script.
ask(s, v) == IF s.live THEN verdict(v) ELSE "Engine_Internal_Error"

handle_resolve(s, v) == ask(s, v)
handle_connect(s, v) == ask(s, v)
handle_send(s, v) == ask(s, v)
handle_redirect(s, v) == ask(s, v)

-----------------------------------------------------------------------------
(* HttpSession: the routers.  Each returns the session, the next state (or *)
(* "invalid" or "finished") and the error code left in the output event.   *)

routed(s, next, ec) == [s |-> s, next |-> next, ec |-> ec]

on_step(s, ec, result, next) ==
    LET r == IF ec = "Success" THEN result ELSE ec IN
    routed(s, IF r = "Success" THEN next ELSE "invalid", r)

on_resolve(s, ec, v) == on_step(s, ec, handle_resolve(s, v), "connect")
on_connect(s, ec, v) == on_step(s, ec, handle_connect(s, v), "request")
on_request(s, ec, v) == on_step(s, ec, handle_send(s, v), "header")

\* handle_rcv_header: with manual_read_body the answer is the header and the
\* machine ends here.
handle_rcv_header(s, v) ==
    LET s1 == [s EXCEPT !.is_chunk = @ \/ get_content_len(s.resp) = -1] IN
    CASE ~s.live -> routed(s, "invalid", "Engine_Internal_Error")
      [] s.live /\ s.manual /\ v # "close" ->
            routed(report(s1, "Success", <<>>), "invalid", "State_Machine_Finished")
      [] OTHER -> routed(s1, "invalid", verdict(v))

on_rcv_header(s, ec, v, w) ==
    LET r == handle_rcv_header(s, v) IN
    CASE ec # "Success" -> routed(s, "invalid", ec)
      [] ec = "Success" /\ r.ec # "Success" -> r
      [] ec = "Success" /\ r.ec = "Success" /\ s.resp.status = "redirect" ->
            on_step(r.s, "Success", handle_redirect(r.s, w), "resolve")
      [] ec = "Success" /\ r.ec = "Success" /\ s.resp.status = "other30x" ->
            routed(r.s, "invalid", "Success")
      [] OTHER -> routed(r.s, "body", "Success")

\* handle_rcv_content: the answer goes to the script whatever the callback says.
handle_rcv_content(s, v) ==
    CASE ~s.live -> routed(s, "invalid", "Engine_Internal_Error")
      [] s.live /\ v = "close" -> routed(s, "invalid", verdict(v))
      [] OTHER -> routed([post_close(report(s, "Success", s.content)) EXCEPT !.rejected = v # "accept"],
                         "invalid", verdict(v))

on_rcv_body(s, ec, v) ==
    LET r == handle_rcv_content(s, v) IN
    IF ec # "Success" THEN routed(s, "invalid", ec)
    ELSE [r EXCEPT !.next = IF r.ec = "Success" THEN "finished" ELSE "invalid"]

state_router(s, st, ec, v, w) ==
    CASE st = "resolve" -> on_resolve(s, ec, v)
      [] st = "connect" -> on_connect(s, ec, v)
      [] st = "request" -> on_request(s, ec, v)
      [] st = "header" -> on_rcv_header(s, ec, v, w)
      [] st = "body" -> on_rcv_body(s, ec, v)

-----------------------------------------------------------------------------
(* State and AsyncStateMachine.                                            *)

\* The transformation of the header event into a resolve event.
redirection_transform(s) == IF s.resp.location THEN setup_socket(s) ELSE s

\* switch_to_state: the transformation may refuse (a redirection without a
\* Location), else the next state is posted.
switch_to_state(r) ==
    IF r.next = "resolve" /\ ~r.s.resp.location THEN output(r.s, r.ec)
    ELSE LET s == IF r.next = "resolve" THEN redirection_transform(r.s) ELSE r.s IN
         post([s EXCEPT !.state = r.next], exec(r.next))

\* Faulty variant of switch_to_next: an interrupted machine is taken for a
\* finished one.
switch_to_next_quiet(s, st, ec, v, w) ==
    LET r == state_router(s, st, ec, v, w) IN
    CASE st \notin s.setup -> output(s, ec)
      [] st \in s.setup /\ ~s.installed -> output(s, "Error_State_Machine")
      [] st \in s.setup /\ s.installed /\ r.next \in {"invalid", "finished"} -> output(r.s, "State_Machine_Finished")
      [] OTHER -> switch_to_state(r)

switch_to_next(s, st, ec, v, w) ==
    LET r == state_router(s, st, ec, v, w) IN
    CASE st \notin s.setup -> output(s, ec)
      [] st \in s.setup /\ ~s.installed -> output(s, "Error_State_Machine")
      [] st \in s.setup /\ s.installed /\ r.next = "invalid" ->
            output(r.s, IF r.ec = "Success" THEN "State_Machine_Interrupted" ELSE r.ec)
      [] st \in s.setup /\ s.installed /\ r.next = "finished" -> output(r.s, "State_Machine_Finished")
      [] OTHER -> switch_to_state(r)

done(s, st, ec, v, w) == switch_to_next(s, st, ec, v, w)

\* A state that has what the next one needs: output_event_->setup.
succeed(s, st, v, w) == done([s EXCEPT !.setup = @ \cup {st}], st, "Success", v, w)

-----------------------------------------------------------------------------
(* HttpRcvBodyState.                                                       *)

\* done even when nothing has been cached, with setup not set then.
report_cache_content(s, ec, v) ==
    done(IF s.content # <<>> THEN [s EXCEPT !.setup = @ \cup {"body"}] ELSE s, "body", ec, v, v)

read_content(s, len, v) ==
    IF len <= Len(s.buf)
    THEN succeed(consume([s EXCEPT !.content = SubSeq(s.buf, 1, len)], len), "body", v, v)
    ELSE async(s, "at_least", len - Len(s.buf), "content")

read_chunk_size(s) == async(s, "until", 0, "chunk_size")

read_chunk_body(s) ==
    IF Len(s.buf) >= s.chunk + 1 THEN post(s, completion("chunk_body", "ok"))
    ELSE async(s, "at_least", s.chunk - Len(s.buf) + 1, "chunk_body")

handle_read_content(s, ec, v) ==
    LET need == get_content_len(s.resp)
        len == IF Len(s.buf) < need THEN Len(s.buf) ELSE need
        s1 == consume([s EXCEPT !.content = SubSeq(s.buf, 1, len)], len)
    IN  CASE ~s.connected -> done(s, "body", "Not_Connected", v, v)
          [] s.connected /\ ec \notin {"ok", "eof"} -> done(s, "body", "Read_Http_Content_Fail", v, v)
          [] OTHER -> report_cache_content(s1, IF ec = "eof" THEN "Eof" ELSE "Success", v)

handle_read_chunk_size(s, ec, v) ==
    LET n == Head(s.buf).n
        s1 == consume([s EXCEPT !.chunk = n], 1)
    IN  CASE ec \notin {"ok", "eof"} -> done(s, "body", "Read_Http_Chunk_Size_Fail", v, v)
          [] ec \in {"ok", "eof"} /\ ~s.connected -> done(s, "body", "Not_Connected", v, v)
          [] ec \in {"ok", "eof"} /\ s.connected /\ s.buf = <<>> -> done(s, "body", "Error_Data", v, v)
          [] OTHER -> IF n > 0 THEN read_chunk_body(s1) ELSE report_cache_content(s1, "Success", v)

\* Faulty variant: each chunk replaces the one before it.
handle_read_chunk_body_last(s, ec, v) ==
    IF Len(s.buf) >= s.chunk + 1
    THEN read_chunk_size(consume([s EXCEPT !.content = SubSeq(s.buf, 1, s.chunk)], s.chunk + 1))
    ELSE read_chunk_body(s)

\* The chunk is appended to what has been cached (wait_complete).
handle_read_chunk_body(s, ec, v) ==
    CASE ec \notin {"ok", "eof"} -> done(s, "body", "Read_Http_Chunk_Body_Fail", v, v)
      [] ec \in {"ok", "eof"} /\ ~s.connected -> done(s, "body", "Not_Connected", v, v)
      [] ec \in {"ok", "eof"} /\ s.connected /\ Len(s.buf) >= s.chunk + 1 ->
            read_chunk_size(consume([s EXCEPT !.content = @ \o SubSeq(s.buf, 1, s.chunk)], s.chunk + 1))
      [] ec = "eof" /\ s.connected /\ Len(s.buf) < s.chunk + 1 -> report_cache_content(s, "Eof", v)
      [] OTHER -> read_chunk_body(s)

execute_body(s, v) ==
    LET len == get_content_len(s.resp) IN
    CASE ~s.connected -> output(s, "Not_Connected")
      [] s.connected /\ s.resp.status # "ok" -> output(s, "Error_Http_Status")
      [] s.connected /\ s.resp.status = "ok" /\ len > 0 /\ len < MaxContentLength -> read_content(s, len, v)
      [] s.connected /\ s.resp.status = "ok" /\ s.resp.chunked -> read_chunk_size(s)
      [] OTHER -> output(s, "Error_Data")

-----------------------------------------------------------------------------
(* The other states.                                                       *)

execute_request(s) == IF s.connected THEN async(s, "write", 0, "request") ELSE output(s, "Not_Connected")

execute_header(s) == IF s.connected THEN async(s, "until", 0, "header") ELSE output(s, "Not_Connected")

\* A machine that was stopped has no io_service and no socket to begin with.
execute_resolve(s) == IF s.ios THEN async(s, "resolve", 0, "resolve") ELSE crash(s)

async_connect(s) == IF s.ios THEN async(s, "connect", 0, "connect") ELSE crash(s)

\* The first attempt, and the timer that checks them all.
execute_connect(s) == async_connect([s EXCEPT !.check = s.ios])

execute_state(s, st, v) ==
    CASE st = "resolve" -> execute_resolve(s)
      [] st = "connect" -> execute_connect(s)
      [] st = "request" -> execute_request(s)
      [] st = "header" -> execute_header(s)
      [] st = "body" -> execute_body(s, v)

handle_resolved(s, ec, v) ==
    IF ec = "ok" THEN succeed(s, "resolve", v, v) ELSE done(s, "resolve", "Resolve_Fail", v, v)

\* TcpConnectState::handle_connect, handle_handshake: the next endpoint while
\* one is left.  Only success stops the timer.
handle_connection(s, ec, v, left) ==
    CASE ec = "ok" -> succeed([s EXCEPT !.connected = TRUE, !.check = FALSE], "connect", v, v)
      [] ec # "ok" /\ left -> async_connect(s)
      [] OTHER -> done(s, "connect", "Connect_Fail", v, v)

\* handle_period_timeout: the attempt under way goes on all the same.
handle_period_timeout(s, v) == done([s EXCEPT !.check = FALSE], "connect", "Timeout", v, v)

handle_write(s, ec, v) ==
    IF ec = "ok" THEN succeed(s, "request", v, v) ELSE done(s, "request", "Write_Fail", v, v)

handle_read_header(s, ec, v, w) ==
    IF ec = "ok" THEN succeed(consume(s, 1), "header", v, w)
    ELSE done(s, "header", "Read_Http_Header_Fail", v, w)

-----------------------------------------------------------------------------
(* LuaHttpReader and the manual reading of a chunked body.                 *)

completed(r) == IF r.cond = "some" THEN r.pos > 0 ELSE r.pos = r.size

\* resume and give_up: the coroutine that waits in read goes on.
resume_reader(s) == IF s.reader.live THEN [s EXCEPT !.reading = FALSE] ELSE s

\* At the end of a chunk its line end is taken from the buffer too.
read_stream(s, len) ==
    LET n == IF len < s.cur_chunk_left THEN len ELSE s.cur_chunk_left IN
    [consume(s, IF n = s.cur_chunk_left THEN n + 1 ELSE n)
        EXCEPT !.cur_chunk_left = @ - n, !.reader.pos = @ + n,
               !.read_by_script = @ \o SubSeq(s.buf, 1, n)]

\* async_load fails once stop has dropped ios_.
notify(s, ec, size) ==
    LET left == s.reader.size - s.reader.pos
        len == IF size < left THEN size ELSE left
        s1 == read_stream(s, len)
    IN  CASE s.reader = NoReader -> s
          [] s.reader # NoReader /\ (ec # "ok" \/ len = 0 \/ s.cur_chunk_left = 0) -> resume_reader(s)
          [] s.reader # NoReader /\ ec = "ok" /\ len > 0 /\ s.cur_chunk_left > 0 /\ ~completed(s1.reader) ->
                IF s1.ios THEN post(s1, load_task) ELSE resume_reader(s1)
          [] OTHER -> resume_reader(s1)

load(s) ==
    CASE ~s.is_chunk -> s
      [] s.is_chunk /\ s.cur_chunk_left > 0 -> notify(s, "ok", s.cur_chunk_left)
      [] OTHER -> async(s, "until", 0, "lua_chunk_size")

\* The size of the chunk is known; chunk and line end are asked of the
\* socket, whatever the buffer holds already.
handle_lua_chunk_size(s, ec) ==
    LET n == Head(s.buf).n
        s1 == consume([s EXCEPT !.cur_chunk_size = n], 1)
    IN  CASE ec # "ok" -> notify(s, ec, 0)
          [] ec = "ok" /\ n = 0 -> notify(s1, "eof", 0)
          [] OTHER -> async(s1, "exactly", n + 1, "lua_chunk_body")

handle_load_chunk_body(s, ec) ==
    IF ec # "ok" THEN notify(s, ec, 0)
    ELSE notify([s EXCEPT !.cur_chunk_left = s.cur_chunk_size], "ok", s.cur_chunk_size)

-----------------------------------------------------------------------------
(* The io thread.                                                          *)

handle(s, task, v, w, left) ==
    CASE task.k = "exec" -> execute_state(s, task.who, v)
      [] task.k = "close" -> close(s)
      [] task.k = "load" -> load(s)
      [] task.k = "completion" /\ task.who = "resolve" -> handle_resolved(s, task.ec, v)
      [] task.k = "completion" /\ task.who = "connect" -> handle_connection(s, task.ec, v, left)
      [] task.k = "completion" /\ task.who = "request" -> handle_write(s, task.ec, v)
      [] task.k = "completion" /\ task.who = "header" -> handle_read_header(s, task.ec, v, w)
      [] task.k = "completion" /\ task.who = "content" -> handle_read_content(s, task.ec, v)
      [] task.k = "completion" /\ task.who = "chunk_size" -> handle_read_chunk_size(s, task.ec, v)
      [] task.k = "completion" /\ task.who = "chunk_body" -> handle_read_chunk_body(s, task.ec, v)
      [] task.k = "completion" /\ task.who = "lua_chunk_size" -> handle_lua_chunk_size(s, task.ec)
      [] task.k = "completion" /\ task.who = "lua_chunk_body" -> handle_load_chunk_body(s, task.ec)

\* The machine is kept by the module's table and by the tasks bound to it; a
\* completion keeps only its state, which finds the machine gone.
Alive(s) == ~s.deleted \/ \E i \in DOMAIN s.queue : s.queue[i].k # "completion"

release(s) ==
    IF Alive(s) THEN s ELSE [s EXCEPT !.sock = FALSE, !.op = NoOp, !.queue = <<>>, !.check = FALSE]

run_one ==
    /\ h.queue # <<>>
    /\ \E v, w \in Verdicts, left \in BOOLEAN :
        h' = release(handle([h EXCEPT !.queue = Tail(@)], Head(h.queue), v, w, left))

\* The total timeout of the connect is reached.
period_timeout == h.check /\ \E v \in Verdicts : h' = release(handle_period_timeout(h, v))

-----------------------------------------------------------------------------
(* The network.                                                            *)

\* A read takes what it asked for, and more where its condition allows it.
enough(k) ==
    LET got == h.buf \o SubSeq(h.wire, 1, k) IN
    CASE h.op.kind = "until" /\ h.op.who = "header" -> k > 0
      [] h.op.kind = "until" /\ h.op.who # "header" -> \E i \in DOMAIN got : got[i].t \in {"size", "crlf"}
      [] h.op.kind = "at_least" -> k >= h.op.n
      [] h.op.kind = "exactly" -> k = h.op.n
      [] OTHER -> k = 0

complete(s, k, ec) ==
    post([s EXCEPT !.op = NoOp, !.buf = @ \o SubSeq(s.wire, 1, k), !.wire = SubSeq(@, k + 1, Len(@))],
         completion(s.op.who, ec))

\* A read the buffer can serve does not touch the wire.
Complete ==
    /\ h.op # NoOp
    /\ \E k \in 0 .. Len(h.wire) :
         /\ enough(k)
         /\ h.op.kind = "until" /\ enough(0) => k = 0
         /\ \E r \in Responses :
              /\ h.op.kind = "write" /\ r.status = "redirect" => h.redirects < MaxRedirects
              /\ h' = IF h.op.kind # "write" THEN complete(h, k, "ok")
                      ELSE [complete(h, k, "ok") EXCEPT
                              !.resp = r, !.wire = Stream(r),
                              !.redirects = @ + IF r.status = "redirect" THEN 1 ELSE 0]

\* An operation fails, or the peer closes or resets, perhaps in the middle of
\* its answer.
Fail(ec) ==
    LET reads == h.op.kind \in {"until", "at_least", "exactly"} IN
    /\ h.op # NoOp
    /\ ec = "eof" => reads
    /\ \E k \in 0 .. Len(h.wire) :
         /\ reads => \A j \in 0 .. k : ~enough(j)
         /\ ec = "error" => k = 0
         /\ h' = [complete(h, k, ec) EXCEPT !.wire = <<>>]

-----------------------------------------------------------------------------
(* The script.                                                             *)

\* HttpSession::request: the machine is installed and its first state posted.
request(s) ==
    post([s EXCEPT !.sock = TRUE, !.installed = TRUE, !.state = "resolve"], exec("resolve"))

get(s, m) ==
    request([s EXCEPT !.live = TRUE, !.async = FALSE, !.manual = m.manual, !.one_off = m.one_off,
                      !.waiting = TRUE])

async_get(s, m) ==
    request([s EXCEPT !.live = TRUE, !.async = TRUE, !.manual = m.manual, !.one_off = m.one_off])

Fresh == ~h.deleted /\ ~h.live /\ h.state = "none"

lua_get(m) == Fresh /\ ~m.async /\ h' = get(h, m)

lua_async_get(m) == Fresh /\ m.async /\ h' = async_get(h, m)

read(s, n, cond) ==
    post([s EXCEPT !.reader = [size |-> n, pos |-> 0, cond |-> cond, live |-> TRUE], !.reading = TRUE],
         load_task)

\* A script that has asked for manual_read_body and has its header reads,
\* one read at a time.
MayRead ==
    /\ ~h.deleted /\ h.live /\ h.connected /\ h.manual /\ h.answers # <<>> /\ ~h.reading
    /\ h.ios

lua_read(n, cond) == MayRead /\ h' = read(h, n, cond)

\* The scanf reader is an exact one of the format's total size.
lua_scanf(n) == MayRead /\ h' = read(h, n, "exactly")

\* lua_close, and clear when the module goes away.
lua_close_http ==
    /\ ~h.deleted
    /\ h' = release([close(h) EXCEPT !.deleted = TRUE])

http_init == h = new_http

HttpNext ==
    \/ run_one \/ period_timeout
    \/ Complete \/ Fail("eof") \/ Fail("error")
    \/ \E m \in Modes : lua_get(m) \/ lua_async_get(m)
    \/ \E n \in ReadSizes : lua_read(n, "some") \/ lua_read(n, "exactly") \/ lua_scanf(n)
    \/ lua_close_http

\* The io thread runs what is posted.
HttpFairness == WF_httpVars(run_one)

-----------------------------------------------------------------------------
(* Properties.                                                             *)

Busy == h.queue # <<>> \/ h.op # NoOp

\* A coroutine that waits in get, or in read for a chunked body, is never
\* forgotten (load leaves the reads of other bodies undone): as long as it
\* waits and the program runs, the machine has an operation under way or a
\* handler posted that can still answer it.  A coroutine hears once, of the
\* answer or of a Timeout of the connection.  The callback of async_get hears
\* of one answer beside those Timeouts, one for each connect at most, which
\* neither end the connect nor are prevented by its failure; a refusal of the
\* body by the script's own body callback it hears of as well.
GetAnswered ==
    /\ h.live /\ (h.waiting \/ (h.reading /\ h.is_chunk)) => Busy
    /\ Len(h.answers) <= 1 \/ (h.async /\ h.rejected /\ Len(h.answers) = 2)
    /\ ~h.async => Len(h.answers) + h.timeouts <= 1
    /\ h.timeouts <= 1 + h.redirects

\* A get that succeeds has the body the server sent, whole and in order,
\* however the reads of the socket cut the stream and however much was read
\* ahead; and what a script reads piece by piece is the body from its beginning.
BodyIntact ==
    /\ \A i \in DOMAIN h.answers :
        h.answers[i].ec = "Success" =>
            h.answers[i].body = IF h.manual THEN <<>> ELSE Body(h.resp)
    /\ h.read_by_script = SubSeq(Body(h.resp), 1, Len(h.read_by_script))

\* A one-off session that has answered is closed without the script's help,
\* and so is the connection of one that comes after its Timeout.
OneOffCloses ==
    (h.one_off /\ ~h.manual /\ (h.answers # <<>> \/ h.timeouts > 0)) ~> ~(h.connected /\ h.sock)
=============================================================================
