--------------------------- MODULE StatusdClient ---------------------------
(***************************************************************************)
(* The client of the status server, src/src/server/statusd, with the send  *)
(* buffer it shares with TcpSendState (network/tcp_state_machine) and the  *)
(* timer of BeeEntrance that replaces a client which is not logged in.     *)
(*                                                                         *)
(* The handlers run on the io thread, in the order of their posting; log   *)
(* lines come from the thread of the logger.  Resolving and connecting are *)
(* TcpConnect: here they only end, well or not.  An old client lives on    *)
(* while handlers posted for it wait.                                      *)
(***************************************************************************)
EXTENDS Naturals, Sequences

CONSTANTS
    MaxClients,   \* bound on the clients handle_statusd_timeout creates
    MaxOpens,     \* bound on the sessions opened; the ids are 1 .. MaxOpens
    MaxPackets,   \* bound on the packets of one client before a log line
    MaxQueue      \* bound on the posted handlers before a log line, open or close

ASSUME StatusdAssumption ==
    MaxClients \in Nat /\ MaxOpens \in Nat /\ MaxPackets \in Nat /\ MaxQueue \in Nat

VARIABLES
    client,      \* statusd_client_: the number of the current client, 0 for NULL
    obj,         \* the client objects
    queue,       \* posted handlers, oldest first
    flight,      \* packets given to async_write of the socket, not completed
    submitted,   \* packets given to write so far
    received,    \* packets that reached the server
    logger,      \* the client the logger has found logged in, or 0
    opens        \* sessions opened so far

wireVars == <<flight, submitted, received>>
statusdVars == <<client, obj, queue, flight, submitted, received, logger, opens>>

Clients == 1 .. MaxClients
NoSid == 0
Sids == 0 .. MaxOpens

Packet == [code : {"login", "reset_sid", "log"}, sid : Sids]
NoPkt == [code |-> "none", sid |-> NoSid]
LogPkt == [code |-> "log", sid |-> NoSid]

Object == [phase            : {"none", "new", "connecting", "login", "finished", "failed"},
           sock             : BOOLEAN,
           connected        : BOOLEAN,
           logined          : BOOLEAN,
           sid              : Sids,
           sync_sid_pending : BOOLEAN,
           cwiobuff         : Packet \cup {NoPkt},
           qwiobuff         : Seq(Packet),
           heartbeat_timer  : BOOLEAN]

NoClient == [phase |-> "none", sock |-> FALSE, connected |-> FALSE, logined |-> FALSE,
             sid |-> NoSid, sync_sid_pending |-> FALSE, cwiobuff |-> NoPkt,
             qwiobuff |-> <<>>, heartbeat_timer |-> FALSE]

\* A posted handler: of client c, with the argument it is bound to.
Handler(k, c, sid, flag) == [kind |-> k, c |-> c, sid |-> sid, flag |-> flag]
Handlers == [kind : {"connect", "set_sid", "log", "execute", "login_write", "write"},
             c : Clients, sid : Sids, flag : BOOLEAN]

StatusdInit ==
    /\ client = 0 /\ obj = [c \in Clients |-> NoClient]
    /\ queue = <<>>
    /\ flight = [c \in Clients |-> <<>>]
    /\ submitted = [c \in Clients |-> <<>>] /\ received = [c \in Clients |-> <<>>]
    /\ logger = 0 /\ opens = 0

-----------------------------------------------------------------------------
(* The send buffer.                                                        *)

\* Faulty variant of async_write: a packet is sent beside the current one.
async_write_at_once(c, o, pkt) ==
    /\ submitted' = [submitted EXCEPT ![c] = Append(@, pkt)]
    /\ obj' = [obj EXCEPT ![c] = [o EXCEPT !.cwiobuff = pkt]]
    /\ flight' = [flight EXCEPT ![c] = Append(@, pkt)]
    /\ UNCHANGED received

\* async_write of the packet, when the client's fields are o: it becomes the
\* current one and goes to the socket, or waits behind the current one.
async_write(c, o, pkt) ==
    /\ submitted' = [submitted EXCEPT ![c] = Append(@, pkt)]
    /\ IF o.cwiobuff = NoPkt
       THEN /\ obj' = [obj EXCEPT ![c] = [o EXCEPT !.cwiobuff = pkt]]
            /\ flight' = [flight EXCEPT ![c] = Append(@, pkt)]
       ELSE /\ obj' = [obj EXCEPT ![c] = [o EXCEPT !.qwiobuff = Append(@, pkt)]]
            /\ UNCHANGED flight
    /\ UNCHANGED received

\* Faulty variant of send_more: what waits is left to the next write.
send_more_later(c) ==
    /\ obj[c].qwiobuff # <<>>
    /\ obj' = [obj EXCEPT ![c].cwiobuff = NoPkt]
    /\ UNCHANGED wireVars

\* check_send_buffer after a packet has been sent, when another one waits:
\* it is next, and async_write without data starts it.
send_more(c) ==
    /\ obj[c].qwiobuff # <<>>
    /\ obj' = [obj EXCEPT ![c].cwiobuff = Head(obj[c].qwiobuff),
                          ![c].qwiobuff = Tail(obj[c].qwiobuff)]
    /\ flight' = [flight EXCEPT ![c] = Append(@, Head(obj[c].qwiobuff))]
    /\ UNCHANGED <<submitted, received>>

\* The network: the oldest write of the socket ends.
WriteComplete(c, ok) ==
    /\ flight[c] # <<>> /\ obj[c].sock
    /\ flight' = [flight EXCEPT ![c] = Tail(@)]
    /\ received' = IF ok THEN [received EXCEPT ![c] = Append(@, Head(flight[c]))] ELSE received
    /\ queue' = Append(queue, Handler(IF obj[c].phase = "login" THEN "login_write" ELSE "write",
                                      c, NoSid, ok))
    /\ UNCHANGED <<client, obj, submitted, logger, opens>>

-----------------------------------------------------------------------------
(* The handlers of StatusdClient.                                          *)

Oldest(k) == queue # <<>> /\ Head(queue).kind = k

\* inner_connect: start sets the machine up, opens a socket and resolves.
inner_connect ==
    /\ Oldest("connect")
    /\ obj' = [obj EXCEPT ![Head(queue).c].phase = "connecting", ![Head(queue).c].sock = TRUE]
    /\ queue' = Tail(queue)
    /\ UNCHANGED <<client, logger, opens>> /\ UNCHANGED wireVars

\* handle_Connect on success, and Transform_Connect_To_Login: the packet
\* carries the sid_ of now; the login state is posted.
handle_Connect(c) ==
    /\ obj[c].phase = "connecting"
    /\ obj' = [obj EXCEPT ![c].phase = "login", ![c].connected = TRUE]
    /\ queue' = Append(queue, Handler("execute", c, obj[c].sid, FALSE))
    /\ UNCHANGED <<client, logger, opens>> /\ UNCHANGED wireVars

\* The connect fails for good: output and handle_error.
connect_failed(c) ==
    /\ obj[c].phase = "connecting"
    /\ obj' = [obj EXCEPT ![c].phase = "failed", ![c].logined = FALSE]
    /\ UNCHANGED <<client, queue, logger, opens>> /\ UNCHANGED wireVars

\* TcpSendState::execute.
execute_login ==
    /\ Oldest("execute")
    /\ LET e == Head(queue) IN async_write(e.c, obj[e.c], [code |-> "login", sid |-> e.sid])
    /\ queue' = Tail(queue)
    /\ UNCHANGED <<client, logger, opens>>

\* Faulty variant of handle_Login: the pending id is forgotten.
handle_Login_no_sync(c) ==
    /\ obj[c].qwiobuff = <<>>
    /\ obj' = [obj EXCEPT ![c] = [@ EXCEPT !.cwiobuff = NoPkt, !.phase = "finished", !.logined = TRUE,
                                           !.heartbeat_timer = TRUE, !.sync_sid_pending = FALSE]]
    /\ UNCHANGED wireVars

\* handle_Login after the login packet was sent: an id set meanwhile follows.
handle_Login(c) ==
    LET o == [obj[c] EXCEPT !.cwiobuff = NoPkt, !.phase = "finished", !.logined = TRUE,
                            !.heartbeat_timer = TRUE, !.sync_sid_pending = FALSE]
    IN  /\ obj[c].qwiobuff = <<>>
        /\ IF obj[c].sync_sid_pending
           THEN async_write(c, o, [code |-> "reset_sid", sid |-> o.sid])
           ELSE obj' = [obj EXCEPT ![c] = o] /\ UNCHANGED wireVars

\* TcpSendState::handle_write.
login_handle_write ==
    /\ Oldest("login_write")
    /\ LET e == Head(queue) IN
       \/ e.flag /\ (send_more(e.c) \/ handle_Login(e.c))
       \/ /\ ~e.flag
          /\ obj' = [obj EXCEPT ![e.c].phase = "failed", ![e.c].logined = FALSE]
          /\ UNCHANGED wireVars
    /\ queue' = Tail(queue)
    /\ UNCHANGED <<client, logger, opens>>

\* StatusdClient::handle_write.
handle_write ==
    /\ Oldest("write")
    /\ LET e == Head(queue) IN
       \/ e.flag /\ send_more(e.c)
       \/ /\ e.flag /\ obj[e.c].qwiobuff = <<>>
          /\ obj' = [obj EXCEPT ![e.c].cwiobuff = NoPkt]
          /\ UNCHANGED wireVars
       \/ /\ ~e.flag
          /\ obj' = [obj EXCEPT ![e.c].logined = FALSE]
          /\ UNCHANGED wireVars
    /\ queue' = Tail(queue)
    /\ UNCHANGED <<client, logger, opens>>

\* inner_set_sid: flag is `sync'.
inner_set_sid ==
    LET e == Head(queue)
        o == [obj[e.c] EXCEPT !.sid = e.sid]
    IN  /\ Oldest("set_sid")
        /\ \/ /\ e.sid = obj[e.c].sid
              /\ UNCHANGED obj /\ UNCHANGED wireVars
           \/ /\ e.sid # obj[e.c].sid /\ ~o.logined /\ e.flag
              /\ obj' = [obj EXCEPT ![e.c] = [o EXCEPT !.sync_sid_pending = TRUE]]
              /\ UNCHANGED wireVars
           \/ /\ e.sid # obj[e.c].sid /\ ~e.flag
              /\ obj' = [obj EXCEPT ![e.c] = o] /\ UNCHANGED wireVars
           \/ /\ e.sid # obj[e.c].sid /\ o.logined /\ e.flag
              /\ async_write(e.c, o, [code |-> "reset_sid", sid |-> e.sid])
        /\ queue' = Tail(queue)
        /\ UNCHANGED <<client, logger, opens>>

\* inner_write_log: looks at neither logined_ nor the socket.
inner_write_log ==
    /\ Oldest("log")
    /\ LET e == Head(queue) IN async_write(e.c, obj[e.c], LogPkt)
    /\ queue' = Tail(queue)
    /\ UNCHANGED <<client, logger, opens>>

\* handle_heartbeart_timeout: the timer runs until stop cancels it.
handle_heartbeart_timeout(c) ==
    /\ obj[c].heartbeat_timer /\ Len(submitted[c]) < MaxPackets
    /\ async_write(c, obj[c], LogPkt)
    /\ UNCHANGED <<client, queue, logger, opens>>

-----------------------------------------------------------------------------
(* BeeEntrance, as far as it uses the client.                              *)

\* StatusdClient::stop: nothing but the timer when it is not connected.
stop(o) ==
    IF o.connected
    THEN [o EXCEPT !.heartbeat_timer = FALSE, !.sock = FALSE, !.connected = FALSE,
                   !.cwiobuff = NoPkt, !.qwiobuff = <<>>]
    ELSE [o EXCEPT !.heartbeat_timer = FALSE]

\* The period of the timer is 10000 s: whatever the client began, it has
\* ended when the timer fires again.
Settled == client # 0 => obj[client].phase \in {"finished", "failed"}

\* Faulty variant: a client that is there is not replaced.
handle_statusd_timeout_once ==
    /\ client = 0
    /\ client' = 1
    /\ obj' = [obj EXCEPT ![1] = [NoClient EXCEPT !.phase = "new"]]
    /\ queue' = Append(queue, Handler("connect", 1, NoSid, FALSE))
    /\ UNCHANGED <<logger, opens>> /\ UNCHANGED wireVars

\* handle_statusd_timeout when the client is not logged in: it is stopped
\* and a new one, which has no sid_, connects.
handle_statusd_timeout ==
    /\ Settled /\ client < MaxClients
    /\ client # 0 => ~obj[client].logined
    /\ client' = client + 1
    /\ obj' = [c \in Clients |-> IF c = client THEN stop(obj[c])
                                 ELSE IF c = client + 1 THEN [NoClient EXCEPT !.phase = "new"]
                                 ELSE obj[c]]
    /\ queue' = Append(queue, Handler("connect", client + 1, NoSid, FALSE))
    /\ UNCHANGED <<logger, opens>> /\ UNCHANGED wireVars

\* do_open_session and do_close_session: set_sid posts to the client.
set_sid(sid, sync) ==
    queue' = IF client = 0 THEN queue ELSE Append(queue, Handler("set_sid", client, sid, sync))

session_opened ==
    /\ opens < MaxOpens /\ Len(queue) < MaxQueue
    /\ opens' = opens + 1
    /\ set_sid(opens', TRUE)
    /\ UNCHANGED <<client, obj, logger>> /\ UNCHANGED wireVars

session_closed ==
    /\ opens > 0 /\ Len(queue) < MaxQueue
    /\ set_sid(NoSid, FALSE)
    /\ UNCHANGED <<client, obj, logger, opens>> /\ UNCHANGED wireVars

\* write_net_log and write_log on the logger's thread: the test ...
write_log_test ==
    /\ logger = 0 /\ client # 0 /\ obj[client].logined
    /\ logger' = client
    /\ UNCHANGED <<client, obj, queue, opens>> /\ UNCHANGED wireVars

\* ... and the post.
write_log_post ==
    /\ logger # 0
    /\ Len(queue) < MaxQueue /\ Len(submitted[logger]) < MaxPackets
    /\ queue' = Append(queue, Handler("log", logger, NoSid, FALSE))
    /\ logger' = 0
    /\ UNCHANGED <<client, obj, opens>> /\ UNCHANGED wireVars

-----------------------------------------------------------------------------
IoThread ==
    \/ inner_connect \/ execute_login \/ login_handle_write \/ handle_write
    \/ inner_set_sid \/ inner_write_log

Connecting == \E c \in Clients : handle_Connect(c) \/ connect_failed(c)
Network == \E c \in Clients, ok \in BOOLEAN : WriteComplete(c, ok)

StatusdNext ==
    \/ IoThread \/ Connecting \/ Network
    \/ \E c \in Clients : handle_heartbeart_timeout(c)
    \/ handle_statusd_timeout
    \/ session_opened \/ session_closed
    \/ write_log_test \/ write_log_post

StatusdSpec == StatusdInit /\ [][StatusdNext]_statusdVars

-----------------------------------------------------------------------------
(* Properties.                                                             *)

StatusdTypeOK ==
    /\ client \in 0 .. MaxClients
    /\ obj \in [Clients -> Object]
    /\ queue \in Seq(Handlers)
    /\ flight \in [Clients -> Seq(Packet)]
    /\ submitted \in [Clients -> Seq(Packet)] /\ received \in [Clients -> Seq(Packet)]
    /\ logger \in 0 .. MaxClients
    /\ opens \in 0 .. MaxOpens

\* A write has failed and its handler has not run yet.
Broken(c) == \E i \in DOMAIN queue :
    queue[i].c = c /\ queue[i].kind \in {"write", "login_write"} /\ ~queue[i].flag

\* The login state, the client's own writes, the logger and the heartbeat
\* share one buffer.  Whoever submits a packet: the socket never has two
\* writes at a time, and while the client is logged in every packet is
\* exactly once, and in order, at the server, on the socket or waiting.
SentOnce ==
    \A c \in Clients :
        /\ Len(flight[c]) <= 1
        /\ obj[c].logined /\ ~Broken(c) =>
              submitted[c] = received[c] \o flight[c] \o obj[c].qwiobuff

\* What waits behind the current packet is waited for: as long as the client
\* is logged in, a write or its completion is under way.
NothingStuck ==
    \A c \in Clients : obj[c].logined /\ obj[c].qwiobuff # <<>> =>
        \/ flight[c] # <<>>
        \/ \E i \in DOMAIN queue : queue[i].c = c /\ queue[i].kind \in {"write", "login_write"}

\* sid is the last id told by packets s: that of the login or of a reset.
Tells(s, sid) ==
    \E i \in DOMAIN s : /\ s[i].code # "log" /\ s[i].sid = sid
                        /\ \A j \in i + 1 .. Len(s) : s[j].code = "log"

\* Once a logged-in client has nothing left to do, the server knows the live
\* session the client was given, whenever the session was opened: before the
\* connect, during the login or after it.
SidReachesServer ==
    \A c \in Clients :
        /\ obj[c].logined /\ obj[c].sid # NoSid /\ flight[c] = <<>>
        /\ \A i \in DOMAIN queue : queue[i].c # c
        => Tells(received[c], obj[c].sid)

\* A client that is not logged in is replaced, or logs in.
Reconnects ==
    \A c \in 0 .. MaxClients - 1 :
        client = c /\ (c # 0 => ~obj[c].logined) ~> client > c \/ (c # 0 /\ obj[c].logined)

\* A write is started on a socket that exists.
WritesHaveSocket == \A c \in Clients : flight[c] # <<>> => obj[c].sock
=============================================================================
