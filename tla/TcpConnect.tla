----------------------------- MODULE TcpConnect -----------------------------
(***************************************************************************)
(* Establishing a connection: TcpResolveState and TcpConnectState of       *)
(* src/src/network/tcp_state_machine.cpp, which CAClient, StatusdClient    *)
(* and HttpSession begin with, and the HTTP redirection that sends         *)
(* HttpSession back to its resolve state.                                  *)
(*                                                                         *)
(* Everything runs on the io thread.  An asynchronous operation of the     *)
(* socket ends in a completion, which waits in `ready' until its handler   *)
(* runs; closing the socket completes what is pending on it with           *)
(* operation_aborted.  Time is counted in periods of the check timer       *)
(* (kTcpCheckConnectPeriod, 200 ms).                                       *)
(***************************************************************************)
EXTENDS Integers, Sequences

CONSTANTS
    Hosts,             \* host names
    First,             \* the host the machine is started with
    N,                 \* endpoints a name resolves to
    StartIndex,        \* start_index of TcpConnectInputEvent
    Tls,               \* the values of is_tls_ explored
    ConnectTimeouts,   \* the values of connect_timeout explored, in periods
    EndpointTimeout,   \* endpoint_timeout_, in periods
    MaxRedirects       \* bound on the redirections a server answers with

ASSUME ConnectAssumption ==
    /\ First \in Hosts
    /\ N \in Nat \ {0} /\ StartIndex \in Int /\ Tls \subseteq BOOLEAN
    /\ ConnectTimeouts \subseteq Nat \ {0} /\ EndpointTimeout \in Nat \ {0}
    /\ MaxRedirects \in Nat

VARIABLES
    pc,                   \* the state the machine is in: resolve, connect or what follows
    is_tls,               \* is_tls_
    connect_timeout,      \* connect_timeout of TcpConnectInputEvent
    host,                 \* host of TcpResolveInputEvent
    redirects,            \* redirections so far
    resolved_endpoints,   \* the host each resolved endpoint belongs to
    index,                \* index_
    total_count, tried_count,
    current_spent_time, current_endpoint_spent_time,
    check_timer,          \* check_timer_ is running
    pending,              \* the operation under way on the current socket
    wire,                 \* what the current socket is: closed, connected, secured
    ready,                \* completions whose handler has not run
    connected,            \* connected_
    reports,              \* what the machine has reported since it entered pc
    attempted             \* endpoints tried since execute

resolveVars == <<is_tls, connect_timeout, host, redirects, resolved_endpoints>>
timeVars == <<current_spent_time, current_endpoint_spent_time>>
tcpVars == <<pc, is_tls, connect_timeout, host, redirects, resolved_endpoints, index, total_count,
          tried_count,
          current_spent_time, current_endpoint_spent_time, check_timer, pending,
          wire, ready, connected, reports, attempted>>

Ec == {"ok", "failed", "timed_out", "aborted"}
Report == {"Success", "Connect_Fail", "Timeout", "Tls_Shakehand_Fail", "Resolve_Fail"}

NoOp == [kind |-> "none", index |-> 0]
Op == [kind : {"connect", "handshake"}, index : Nat]
\* old: the socket of the operation has been replaced in the meantime.
Completion == [kind : {"connect", "handshake"}, index : Nat, ec : Ec, old : BOOLEAN]

target(i) == i % total_count

TcpInit ==
    /\ is_tls \in Tls /\ connect_timeout \in ConnectTimeouts
    /\ pc = "resolve" /\ host = First /\ redirects = 0 /\ resolved_endpoints = <<>>
    /\ index = 0 /\ total_count = 0 /\ tried_count = 0
    /\ current_spent_time = 0 /\ current_endpoint_spent_time = 0
    /\ check_timer = FALSE
    /\ pending = NoOp /\ wire = "closed" /\ ready = <<>>
    /\ connected = FALSE /\ reports = <<>> /\ attempted = {}

-----------------------------------------------------------------------------
(* The network.                                                            *)

\* The connect or the handshake under way ends.
Complete(ok) ==
    /\ pending # NoOp
    /\ ready' = Append(ready, [kind |-> pending.kind, index |-> pending.index,
                               ec |-> IF ok THEN "ok" ELSE "failed", old |-> FALSE])
    /\ wire' = IF ~ok THEN "closed"
               ELSE IF pending.kind = "connect" THEN "connected" ELSE "secured"
    /\ pending' = NoOp
    /\ UNCHANGED <<pc, index, total_count, tried_count, check_timer, connected, reports, attempted>>
    /\ UNCHANGED resolveVars
    /\ UNCHANGED timeVars

-----------------------------------------------------------------------------
(* TcpResolveState.                                                        *)

\* The endpoints of the host are added to those already there, and the
\* connect state takes the list over; its execute starts the first connect
\* and the check timer.
handle_resolve ==
    /\ pc = "resolve"
    /\ resolved_endpoints' = resolved_endpoints \o [i \in 1 .. N |-> host]
    /\ total_count' = Len(resolved_endpoints')
    /\ index' = IF StartIndex \in 0 .. total_count' - 1 THEN StartIndex ELSE index
    /\ pending' = [kind |-> "connect", index |-> index'] /\ wire' = "closed"
    /\ tried_count' = tried_count + 1
    /\ check_timer' = TRUE
    /\ attempted' = {index' % total_count'}
    /\ pc' = "connect" /\ reports' = <<>>
    /\ UNCHANGED <<is_tls, connect_timeout, host, redirects, ready, connected>>
    /\ UNCHANGED timeVars

\* The name does not resolve.
handle_resolve_failed ==
    /\ pc = "resolve"
    /\ reports' = <<"Resolve_Fail">>
    /\ pc' = "ended"
    /\ UNCHANGED <<index, total_count, tried_count, check_timer, pending, wire, ready,
                   connected, attempted>>
    /\ UNCHANGED resolveVars
    /\ UNCHANGED timeVars

-----------------------------------------------------------------------------
(* TcpConnectState.                                                        *)

\* reset_socket: the old socket is closed, so that what is pending on it
\* ends as aborted, and every completion that waits belongs to the past.
aborted ==
    IF pending = NoOp THEN <<>>
    ELSE <<[kind |-> pending.kind, index |-> pending.index, ec |-> "aborted", old |-> TRUE]>>

reset_socket(rest) ==
    [i \in DOMAIN rest |-> [rest[i] EXCEPT !.old = TRUE]] \o aborted

\* Try the endpoint at i: a new socket, a new connect.  rest is what stays
\* in ready.
connect_next(i, rest) ==
    /\ index' = i
    /\ current_endpoint_spent_time' = 0
    /\ ready' = reset_socket(rest)
    /\ pending' = [kind |-> "connect", index |-> i] /\ wire' = "closed"
    /\ tried_count' = tried_count + 1
    /\ attempted' = attempted \cup {target(i)}
    /\ UNCHANGED <<pc, total_count, check_timer, connected, reports>>

\* done with an error: no next state, the machine reports it.
fail(e, rest) ==
    /\ reports' = Append(reports, e)
    /\ ready' = rest
    /\ UNCHANGED <<pc, index, total_count, tried_count, current_endpoint_spent_time, check_timer,
                   pending, wire, connected, attempted>>

\* Faulty variant of succeed: the check timer is left running.
succeed_timer_left(rest) ==
    /\ connected' = TRUE
    /\ reports' = Append(reports, "Success") /\ pc' = "exchange"
    /\ ready' = rest
    /\ UNCHANGED <<check_timer, index, total_count, tried_count, current_endpoint_spent_time>>
    /\ UNCHANGED <<pending, wire, attempted>>

\* done with success: the machine moves on to what follows the connect.
succeed(rest) ==
    /\ connected' = TRUE /\ check_timer' = FALSE
    /\ reports' = Append(reports, "Success") /\ pc' = "exchange"
    /\ ready' = rest
    /\ UNCHANGED <<index, total_count, tried_count, current_endpoint_spent_time, pending, wire, attempted>>

async_handshake(rest) ==
    /\ pending' = [kind |-> "handshake", index |-> index]
    /\ ready' = rest
    /\ UNCHANGED <<pc, index, total_count, tried_count, current_endpoint_spent_time, check_timer, wire,
                   connected, reports, attempted>>

ignore(rest) ==
    /\ ready' = rest
    /\ UNCHANGED <<pc, index, total_count, tried_count, current_endpoint_spent_time, check_timer,
                   pending, wire, connected, reports, attempted>>

\* Faulty variant of handle_connect: the last endpoint is given up untried.
handle_connect_short(i, e, rest) ==
    \/ i # index /\ ignore(rest)
    \/ i = index /\ e # "ok" /\ tried_count + 1 < total_count /\ connect_next(index + 1, rest)
    \/ i = index /\ e = "timed_out" /\ tried_count + 1 >= total_count /\ connect_next(index, rest)
    \/ i = index /\ e \in {"failed", "aborted"} /\ tried_count + 1 >= total_count /\ fail("Connect_Fail", rest)
    \/ i = index /\ e = "ok" /\ is_tls /\ async_handshake(rest)
    \/ i = index /\ e = "ok" /\ ~is_tls /\ succeed(rest)

\* handle_connect for the attempt i that ended with e: the next endpoint
\* while one is left, else the last one again after a timeout.
handle_connect(i, e, rest) ==
    \/ i # index /\ ignore(rest)
    \/ i = index /\ e # "ok" /\ tried_count < total_count /\ connect_next(index + 1, rest)
    \/ i = index /\ e = "timed_out" /\ tried_count >= total_count /\ connect_next(index, rest)
    \/ i = index /\ e \in {"failed", "aborted"} /\ tried_count >= total_count /\ fail("Connect_Fail", rest)
    \/ i = index /\ e = "ok" /\ is_tls /\ async_handshake(rest)
    \/ i = index /\ e = "ok" /\ ~is_tls /\ succeed(rest)

\* Faulty variant: the error code of the handshake is not looked at.
handle_handshake_unchecked(e, rest) == succeed(rest)

handle_handshake(e, rest) ==
    IF e = "ok" THEN succeed(rest) ELSE fail("Tls_Shakehand_Fail", rest)

\* The handler of the oldest completion runs.
handle_completion ==
    /\ ready # <<>>
    /\ LET c == Head(ready) IN
       IF c.kind = "connect" THEN handle_connect(c.index, c.ec, Tail(ready))
                             ELSE handle_handshake(c.ec, Tail(ready))
    /\ UNCHANGED current_spent_time
    /\ UNCHANGED resolveVars

\* Faulty variant of handle_period_timeout: the timer fires only once.
handle_period_timeout_once ==
    /\ check_timer /\ check_timer' = FALSE
    /\ current_spent_time' = current_spent_time + 1
    /\ current_endpoint_spent_time' = current_endpoint_spent_time + 1
    /\ reports' = IF current_spent_time' >= connect_timeout THEN Append(reports, "Timeout") ELSE reports
    /\ UNCHANGED <<pc, index, total_count, tried_count, pending, wire, ready, connected, attempted>>
    /\ UNCHANGED resolveVars

\* handle_period_timeout: the total timeout comes before the endpoint's.
handle_period_timeout ==
    /\ check_timer
    /\ current_spent_time' = current_spent_time + 1
    /\ IF current_spent_time' >= connect_timeout
       THEN /\ reports' = Append(reports, "Timeout")
            /\ check_timer' = FALSE
            /\ current_endpoint_spent_time' = current_endpoint_spent_time + 1
            /\ UNCHANGED <<pc, index, total_count, tried_count, pending, wire, ready, connected, attempted>>
       ELSE IF current_endpoint_spent_time + 1 >= EndpointTimeout
       THEN handle_connect(index, "timed_out", ready)
       ELSE /\ current_endpoint_spent_time' = current_endpoint_spent_time + 1
            /\ UNCHANGED <<pc, index, total_count, tried_count, check_timer, pending, wire, ready,
                           connected, reports, attempted>>
    /\ UNCHANGED resolveVars

-----------------------------------------------------------------------------
(* HttpSession: on_rcv_header meets a 30x answer, redirect opens a new     *)
(* socket and the machine returns to its resolve state for the host named. *)

redirect ==
    /\ pc = "exchange" /\ redirects < MaxRedirects
    /\ \E h \in Hosts : host' = h
    /\ redirects' = redirects + 1
    /\ ready' = reset_socket(ready)
    /\ pending' = NoOp /\ wire' = "closed"
    /\ pc' = "resolve" /\ reports' = <<>>
    /\ UNCHANGED <<is_tls, connect_timeout, resolved_endpoints, index, total_count, tried_count>>
    /\ UNCHANGED <<check_timer, connected, attempted>>
    /\ UNCHANGED timeVars

TcpNext ==
    \/ \E ok \in BOOLEAN : Complete(ok)
    \/ handle_resolve \/ handle_resolve_failed
    \/ handle_completion \/ handle_period_timeout
    \/ redirect

TcpSpec == TcpInit /\ [][TcpNext]_tcpVars

-----------------------------------------------------------------------------
(* Properties.                                                             *)

TcpTypeOK ==
    /\ pc \in {"resolve", "connect", "exchange", "ended"}
    /\ is_tls \in BOOLEAN /\ connect_timeout \in Nat
    /\ host \in Hosts /\ redirects \in 0 .. MaxRedirects
    /\ resolved_endpoints \in Seq(Hosts)
    /\ index \in Int /\ total_count \in Nat /\ tried_count \in Nat
    /\ current_spent_time \in Nat /\ current_endpoint_spent_time \in Nat
    /\ check_timer \in BOOLEAN /\ connected \in BOOLEAN
    /\ pending \in Op \cup {NoOp}
    /\ wire \in {"closed", "connected", "secured"}
    /\ ready \in Seq(Completion)
    /\ reports \in Seq(Report)
    /\ attempted \subseteq Nat

Reports(e) == Len(reports') = Len(reports) + 1 /\ reports'[Len(reports')] = e

\* handle_connect gives up with Connect_Fail only when every endpoint of the
\* list has been tried, whatever the start index.  A redirection keeps
\* tried_count_, so that this is said of the first host only.
AllEndpointsTried ==
    [][redirects = 0 /\ Reports("Connect_Fail") => attempted = 0 .. total_count - 1]_tcpVars

\* Once the connect has succeeded no late timer, aborted operation or second
\* completion reports anything more, or starts another connect, under the
\* exchange that follows.
SuccessIsFinal ==
    [][pc = "exchange" /\ connect_timeout <= EndpointTimeout =>
        reports' \in {reports, <<>>} /\ (pc' = "exchange" => pending' = pending)]_tcpVars

\* What follows the connect finds the machine's socket connected, and
\* secured when the connection is a TLS one.  With a connect_timeout above
\* endpoint_timeout_ it does not: the completion of an operation whose socket
\* has been replaced in the meantime is taken for that of the new one.
ExchangeHasSocket ==
    pc = "exchange" /\ connect_timeout <= EndpointTimeout =>
        connected /\ wire = IF is_tls THEN "secured" ELSE "connected"

\* After a redirection the exchange is with the host it names.
RedirectReachesHost ==
    pc = "exchange" => resolved_endpoints[target(index) + 1] = host

\* Even when the peer never answers, a connect ends in a report.
ConnectReports == pc = "connect" ~> (pc # "connect" \/ reports # <<>>)
=============================================================================
