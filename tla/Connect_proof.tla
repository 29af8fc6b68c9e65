--------------------------- MODULE Connect_proof ---------------------------
(***************************************************************************)
(* Proofs about the connections of the SDK.  First establishing one, for   *)
(* any hosts, any number of endpoints, any start index and any timeouts:   *)
(* no endpoint is given up untried, and under the timeouts of the callers  *)
(* the machine has one operation at a time, so that what follows the       *)
(* connect finds its socket.  Then the status client, for any number of    *)
(* clients, sessions, packets and posted handlers: the buffer that four    *)
(* writers share sends every packet once, and a session id the client was  *)
(* given reaches the server.                                               *)
(***************************************************************************)
EXTENDS TcpConnect, StatusdClient, SequenceTheorems, TLAPS

-----------------------------------------------------------------------------
(* Types.                                                                  *)

\* The endpoint tried is one of the list: an operation, or the timer, is
\* under way only when there is a list.
Listed ==
    /\ index \in Nat
    /\ pending # NoOp \/ ready # <<>> \/ check_timer => total_count > 0

TypeInv == TcpTypeOK /\ Listed

\* Replacing the socket leaves completions.
LEMMA ResetType ==
    ASSUME TypeInv, NEW rest \in Seq(Completion)
    PROVE  reset_socket(rest) \in Seq(Completion)
<1> DEFINE old == [i \in DOMAIN rest |-> [rest[i] EXCEPT !.old = TRUE]]
<1>1. \A i \in DOMAIN rest : [rest[i] EXCEPT !.old = TRUE] \in Completion
  <2> SUFFICES ASSUME NEW i \in DOMAIN rest PROVE [rest[i] EXCEPT !.old = TRUE] \in Completion
    OBVIOUS
  <2>1. rest[i] \in Completion
    OBVIOUS
  <2> QED BY <2>1 DEF Completion
<1>2. old \in Seq(Completion)
  <2>1. PICK n \in Nat : DOMAIN rest = 1 .. n
    OBVIOUS
  <2> QED BY <1>1, <2>1
<1>3. aborted \in Seq(Completion)
  <2>1. CASE pending = NoOp
    BY <2>1 DEF aborted
  <2>2. CASE pending # NoOp
    <3>1. pending \in Op
      BY <2>2 DEF TypeInv, TcpTypeOK
    <3>2. [kind |-> pending.kind, index |-> pending.index, ec |-> "aborted", old |-> TRUE] \in Completion
      BY <3>1 DEF Op, Completion, Ec
    <3> QED BY <2>2, <3>2 DEF aborted
  <2> QED BY <2>1, <2>2
<1> HIDE DEF old
<1>4. old \o aborted \in Seq(Completion)
  BY <1>2, <1>3
<1> QED BY <1>4 DEF reset_socket, old

\* The target of an index is a place in the list.
LEMMA TargetType ==
    ASSUME total_count \in Nat, total_count > 0
    PROVE  \A i \in Nat : target(i) \in Nat
BY DEF target

\* What a handler of a completion or of the timer may do to the machine.
LEMMA HandlerTypes ==
    ASSUME TypeInv, NEW rest \in Seq(Completion), total_count > 0,
           \/ \E i \in Nat : i \in {index, index + 1} /\ connect_next(i, rest)
           \/ \E e \in Report : fail(e, rest)
           \/ succeed(rest) \/ async_handshake(rest) \/ ignore(rest)
    PROVE  /\ index' \in Nat /\ total_count' = total_count /\ tried_count' \in Nat
           /\ current_endpoint_spent_time' \in Nat
           /\ check_timer' \in BOOLEAN /\ connected' \in BOOLEAN
           /\ pending' \in Op \cup {NoOp} /\ wire' \in {"closed", "connected", "secured"}
           /\ ready' \in Seq(Completion) /\ reports' \in Seq(Report)
           /\ attempted' \subseteq Nat /\ pc' \in {pc, "exchange"}
<1>1. /\ index \in Nat /\ total_count \in Nat /\ tried_count \in Nat /\ current_endpoint_spent_time \in Nat
      /\ check_timer \in BOOLEAN /\ connected \in BOOLEAN /\ pending \in Op \cup {NoOp}
      /\ wire \in {"closed", "connected", "secured"} /\ reports \in Seq(Report)
      /\ ready \in Seq(Completion) /\ attempted \subseteq Nat
  BY DEF TypeInv, TcpTypeOK, Listed
<1>2. ASSUME NEW i \in Nat, connect_next(i, rest)
      PROVE  /\ index' \in Nat /\ total_count' = total_count /\ tried_count' \in Nat
             /\ current_endpoint_spent_time' \in Nat
             /\ check_timer' \in BOOLEAN /\ connected' \in BOOLEAN
             /\ pending' \in Op \cup {NoOp} /\ wire' \in {"closed", "connected", "secured"}
             /\ ready' \in Seq(Completion) /\ reports' \in Seq(Report)
             /\ attempted' \subseteq Nat /\ pc' = pc
  <2>1. target(i) \in Nat
    BY <1>1, TargetType
  <2>2. [kind |-> "connect", index |-> i] \in Op
    BY DEF Op
  <2>3. reset_socket(rest) \in Seq(Completion)
    BY ResetType
  <2>4. attempted \cup {target(i)} \subseteq Nat
    BY <1>1, <2>1
  <2>5. /\ index' = i /\ current_endpoint_spent_time' = 0 /\ ready' = reset_socket(rest)
        /\ pending' = [kind |-> "connect", index |-> i] /\ wire' = "closed"
        /\ tried_count' = tried_count + 1 /\ attempted' = attempted \cup {target(i)}
        /\ UNCHANGED <<pc, total_count, check_timer, connected, reports>>
    BY <1>2 DEF connect_next
  <2>6. /\ pending' \in Op \cup {NoOp} /\ ready' \in Seq(Completion) /\ attempted' \subseteq Nat
    BY <2>2, <2>3, <2>4, <2>5
  <2>7. tried_count' \in Nat
    BY <1>1, <2>5
  <2> QED BY <1>1, <2>5, <2>6, <2>7
<1>3. ASSUME NEW e \in Report PROVE Append(reports, e) \in Seq(Report)
  BY <1>1
<1>4. ASSUME NEW e \in Report, fail(e, rest)
      PROVE  /\ reports' \in Seq(Report) /\ ready' = rest
             /\ UNCHANGED <<pc, index, total_count, tried_count, current_endpoint_spent_time,
                            check_timer, pending, wire, connected, attempted>>
  BY <1>3, <1>4 DEF fail
<1>5. CASE succeed(rest)
  <2>1. "Success" \in Report
    BY DEF Report
  <2>2. Append(reports, "Success") \in Seq(Report)
    BY <1>3, <2>1
  <2>3. /\ reports' \in Seq(Report) /\ ready' = rest /\ connected' = TRUE /\ check_timer' = FALSE
        /\ pc' = "exchange"
        /\ UNCHANGED <<index, total_count, tried_count, current_endpoint_spent_time, pending, wire,
                       attempted>>
    BY <1>5, <2>2 DEF succeed
  <2> QED BY <1>1, <2>3
<1>6. CASE async_handshake(rest)
  <2>1. [kind |-> "handshake", index |-> index] \in Op
    BY <1>1 DEF Op
  <2> QED BY <1>1, <1>6, <2>1 DEF async_handshake
<1>7. CASE ignore(rest)
  BY <1>1, <1>7 DEF ignore
<1> QED BY <1>1, <1>2, <1>4, <1>5, <1>6, <1>7

\* The handler of a completion, or of the timer when an attempt has had its
\* time, is one of these.
LEMMA ConnectHandlers ==
    ASSUME TypeInv, NEW rest, NEW i, NEW e, handle_connect(i, e, rest)
    PROVE  \/ \E j \in Nat : j \in {index, index + 1} /\ connect_next(j, rest)
           \/ \E r \in Report : fail(r, rest)
           \/ succeed(rest) \/ async_handshake(rest) \/ ignore(rest)
<1>1. index \in Nat /\ index + 1 \in Nat
  BY DEF TypeInv, Listed
<1>2. "Connect_Fail" \in Report
  BY DEF Report
<1> QED BY <1>1, <1>2 DEF handle_connect

\* The same for the handshake.
LEMMA HandshakeHandlers ==
    ASSUME NEW rest, NEW e, handle_handshake(e, rest)
    PROVE  succeed(rest) \/ fail("Tls_Shakehand_Fail", rest)
BY DEF handle_handshake

\* The types hold at the start and after every step.
LEMMA TypeInit == TcpInit => TypeInv
<1> SUFFICES ASSUME TcpInit PROVE TypeInv
  OBVIOUS
<1>1. TcpTypeOK
  <2>1. /\ is_tls \in BOOLEAN /\ connect_timeout \in Nat /\ host \in Hosts
        /\ redirects \in 0 .. MaxRedirects
    BY ConnectAssumption DEF TcpInit
  <2>2. /\ resolved_endpoints = <<>> /\ ready = <<>> /\ reports = <<>>
        /\ pending = NoOp /\ attempted = {} /\ pc = "resolve" /\ wire = "closed"
        /\ index = 0 /\ total_count = 0 /\ tried_count = 0
        /\ current_spent_time = 0 /\ current_endpoint_spent_time = 0
        /\ check_timer = FALSE /\ connected = FALSE
    BY DEF TcpInit
  <2>3. /\ resolved_endpoints \in Seq(Hosts) /\ ready \in Seq(Completion)
        /\ reports \in Seq(Report)
    BY <2>2
  <2>4. /\ index \in Int /\ total_count \in Nat /\ tried_count \in Nat
        /\ current_spent_time \in Nat /\ current_endpoint_spent_time \in Nat
    BY DEF TcpInit
  <2>5. /\ check_timer \in BOOLEAN /\ connected \in BOOLEAN
        /\ pc \in {"resolve", "connect", "exchange", "ended"}
        /\ wire \in {"closed", "connected", "secured"}
        /\ pending \in Op \cup {NoOp}
    BY DEF TcpInit
  <2>6. attempted \subseteq Nat
    BY <2>2
  <2> QED BY <2>1, <2>3, <2>4, <2>5, <2>6 DEF TcpTypeOK
<1>2. Listed
  BY DEF TcpInit, Listed
<1> QED BY <1>1, <1>2 DEF TypeInv

\* What a handler leaves is well typed, and its host and its timeouts are
\* those it found.
LEMMA HandlerStep ==
    ASSUME TypeInv, NEW rest \in Seq(Completion), total_count > 0,
           \/ \E i \in Nat : i \in {index, index + 1} /\ connect_next(i, rest)
           \/ \E e \in Report : fail(e, rest)
           \/ succeed(rest) \/ async_handshake(rest) \/ ignore(rest),
           UNCHANGED resolveVars, current_spent_time' \in Nat
    PROVE  TypeInv'
<1>1. /\ index' \in Nat /\ total_count' = total_count /\ tried_count' \in Nat
      /\ current_endpoint_spent_time' \in Nat
      /\ check_timer' \in BOOLEAN /\ connected' \in BOOLEAN
      /\ pending' \in Op \cup {NoOp} /\ wire' \in {"closed", "connected", "secured"}
      /\ ready' \in Seq(Completion) /\ reports' \in Seq(Report)
      /\ attempted' \subseteq Nat /\ pc' \in {pc, "exchange"}
  BY HandlerTypes
<1>2. TcpTypeOK'
  BY <1>1 DEF TypeInv, TcpTypeOK, resolveVars
<1>3. Listed'
  BY <1>1 DEF Listed
<1> QED BY <1>2, <1>3 DEF TypeInv

\* The endpoints of a name are added to a list.
LEMMA AppendedList ==
    ASSUME NEW S, NEW s \in Seq(S), NEW t \in Seq(S)
    PROVE  s \o t \in Seq(S) /\ Len(s \o t) = Len(s) + Len(t)
OBVIOUS

\* An index that runs around a list of n endpoints, and the endpoint it
\* stands for.
LEMMA PlaceInList ==
    ASSUME NEW n \in Nat, n > 0, NEW k \in Nat
    PROVE  /\ k % n \in 0 .. n - 1 /\ k % n \in Nat
           /\ k < n => k % n = k
           /\ n <= k /\ k < n + n => k % n = k - n
<1>1. k % n \in 0 .. n - 1 /\ k % n \in Nat
  OBVIOUS
<1>2. k < n => k % n = k
  OBVIOUS
<1>3. n <= k /\ k < n + n => k % n = k - n
  OBVIOUS
<1> QED BY <1>1, <1>2, <1>3

\* Every step keeps the types.
LEMMA TcpTypeStep ==
    ASSUME TypeInv, TcpNext
    PROVE  TypeInv'
<1>1. /\ pc \in {"resolve", "connect", "exchange", "ended"}
      /\ is_tls \in BOOLEAN /\ connect_timeout \in Nat /\ host \in Hosts
      /\ redirects \in 0 .. MaxRedirects /\ resolved_endpoints \in Seq(Hosts)
      /\ total_count \in Nat /\ tried_count \in Nat
      /\ current_spent_time \in Nat /\ current_endpoint_spent_time \in Nat
      /\ check_timer \in BOOLEAN /\ connected \in BOOLEAN
      /\ pending \in Op \cup {NoOp} /\ wire \in {"closed", "connected", "secured"}
      /\ ready \in Seq(Completion) /\ reports \in Seq(Report) /\ attempted \subseteq Nat
      /\ index \in Nat
  BY DEF TypeInv, TcpTypeOK, Listed
<1>2. ASSUME NEW ok \in BOOLEAN, Complete(ok) PROVE TypeInv'
  <2> DEFINE c == [kind |-> pending.kind, index |-> pending.index,
                   ec |-> IF ok THEN "ok" ELSE "failed", old |-> FALSE]
  <2>1. pending \in Op
    BY <1>1, <1>2 DEF Complete
  <2>2. c \in Completion
    BY <2>1 DEF Op, Completion, Ec
  <2> HIDE DEF c
  <2>3. ready' = Append(ready, c)
    BY <1>2 DEF Complete, c
  <2>4. ready' \in Seq(Completion)
    BY <1>1, <2>2, <2>3
  <2>5. /\ wire' \in {"closed", "connected", "secured"} /\ pending' = NoOp
        /\ UNCHANGED <<pc, index, total_count, tried_count, check_timer, connected, reports, attempted>>
        /\ UNCHANGED resolveVars /\ UNCHANGED timeVars
    BY <1>2 DEF Complete
  <2>6. total_count > 0
    BY <1>2 DEF TypeInv, Listed, Complete
  <2>7. TcpTypeOK'
    BY <1>1, <2>4, <2>5 DEF TcpTypeOK, resolveVars, timeVars
  <2>8. Listed'
    BY <1>1, <2>5, <2>6 DEF Listed
  <2> QED BY <2>7, <2>8 DEF TypeInv
<1>3. CASE handle_resolve
  <2>1. [i \in 1 .. N |-> host] \in Seq(Hosts) /\ Len([i \in 1 .. N |-> host]) = N
    BY <1>1, ConnectAssumption
  <2>2. /\ resolved_endpoints' \in Seq(Hosts)
        /\ Len(resolved_endpoints') = Len(resolved_endpoints) + N
    <3>1. resolved_endpoints' = resolved_endpoints \o [i \in 1 .. N |-> host]
      BY <1>3 DEF handle_resolve
    <3> HIDE <1>3
    <3> QED BY <1>1, <2>1, <3>1, AppendedList
  <2>3. total_count' \in Nat /\ total_count' > 0
    BY <1>1, <1>3, <2>2, ConnectAssumption DEF handle_resolve
  <2>4. index' \in Nat
    BY <1>1, <1>3, <2>3, ConnectAssumption DEF handle_resolve
  <2>5. /\ pending' = [kind |-> "connect", index |-> index'] /\ wire' = "closed"
        /\ tried_count' = tried_count + 1 /\ check_timer' = TRUE
        /\ attempted' = {index' % total_count'} /\ pc' = "connect" /\ reports' = <<>>
        /\ UNCHANGED <<is_tls, connect_timeout, host, redirects, ready, connected>>
        /\ UNCHANGED timeVars
    BY <1>3 DEF handle_resolve
  <2>6. pending' \in Op
    BY <2>4, <2>5 DEF Op
  <2>7. attempted' \subseteq Nat
    <3>1. index' % total_count' \in Nat
      BY <2>3, <2>4, PlaceInList
    <3> QED BY <2>5, <3>1
  <2>8. reports' \in Seq(Report)
    BY <2>5
  <2>9. /\ current_spent_time' \in Nat /\ current_endpoint_spent_time' \in Nat
        /\ tried_count' \in Nat
    BY <1>1, <2>5 DEF timeVars
  <2>10. TcpTypeOK'
    <3>1. /\ pc' \in {"resolve", "connect", "exchange", "ended"} /\ index' \in Int
          /\ wire' \in {"closed", "connected", "secured"} /\ pending' \in Op \cup {NoOp}
          /\ check_timer' \in BOOLEAN
      BY <2>4, <2>5, <2>6
    <3>2. /\ is_tls' \in BOOLEAN /\ connect_timeout' \in Nat /\ host' \in Hosts
          /\ redirects' \in 0 .. MaxRedirects /\ ready' \in Seq(Completion)
          /\ connected' \in BOOLEAN
      BY <1>1, <2>5
    <3> QED BY <2>2, <2>3, <2>7, <2>8, <2>9, <3>1, <3>2 DEF TcpTypeOK
  <2>11. Listed'
    BY <2>3, <2>4 DEF Listed
  <2> QED BY <2>10, <2>11 DEF TypeInv
<1>4. CASE handle_resolve_failed
  <2>1. /\ reports' = <<"Resolve_Fail">> /\ pc' = "ended"
        /\ UNCHANGED <<index, total_count, tried_count, check_timer, pending, wire, ready,
                       connected, attempted>>
        /\ UNCHANGED resolveVars /\ UNCHANGED timeVars
    BY <1>4 DEF handle_resolve_failed
  <2>2. reports' \in Seq(Report)
    BY <2>1 DEF Report
  <2>3. TcpTypeOK'
    BY <1>1, <2>1, <2>2 DEF TcpTypeOK, resolveVars, timeVars
  <2>4. Listed'
    BY <2>1 DEF TypeInv, Listed
  <2> QED BY <2>3, <2>4 DEF TypeInv
<1>5. CASE handle_completion
  <2> DEFINE rest == Tail(ready)
  <2>1. rest \in Seq(Completion)
    BY <1>1, <1>5 DEF handle_completion
  <2>2. total_count > 0
    BY <1>5 DEF handle_completion, TypeInv, Listed
  <2>3. UNCHANGED resolveVars /\ current_spent_time' \in Nat
    BY <1>1, <1>5 DEF handle_completion
  <2>4. \/ handle_connect(Head(ready).index, Head(ready).ec, rest)
        \/ handle_handshake(Head(ready).ec, rest)
    BY <1>5 DEF handle_completion
  <2> HIDE DEF rest
  <2>5. CASE handle_connect(Head(ready).index, Head(ready).ec, rest)
    BY <2>1, <2>2, <2>3, <2>5, ConnectHandlers, HandlerStep
  <2>6. CASE handle_handshake(Head(ready).ec, rest)
    <3>1. "Tls_Shakehand_Fail" \in Report
      BY DEF Report
    <3> QED BY <2>1, <2>2, <2>3, <2>6, <3>1, HandshakeHandlers, HandlerStep
  <2> QED BY <2>4, <2>5, <2>6
<1>6. CASE handle_period_timeout
  <2>1. check_timer /\ total_count > 0 /\ current_spent_time' \in Nat /\ UNCHANGED resolveVars
    BY <1>1, <1>6 DEF handle_period_timeout, TypeInv, Listed
  <2>2. CASE current_spent_time' >= connect_timeout
    <3>1. /\ reports' = Append(reports, "Timeout") /\ check_timer' = FALSE
          /\ current_endpoint_spent_time' = current_endpoint_spent_time + 1
          /\ UNCHANGED <<pc, index, total_count, tried_count, pending, wire, ready, connected, attempted>>
      BY <1>6, <2>2 DEF handle_period_timeout
    <3>2. reports' \in Seq(Report)
      <4>1. "Timeout" \in Report
        BY DEF Report
      <4> QED BY <1>1, <3>1, <4>1
    <3>3. TcpTypeOK'
      <4>1. index' \in Int /\ current_endpoint_spent_time' \in Nat
        BY <1>1, <3>1
      <4>2. check_timer' \in BOOLEAN
        BY <3>1
      <4> QED BY <1>1, <2>1, <3>1, <3>2, <4>1, <4>2, Zenon DEF TcpTypeOK, resolveVars
    <3>4. Listed'
      BY <2>1, <3>1 DEF TypeInv, Listed
    <3> QED BY <3>3, <3>4 DEF TypeInv
  <2>3. CASE /\ ~(current_spent_time' >= connect_timeout)
             /\ current_endpoint_spent_time + 1 >= EndpointTimeout
    <3>1. handle_connect(index, "timed_out", ready)
      BY <1>6, <2>3 DEF handle_period_timeout
    <3> QED BY <1>1, <2>1, <3>1, ConnectHandlers, HandlerStep
  <2>4. CASE /\ ~(current_spent_time' >= connect_timeout)
             /\ ~(current_endpoint_spent_time + 1 >= EndpointTimeout)
    <3>1. /\ current_endpoint_spent_time' = current_endpoint_spent_time + 1
          /\ UNCHANGED <<pc, index, total_count, tried_count, check_timer, pending, wire, ready,
                         connected, reports, attempted>>
      BY <1>6, <2>4 DEF handle_period_timeout
    <3>2. TcpTypeOK'
      BY <1>1, <2>1, <3>1 DEF TcpTypeOK, resolveVars
    <3>3. Listed'
      BY <3>1 DEF TypeInv, Listed
    <3> QED BY <3>2, <3>3 DEF TypeInv
  <2> QED BY <2>2, <2>3, <2>4
<1>7. CASE redirect
  <2>1. /\ host' \in Hosts /\ redirects' = redirects + 1 /\ redirects < MaxRedirects
        /\ ready' = reset_socket(ready)
        /\ pending' = NoOp /\ wire' = "closed" /\ pc' = "resolve" /\ reports' = <<>>
        /\ UNCHANGED <<is_tls, connect_timeout, resolved_endpoints, index, total_count, tried_count>>
        /\ UNCHANGED <<check_timer, connected, attempted>>
        /\ UNCHANGED timeVars
    BY <1>7 DEF redirect
  <2>2. ready' \in Seq(Completion)
    BY <1>1, <2>1, ResetType
  <2>3. redirects' \in 0 .. MaxRedirects
    BY <1>1, <2>1, ConnectAssumption
  <2>4. TcpTypeOK'
    BY <1>1, <2>1, <2>2, <2>3 DEF TcpTypeOK, timeVars
  <2>5. ready = <<>> /\ pending = NoOp => ready' = <<>>
    BY <2>1 DEF reset_socket, aborted
  <2>6. Listed'
    BY <1>1, <2>1, <2>5 DEF TypeInv, Listed
  <2> QED BY <2>4, <2>6 DEF TypeInv
<1> QED BY <1>2, <1>3, <1>4, <1>5, <1>6, <1>7 DEF TcpNext

\* A step in which nothing happens keeps them.
LEMMA TypeStutter == TypeInv /\ UNCHANGED tcpVars => TypeInv'
BY DEF TypeInv, TcpTypeOK, Listed, tcpVars

\* Every variable keeps its type; an operation, or the timer, runs only for
\* an endpoint of a list that is not empty (TcpConnectState of
\* tcp_state_machine.cpp).
THEOREM TcpTypes == TcpSpec => []TcpTypeOK
<1>1. TcpInit => TypeInv
  BY TypeInit
<1>2. TypeInv /\ [TcpNext]_tcpVars => TypeInv'
  BY TcpTypeStep, TypeStutter
<1>3. TypeInv => TcpTypeOK
  BY DEF TypeInv
<1> QED BY <1>1, <1>2, <1>3, PTL DEF TcpSpec

-----------------------------------------------------------------------------
(* What the machine has under way.                                         *)

\* An attempt is never older than the connect.
Spent == current_endpoint_spent_time <= current_spent_time

\* Outside of the connect state nothing is under way and no timer runs.
Idle == pc # "connect" => pending = NoOp /\ ready = <<>> /\ ~check_timer

\* The machine has one operation at a time, or its completion.
OneOperation == Len(ready) <= 1 /\ (pending # NoOp => ready = <<>>)

\* The completion that waits says what the socket is.
OpCompleted ==
    \A i \in DOMAIN ready :
        /\ ready[i].kind = "handshake" => is_tls
        /\ ready[i].ec = "ok" => wire = IF ready[i].kind = "handshake" THEN "secured" ELSE "connected"

SocketInv ==
    /\ Idle /\ OneOperation /\ OpCompleted
    /\ pending.kind = "handshake" => is_tls
    /\ ExchangeHasSocket

\* With a connect_timeout above endpoint_timeout_ an attempt may be
\* replaced with its completion still to come.
CalmInv == connect_timeout <= EndpointTimeout => SocketInv

-----------------------------------------------------------------------------
(* What the machine has tried.                                             *)

\* The first endpoint tried.
start == IF StartIndex \in 0 .. N - 1 THEN StartIndex ELSE 0

\* Before the first resolve the machine is as it was made.
Unresolved ==
    /\ resolved_endpoints = <<>> /\ index = 0 /\ tried_count = 0
    /\ total_count = 0

\* The endpoints tried are those from the first to the current one, around
\* the list; once all are tried the last one stays.
Tried ==
    /\ total_count = N /\ tried_count \in Nat \ {0} /\ index \in start .. start + N - 1
    /\ index = IF tried_count < N THEN start + tried_count - 1 ELSE start + N - 1
    /\ attempted = {i % N : i \in start .. index}

TriedInv ==
    redirects = 0 => IF pc \in {"resolve", "ended"} THEN Unresolved ELSE Tried


\* What the handlers of the connect state leave of the time spent.
LEMMA HandlerSpent ==
    ASSUME TypeInv, NEW rest,
           \/ \E i \in Nat : i \in {index, index + 1} /\ connect_next(i, rest)
           \/ \E e \in Report : fail(e, rest)
           \/ succeed(rest) \/ async_handshake(rest) \/ ignore(rest)
    PROVE  current_endpoint_spent_time' \in {0, current_endpoint_spent_time}
BY DEF connect_next, fail, succeed, async_handshake, ignore

\* An attempt is never older than the connect.
LEMMA SpentStep ==
    ASSUME TypeInv, Spent, TcpNext
    PROVE  Spent'
<1>1. current_spent_time \in Nat /\ current_endpoint_spent_time \in Nat
  BY DEF TypeInv, TcpTypeOK
<1>2. ASSUME NEW ok \in BOOLEAN, Complete(ok) PROVE Spent'
  BY <1>2 DEF Complete, timeVars, Spent
<1>3. CASE handle_resolve
  BY <1>3 DEF handle_resolve, timeVars, Spent
<1>4. CASE handle_resolve_failed
  BY <1>4 DEF handle_resolve_failed, timeVars, Spent
<1>5. CASE redirect
  BY <1>5 DEF redirect, timeVars, Spent
<1>6. CASE handle_completion
  <2>1. UNCHANGED current_spent_time
    BY <1>6 DEF handle_completion
  <2>2. current_endpoint_spent_time' \in {0, current_endpoint_spent_time}
    <3>1. "Tls_Shakehand_Fail" \in Report
      BY DEF Report
    <3>2. \/ handle_connect(Head(ready).index, Head(ready).ec, Tail(ready))
          \/ handle_handshake(Head(ready).ec, Tail(ready))
      BY <1>6 DEF handle_completion
    <3>3. CASE handle_connect(Head(ready).index, Head(ready).ec, Tail(ready))
      BY <3>3, ConnectHandlers, HandlerSpent
    <3>4. CASE handle_handshake(Head(ready).ec, Tail(ready))
      BY <3>1, <3>4, HandshakeHandlers, HandlerSpent
    <3> QED BY <3>2, <3>3, <3>4
  <2> QED BY <1>1, <2>1, <2>2 DEF Spent
<1>7. CASE handle_period_timeout
  <2>1. current_spent_time' = current_spent_time + 1
    BY <1>7 DEF handle_period_timeout
  <2>2. \/ current_endpoint_spent_time' = current_endpoint_spent_time + 1
        \/ handle_connect(index, "timed_out", ready)
    BY <1>7 DEF handle_period_timeout
  <2>3. handle_connect(index, "timed_out", ready) =>
            current_endpoint_spent_time' \in {0, current_endpoint_spent_time}
    BY ConnectHandlers, HandlerSpent
  <2> QED BY <1>1, <2>1, <2>2, <2>3 DEF Spent
<1> QED BY <1>2, <1>3, <1>4, <1>5, <1>6, <1>7 DEF TcpNext

\* A sequence of at most one element.
LEMMA AtMostOne ==
    ASSUME NEW S, NEW s \in Seq(S), Len(s) <= 1, s # <<>>
    PROVE  DOMAIN s = {1} /\ Head(s) = s[1] /\ Head(s) \in S /\ Tail(s) = <<>>
<1>1. Len(s) = 1
  <2>1. Len(s) \in Nat
    OBVIOUS
  <2>2. Len(s) # 0
    OBVIOUS
  <2> QED BY <2>1, <2>2
<1>2. DOMAIN s = {1}
  BY <1>1
<1>3. Tail(s) = <<>>
  <2>1. Tail(s) \in Seq(S) /\ Len(Tail(s)) = 0
    BY <1>1
  <2> QED BY <2>1
<1> QED BY <1>1, <1>2, <1>3

\* Replacing a socket on which nothing is under way leaves nothing to wait for.
LEMMA ResetNothing ==
    ASSUME pending = NoOp
    PROVE  reset_socket(<<>>) = <<>>
<1>1. aborted = <<>>
  BY DEF aborted
<1>2. [i \in DOMAIN <<>> |-> [<<>>[i] EXCEPT !.old = TRUE]] = <<>>
  OBVIOUS
<1> QED BY <1>1, <1>2 DEF reset_socket

\* While no attempt is replaced before its end, a step leaves one operation.
LEMMA SocketStep ==
    ASSUME TypeInv, Spent, CalmInv, TcpNext
    PROVE  CalmInv'
<1>1. connect_timeout' = connect_timeout
  BY DEF TcpNext, Complete, handle_resolve, handle_resolve_failed, handle_completion,
         handle_period_timeout, redirect, resolveVars
<1>2. SUFFICES ASSUME connect_timeout <= EndpointTimeout PROVE SocketInv'
  BY <1>1 DEF CalmInv
<1>3. SocketInv
  BY <1>2 DEF CalmInv
<1>4. /\ pc \in {"resolve", "connect", "exchange", "ended"} /\ pending \in Op \cup {NoOp}
      /\ ready \in Seq(Completion) /\ is_tls \in BOOLEAN
  BY DEF TypeInv, TcpTypeOK
<1>5. is_tls' = is_tls
  BY DEF TcpNext, Complete, handle_resolve, handle_resolve_failed, handle_completion,
         handle_period_timeout, redirect, resolveVars
<1>6. ASSUME NEW ok \in BOOLEAN, Complete(ok) PROVE SocketInv'
  <2> DEFINE c == [kind |-> pending.kind, index |-> pending.index,
                   ec |-> IF ok THEN "ok" ELSE "failed", old |-> FALSE]
  <2>1. /\ pending # NoOp /\ ready' = Append(ready, c) /\ pending' = NoOp /\ pc' = pc
        /\ wire' = IF ~ok THEN "closed"
                   ELSE IF pending.kind = "connect" THEN "connected" ELSE "secured"
    BY <1>6 DEF Complete
  <2>2. pc = "connect" /\ ready = <<>>
    BY <1>3, <1>4, <2>1 DEF SocketInv, Idle, OneOperation
  <2>3. pending.kind \in {"connect", "handshake"}
    BY <1>4, <2>1 DEF Op
  <2>4. c.kind = pending.kind /\ c.ec = IF ok THEN "ok" ELSE "failed"
    OBVIOUS
  <2> HIDE DEF c
  <2>5. ready' = <<c>>
    BY <2>1, <2>2
  <2>6. Len(ready') = 1 /\ DOMAIN ready' = {1} /\ ready'[1] = c
    BY <2>5
  <2>7. NoOp.kind = "none"
    BY DEF NoOp
  <2>8. OpCompleted'
    BY <1>3, <1>5, <2>1, <2>3, <2>4, <2>6 DEF OpCompleted, SocketInv
  <2>9. Idle' /\ OneOperation' /\ ExchangeHasSocket'
    BY <2>1, <2>2, <2>6 DEF Idle, OneOperation, ExchangeHasSocket
  <2> QED BY <2>1, <2>7, <2>8, <2>9 DEF SocketInv
<1>7. CASE handle_resolve
  <2>1. ready = <<>>
    BY <1>3, <1>7 DEF handle_resolve, SocketInv, Idle
  <2>2. /\ ready' = <<>> /\ pc' = "connect" /\ pending' = [kind |-> "connect", index |-> index']
    BY <1>7, <2>1 DEF handle_resolve
  <2>3. OpCompleted'
    BY <2>2 DEF OpCompleted
  <2>4. pending'.kind = "connect"
    BY <2>2
  <2> QED BY <2>2, <2>3, <2>4 DEF SocketInv, Idle, OneOperation, ExchangeHasSocket
<1>8. CASE handle_resolve_failed
  <2>1. pending = NoOp /\ ready = <<>> /\ ~check_timer
    BY <1>3, <1>8 DEF handle_resolve_failed, SocketInv, Idle
  <2>2. pending' = NoOp /\ ready' = <<>> /\ ~check_timer' /\ pc' = "ended"
    BY <1>8, <2>1 DEF handle_resolve_failed
  <2>3. OpCompleted'
    BY <2>2 DEF OpCompleted
  <2>4. NoOp.kind = "none"
    BY DEF NoOp
  <2> QED BY <2>2, <2>3, <2>4 DEF SocketInv, Idle, OneOperation, ExchangeHasSocket
<1>9. CASE redirect
  <2>1. pending = NoOp /\ ready = <<>> /\ ~check_timer
    BY <1>3, <1>9 DEF redirect, SocketInv, Idle
  <2>2. reset_socket(ready) = <<>>
    BY <2>1, ResetNothing
  <2>3. pending' = NoOp /\ ready' = <<>> /\ ~check_timer' /\ pc' = "resolve"
    BY <1>9, <2>1, <2>2 DEF redirect
  <2>4. OpCompleted'
    BY <2>3 DEF OpCompleted
  <2>5. NoOp.kind = "none"
    BY DEF NoOp
  <2> QED BY <2>3, <2>4, <2>5 DEF SocketInv, Idle, OneOperation, ExchangeHasSocket
<1>10. CASE handle_completion
  <2> DEFINE c == ready[1]
  <2>1. ready # <<>>
    BY <1>10 DEF handle_completion
  <2>2. pc = "connect" /\ pending = NoOp /\ Len(ready) <= 1
    BY <1>3, <2>1 DEF SocketInv, Idle, OneOperation
  <2>3. DOMAIN ready = {1} /\ Head(ready) = c /\ c \in Completion /\ Tail(ready) = <<>>
    BY <1>4, <2>1, <2>2, AtMostOne
  <2>4. /\ c.kind = "handshake" => is_tls
        /\ c.ec = "ok" => wire = IF c.kind = "handshake" THEN "secured" ELSE "connected"
    BY <1>3, <2>3 DEF SocketInv, OpCompleted
  <2>5. IF c.kind = "connect" THEN handle_connect(c.index, c.ec, <<>>)
                              ELSE handle_handshake(c.ec, <<>>)
    BY <1>10, <2>3 DEF handle_completion
  <2>6. c.kind \in {"connect", "handshake"}
    BY <2>3 DEF Completion
  <2>7. NoOp.kind = "none"
    BY DEF NoOp
  <2> HIDE DEF c
  <2>8. CASE \E i : connect_next(i, <<>>)
    <3>1. PICK i : connect_next(i, <<>>)
      BY <2>8
    <3>2. reset_socket(<<>>) = <<>>
      BY <2>2, ResetNothing
    <3>3. ready' = <<>> /\ pending' = [kind |-> "connect", index |-> i] /\ pc' = pc
      BY <3>1, <3>2 DEF connect_next
    <3>4. OpCompleted'
      BY <3>3 DEF OpCompleted
    <3>5. pending'.kind = "connect"
      BY <3>3
    <3> QED BY <2>2, <3>3, <3>4, <3>5 DEF SocketInv, Idle, OneOperation, ExchangeHasSocket
  <2>9. CASE ignore(<<>>) \/ \E e : fail(e, <<>>)
    <3>1. ready' = <<>> /\ pending' = NoOp /\ pc' = "connect"
      BY <2>2, <2>9 DEF ignore, fail
    <3>2. OpCompleted'
      BY <3>1 DEF OpCompleted
    <3> QED BY <2>7, <3>1, <3>2 DEF SocketInv, Idle, OneOperation, ExchangeHasSocket
  <2>10. CASE is_tls /\ async_handshake(<<>>)
    <3>1. ready' = <<>> /\ pc' = "connect" /\ is_tls'
      BY <1>5, <2>2, <2>10 DEF async_handshake
    <3>2. OpCompleted'
      BY <3>1 DEF OpCompleted
    <3> QED BY <3>1, <3>2 DEF SocketInv, Idle, OneOperation, ExchangeHasSocket
  <2>11. CASE succeed(<<>>) /\ wire = IF is_tls THEN "secured" ELSE "connected"
    <3>1. /\ ready' = <<>> /\ pc' = "exchange" /\ pending' = NoOp /\ ~check_timer' /\ connected'
          /\ wire' = wire
      BY <2>2, <2>11 DEF succeed
    <3>2. OpCompleted'
      BY <3>1 DEF OpCompleted
    <3>3. ExchangeHasSocket'
      BY <1>5, <2>11, <3>1 DEF ExchangeHasSocket
    <3> QED BY <2>7, <3>1, <3>2, <3>3 DEF SocketInv, Idle, OneOperation
  <2>12. CASE c.kind = "connect"
    BY <2>4, <2>5, <2>8, <2>9, <2>10, <2>11, <2>12 DEF handle_connect
  <2>13. CASE c.kind = "handshake"
    BY <2>4, <2>5, <2>9, <2>11, <2>13 DEF handle_handshake
  <2> QED BY <2>6, <2>12, <2>13
<1>11. CASE handle_period_timeout
  <2>1. pc = "connect"
    BY <1>3, <1>4, <1>11 DEF handle_period_timeout, SocketInv, Idle
  <2>2. ~(/\ ~(current_spent_time' >= connect_timeout)
          /\ current_endpoint_spent_time + 1 >= EndpointTimeout)
    <3>1. /\ current_spent_time' = current_spent_time + 1 /\ EndpointTimeout \in Nat
          /\ connect_timeout \in Nat
          /\ current_spent_time \in Nat /\ current_endpoint_spent_time \in Nat
      BY <1>11, ConnectAssumption DEF handle_period_timeout, TypeInv, TcpTypeOK
    <3> QED BY <1>2, <3>1 DEF Spent
  <2>3. UNCHANGED <<pc, pending, wire, ready, connected>>
    BY <1>11, <2>2 DEF handle_period_timeout
  <2>4. OneOperation' /\ OpCompleted' /\ (pending'.kind = "handshake" => is_tls')
    BY <1>3, <1>5, <2>3 DEF SocketInv, OneOperation, OpCompleted
  <2> QED BY <2>1, <2>3, <2>4 DEF SocketInv, Idle, ExchangeHasSocket
<1> QED BY <1>6, <1>7, <1>8, <1>9, <1>10, <1>11 DEF TcpNext

\* Nothing in which nothing happens disturbs the socket.
LEMMA SocketStutter == Spent /\ CalmInv /\ UNCHANGED tcpVars => Spent' /\ CalmInv'
<1> SUFFICES ASSUME Spent, CalmInv, UNCHANGED tcpVars PROVE Spent' /\ CalmInv'
  OBVIOUS
<1> QED BY DEF Spent, CalmInv, SocketInv, Idle, OneOperation, OpCompleted, ExchangeHasSocket, tcpVars

\* The machine begins with nothing under way.
LEMMA SocketInit == TcpInit => Spent /\ CalmInv
<1> SUFFICES ASSUME TcpInit PROVE Spent /\ CalmInv
  OBVIOUS
<1>1. Spent
  BY DEF TcpInit, Spent
<1>2. pending = NoOp /\ ready = <<>> /\ ~check_timer /\ pc = "resolve" /\ NoOp.kind = "none"
  BY DEF TcpInit, NoOp
<1>3. OpCompleted
  BY <1>2 DEF OpCompleted
<1>4. SocketInv
  BY <1>2, <1>3 DEF SocketInv, Idle, OneOperation, ExchangeHasSocket
<1> QED BY <1>1, <1>4 DEF CalmInv

\* SocketReady: whatever the answers and the timers do, what follows the
\* connect finds the machine's socket connected, and secured when the
\* connection is a TLS one, as long as connect_timeout does not exceed
\* endpoint_timeout_.
THEOREM SocketReady == TcpSpec => []ExchangeHasSocket
<1>1. TcpInit => TypeInv /\ Spent /\ CalmInv
  BY TypeInit, SocketInit
<1>2. TypeInv /\ Spent /\ CalmInv /\ [TcpNext]_tcpVars => (TypeInv /\ Spent /\ CalmInv)'
  BY TcpTypeStep, TypeStutter, SpentStep, SocketStep, SocketStutter
<1>3. CalmInv => ExchangeHasSocket
  BY DEF CalmInv, SocketInv, ExchangeHasSocket
<1> QED BY <1>1, <1>2, <1>3, PTL DEF TcpSpec

\* SuccessStays: no step of the machine, once it has succeeded, reports
\* anything more or starts another connect, short of a redirection.
THEOREM SuccessStays == TcpSpec => SuccessIsFinal
<1>1. TcpInit => TypeInv /\ Spent /\ CalmInv
  BY TypeInit, SocketInit
<1>2. TypeInv /\ Spent /\ CalmInv /\ [TcpNext]_tcpVars => (TypeInv /\ Spent /\ CalmInv)'
  BY TcpTypeStep, TypeStutter, SpentStep, SocketStep, SocketStutter
<1>3. TypeInv /\ Spent /\ CalmInv /\ [TcpNext]_tcpVars =>
        [pc = "exchange" /\ connect_timeout <= EndpointTimeout =>
            reports' \in {reports, <<>>} /\ (pc' = "exchange" => pending' = pending)]_tcpVars
  <2> SUFFICES ASSUME CalmInv, TcpNext, pc = "exchange", connect_timeout <= EndpointTimeout
               PROVE  reports' \in {reports, <<>>} /\ (pc' = "exchange" => pending' = pending)
    OBVIOUS
  <2>1. pending = NoOp /\ ready = <<>> /\ ~check_timer
    BY DEF CalmInv, SocketInv, Idle
  <2>2. redirect
    BY <2>1 DEF TcpNext, Complete, handle_resolve, handle_resolve_failed, handle_completion,
                handle_period_timeout
  <2> QED BY <2>2 DEF redirect
<1> QED BY <1>1, <1>2, <1>3, PTL DEF TcpSpec, SuccessIsFinal

-----------------------------------------------------------------------------
(* No endpoint is given up untried.                                        *)

\* The first endpoint is one of the list, and the next one along the list.
LEMMA StartType == start \in 0 .. N - 1 /\ N \in Nat /\ N > 0
BY ConnectAssumption DEF start

\* Around a list of N endpoints N steps meet each of them.
LEMMA AroundTheList ==
    {i % N : i \in start .. start + N - 1} = 0 .. N - 1
<1>1. start \in 0 .. N - 1 /\ N \in Nat /\ N > 0
  BY StartType
<1>2. ASSUME NEW i \in start .. start + N - 1 PROVE i % N \in 0 .. N - 1
  BY <1>1, PlaceInList
<1>3. ASSUME NEW k \in 0 .. N - 1 PROVE \E i \in start .. start + N - 1 : k = i % N
  <2>1. CASE start <= k
    <3>1. k \in start .. start + N - 1 /\ k % N = k
      BY <1>1, <2>1, PlaceInList
    <3> QED BY <3>1
  <2>2. CASE k < start
    <3>1. k + N \in start .. start + N - 1
      BY <1>1, <2>2
    <3>2. (k + N) % N = k
      <4>1. k + N \in Nat /\ N <= k + N /\ k + N < N + N /\ (k + N) - N = k
        BY <1>1
      <4>2. (k + N) % N = (k + N) - N
        BY <1>1, <4>1, PlaceInList
      <4> QED BY <4>1, <4>2
    <3> QED BY <3>1, <3>2
  <2> QED BY <1>1, <2>1, <2>2
<1> QED BY <1>2, <1>3

\* One more place along the list is one more endpoint tried.
LEMMA OneMore ==
    ASSUME NEW n \in Nat, NEW s \in Nat, NEW k \in Nat, s <= k + 1
    PROVE  {i % n : i \in s .. k + 1} = {i % n : i \in s .. k} \cup {(k + 1) % n}
<1>1. s .. k + 1 = (s .. k) \cup {k + 1}
  OBVIOUS
<1> QED BY <1>1

\* What a handler of the connect state does to the endpoints tried: nothing,
\* or the next one while one is left, or the last one again.
LEMMA HandlerTries ==
    ASSUME TypeInv, Tried, NEW rest, NEW i, NEW e, handle_connect(i, e, rest)
    PROVE  Tried'
<1>1. /\ total_count = N /\ tried_count \in Nat \ {0} /\ index \in start .. start + N - 1
      /\ index = IF tried_count < N THEN start + tried_count - 1 ELSE start + N - 1
      /\ attempted = {k % N : k \in start .. index}
  BY DEF Tried
<1>2. start \in 0 .. N - 1 /\ N \in Nat /\ N > 0
  BY StartType
<1>3. CASE UNCHANGED <<index, total_count, tried_count, attempted>>
  BY <1>1, <1>3 DEF Tried
<1>4. CASE tried_count < total_count /\ connect_next(index + 1, rest)
  <2>1. /\ index' = index + 1 /\ tried_count' = tried_count + 1 /\ total_count' = total_count
        /\ attempted' = attempted \cup {(index + 1) % N}
    BY <1>1, <1>4 DEF connect_next, target
  <2>2. /\ tried_count' \in Nat \ {0} /\ index' \in start .. start + N - 1
        /\ index' = IF tried_count' < N THEN start + tried_count' - 1 ELSE start + N - 1
    BY <1>1, <1>2, <1>4, <2>1
  <2>3. attempted' = {k % N : k \in start .. index'}
    BY <1>1, <1>2, <2>1, OneMore
  <2> QED BY <1>1, <2>1, <2>2, <2>3 DEF Tried
<1>5. CASE tried_count >= total_count /\ connect_next(index, rest)
  <2>1. /\ index' = index /\ tried_count' = tried_count + 1 /\ total_count' = total_count
        /\ attempted' = attempted \cup {index % N}
    BY <1>1, <1>5 DEF connect_next, target
  <2>2. /\ tried_count' \in Nat \ {0} /\ index' \in start .. start + N - 1
        /\ index' = IF tried_count' < N THEN start + tried_count' - 1 ELSE start + N - 1
    BY <1>1, <1>2, <1>5, <2>1
  <2>3. index \in start .. index
    BY <1>1, <1>2
  <2>4. index % N \in {k % N : k \in start .. index}
    BY <2>3
  <2>5. attempted' = {k % N : k \in start .. index'}
    BY <1>1, <2>1, <2>4
  <2> QED BY <1>1, <2>1, <2>2, <2>5 DEF Tried
<1> QED BY <1>3, <1>4, <1>5 DEF handle_connect, ignore, fail, async_handshake, succeed

\* Every step keeps what is known of the endpoints tried.
LEMMA TriedStep ==
    ASSUME TypeInv, TriedInv, TcpNext
    PROVE  TriedInv'
<1>1. /\ pc \in {"resolve", "connect", "exchange", "ended"} /\ redirects \in Nat
  BY ConnectAssumption DEF TypeInv, TcpTypeOK
<1>2. CASE redirect
  <2>1. redirects' # 0
    BY <1>1, <1>2 DEF redirect
  <2> QED BY <2>1 DEF TriedInv
<1>3. CASE handle_resolve_failed
  BY <1>3 DEF handle_resolve_failed, resolveVars, TriedInv, Unresolved
<1>4. CASE handle_resolve
  <2> SUFFICES ASSUME redirects' = 0 PROVE TriedInv'
    BY DEF TriedInv
  <2>1. Unresolved /\ pc' = "connect"
    BY <1>4 DEF handle_resolve, TriedInv
  <2>2. resolved_endpoints' = <<>> \o [i \in 1 .. N |-> host] /\ total_count' = Len(resolved_endpoints')
    BY <1>4, <2>1 DEF handle_resolve, Unresolved
  <2>3. total_count' = N
    <3>1. host \in Hosts
      BY DEF TypeInv, TcpTypeOK
    <3>2. [i \in 1 .. N |-> host] \in Seq(Hosts) /\ Len([i \in 1 .. N |-> host]) = N
      BY <3>1, StartType
    <3>3. <<>> \in Seq(Hosts) /\ Len(<<>>) = 0
      OBVIOUS
    <3> DEFINE t == [i \in 1 .. N |-> host]
    <3>4. t \in Seq(Hosts) /\ Len(t) = N /\ total_count' = Len(<<>> \o t)
      BY <2>2, <3>2
    <3> HIDE DEF t
    <3>5. Len(<<>> \o t) = Len(<<>>) + Len(t)
      BY <3>3, <3>4, AppendedList
    <3> QED BY <3>3, <3>4, <3>5, StartType
  <2>4. /\ index' = IF StartIndex \in 0 .. total_count' - 1 THEN StartIndex ELSE index
        /\ tried_count' = tried_count + 1 /\ attempted' = {index' % total_count'}
    BY <1>4 DEF handle_resolve
  <2>5. index' = start /\ tried_count' = 1
    BY <2>1, <2>3, <2>4 DEF Unresolved, start
  <2>6. start .. start = {start}
    BY StartType
  <2>7. attempted' = {i % N : i \in start .. index'}
    BY <2>3, <2>4, <2>5, <2>6
  <2>8. Tried'
    BY <2>3, <2>5, <2>7, StartType DEF Tried
  <2> QED BY <2>1, <2>8 DEF TriedInv
<1>5. CASE \/ \E ok \in BOOLEAN : Complete(ok)
           \/ handle_completion \/ handle_period_timeout
  <2> SUFFICES ASSUME redirects' = 0 PROVE TriedInv'
    BY DEF TriedInv
  <2>1. redirects = 0 /\ total_count > 0
    BY <1>5 DEF Complete, handle_completion, handle_period_timeout, resolveVars, TypeInv, Listed
  <2>2. pc \notin {"resolve", "ended"} /\ Tried
    BY <2>1 DEF TriedInv, Unresolved
  <2>3. pc' \in {pc, "exchange"}
    BY <1>5 DEF Complete, handle_completion, handle_period_timeout, handle_connect, handle_handshake,
                connect_next, fail, succeed, ignore, async_handshake
  <2>4. CASE UNCHANGED <<index, total_count, tried_count, attempted>>
    BY <2>1, <2>2, <2>3, <2>4 DEF TriedInv, Tried
  <2>5. CASE \E i, e, rest : handle_connect(i, e, rest)
    BY <2>2, <2>3, <2>5, HandlerTries DEF TriedInv
  <2>6. \/ UNCHANGED <<index, total_count, tried_count, attempted>>
        \/ \E i, e, rest : handle_connect(i, e, rest)
    BY <1>5 DEF Complete, handle_completion, handle_period_timeout, handle_handshake, fail, succeed
  <2> QED BY <2>4, <2>5, <2>6
<1> QED BY <1>2, <1>3, <1>4, <1>5 DEF TcpNext

\* The machine begins with nothing tried.
LEMMA TriedInit == TcpInit => TriedInv
BY DEF TcpInit, TriedInv, Unresolved

\* A step that gives up with Connect_Fail is one of the connect state, with
\* no endpoint left.
LEMMA GivingUp ==
    ASSUME TypeInv, TcpNext, Reports("Connect_Fail")
    PROVE  tried_count >= total_count /\ total_count > 0
<1>1. /\ reports \in Seq(Report)
      /\ reports' # <<>> /\ reports' # reports
  <2>1. reports \in Seq(Report) /\ Len(reports) \in Nat
    BY DEF TypeInv, TcpTypeOK
  <2> QED BY <2>1 DEF Reports
<1>2. ASSUME NEW e, e # "Connect_Fail" PROVE reports' # Append(reports, e)
  <2> SUFFICES ASSUME reports' = Append(reports, e) PROVE FALSE
    OBVIOUS
  <2> DEFINE r == reports
  <2>1. Len(r) \in Nat /\ Append(r, e)[Len(r) + 1] = e
    BY <1>1
  <2>2. reports'[Len(reports) + 1] = "Connect_Fail"
    BY DEF Reports
  <2> QED BY <1>2, <2>1, <2>2
<1>3. ~\E rest : succeed(rest)
  BY <1>2 DEF succeed
<1>4. handle_completion \/ handle_period_timeout
  <2>1. ~handle_resolve_failed
    <3>1. reports' # <<"Resolve_Fail">>
      <4> SUFFICES ASSUME reports' = <<"Resolve_Fail">> PROVE FALSE
        OBVIOUS
      <4>1. Len(reports') = 1 /\ reports'[1] = "Resolve_Fail"
        OBVIOUS
      <4> QED BY <4>1 DEF Reports
    <3> QED BY <3>1 DEF handle_resolve_failed
  <2> QED BY <1>1, <2>1 DEF TcpNext, Complete, handle_resolve, redirect
<1>5. total_count > 0
  BY <1>4 DEF handle_completion, handle_period_timeout, TypeInv, Listed
<1>6. ASSUME NEW i, NEW e, NEW rest, handle_connect(i, e, rest) PROVE tried_count >= total_count
  BY <1>1, <1>3, <1>6 DEF handle_connect, ignore, connect_next, async_handshake
<1>7. ~\E e, rest : handle_handshake(e, rest)
  BY <1>2, <1>3 DEF handle_handshake, fail
<1>8. \E i, e, rest : handle_connect(i, e, rest)
  BY <1>1, <1>2, <1>4, <1>7 DEF handle_completion, handle_period_timeout
<1> QED BY <1>5, <1>6, <1>8

\* EndpointsTried: the first connect gives up with Connect_Fail only when
\* each endpoint of the list has been tried, for any number of endpoints,
\* any start index and any order of timeouts and late completions.
THEOREM EndpointsTried == TcpSpec => AllEndpointsTried
<1>1. TcpInit => TypeInv /\ TriedInv
  BY TypeInit, TriedInit
<1>2. TypeInv /\ TriedInv /\ [TcpNext]_tcpVars => (TypeInv /\ TriedInv)'
  <2>1. TriedInv /\ UNCHANGED tcpVars => TriedInv'
    BY DEF TriedInv, Unresolved, Tried, tcpVars
  <2> QED BY <2>1, TcpTypeStep, TypeStutter, TriedStep
<1>3. TypeInv /\ TriedInv /\ [TcpNext]_tcpVars =>
        [redirects = 0 /\ Reports("Connect_Fail") => attempted = 0 .. total_count - 1]_tcpVars
  <2> SUFFICES ASSUME TypeInv, TriedInv, TcpNext, redirects = 0, Reports("Connect_Fail")
               PROVE  attempted = 0 .. total_count - 1
    OBVIOUS
  <2>1. tried_count >= total_count /\ total_count > 0
    BY GivingUp
  <2>2. Tried
    BY <2>1 DEF TriedInv, Unresolved
  <2>3. total_count = N /\ index = start + N - 1 /\ attempted = {i % N : i \in start .. index}
    BY <2>1, <2>2, StartType DEF Tried
  <2> QED BY <2>3, AroundTheList
<1> QED BY <1>1, <1>2, <1>3, PTL DEF TcpSpec, AllEndpointsTried

-----------------------------------------------------------------------------
(* What a step does to the queue.                                          *)

\* The oldest handler is taken.
Taken == queue # <<>> /\ queue' = Tail(queue)

IsWrite(h, c) == h.c = c /\ h.kind \in {"write", "login_write"}

\* A write of client c has ended and its handler waits.
Completed(c) == \E i \in DOMAIN queue : IsWrite(queue[i], c)

\* The login state of client c waits, with this id in its packet.
LoginPosted(c, sid) ==
    \E i \in DOMAIN queue : queue[i].c = c /\ queue[i].kind = "execute" /\ queue[i].sid = sid

\* The handlers of the client's buffer and of its login are those of before.
SameHandlers(c) ==
    /\ Completed(c)' <=> Completed(c)
    /\ Broken(c)' <=> Broken(c)
    /\ \A s \in Sids : LoginPosted(c, s) <=> LoginPosted(c, s)'

\* What a posted handler finds at its client.  Handlers are posted by state,
\* and the phases of a client only go forward.
Fits(h) ==
    /\ h.c \in 1 .. client
    /\ h.kind = "connect" => obj[h.c].phase = "new"
    /\ h.kind \in {"execute", "login_write"} => obj[h.c].phase = "login"
    /\ h.kind \in {"write", "log"} => obj[h.c].phase = "finished"
    /\ h.kind = "set_sid" /\ ~h.flag => h.sid = NoSid

\* A client has at most one handler of these kinds.
Single(kinds) ==
    \A i, j \in DOMAIN queue :
        queue[i].c = queue[j].c /\ queue[i].kind \in kinds /\ queue[j].kind \in kinds => i = j

QueueInv ==
    /\ \A i \in DOMAIN queue : Fits(queue[i])
    /\ Single({"connect"}) /\ Single({"execute"}) /\ Single({"write", "login_write"})

\* The handlers left after the oldest one has been taken.
LEMMA TakenEffect ==
    ASSUME StatusdTypeOK, QueueInv, Taken
    PROVE  /\ \A i \in DOMAIN queue' : i + 1 \in DOMAIN queue /\ queue'[i] = queue[i + 1]
           /\ Head(queue) = queue[1] /\ Head(queue) \in Handlers /\ Fits(Head(queue))
           /\ \A i \in DOMAIN queue' : queue'[i] \in Handlers /\ Fits(queue'[i])
           /\ Single({"connect"})' /\ Single({"execute"})' /\ Single({"write", "login_write"})'
<1>1. queue \in Seq(Handlers) /\ queue # <<>> /\ queue' = Tail(queue)
  BY DEF StatusdTypeOK, Taken
<1>2. /\ \A i \in DOMAIN queue' : i + 1 \in DOMAIN queue /\ queue'[i] = queue[i + 1]
      /\ Head(queue) = queue[1] /\ 1 \in DOMAIN queue
      /\ \A i \in DOMAIN queue' : i \in Nat
  BY <1>1
<1>3. \A i \in DOMAIN queue : queue[i] \in Handlers
  BY <1>1
<1>4. \A i \in DOMAIN queue' : queue'[i] \in Handlers /\ Fits(queue'[i])
  BY <1>2, <1>3 DEF QueueInv
<1>5. Head(queue) \in Handlers /\ Fits(Head(queue))
  BY <1>2, <1>3 DEF QueueInv
<1>6. ASSUME NEW k, Single(k) PROVE Single(k)'
  <2> SUFFICES ASSUME NEW i \in DOMAIN queue', NEW j \in DOMAIN queue', queue'[i].c = queue'[j].c,
                      queue'[i].kind \in k, queue'[j].kind \in k
               PROVE  i = j
    BY DEF Single
  <2>1. i + 1 = j + 1
    BY <1>2, <1>6 DEF Single
  <2> QED BY <1>2, <2>1
<1> QED BY <1>2, <1>4, <1>5, <1>6 DEF QueueInv

\* Taking a handler that is none of the buffer's and not the login leaves
\* these alone.
LEMMA TakenOther ==
    ASSUME StatusdTypeOK, QueueInv, Taken, NEW c \in Clients,
           Head(queue).c = c => Head(queue).kind \notin {"write", "login_write", "execute"}
    PROVE  SameHandlers(c)
<1>1. /\ \A i \in DOMAIN queue' : i + 1 \in DOMAIN queue /\ queue'[i] = queue[i + 1]
      /\ Head(queue) = queue[1]
  BY TakenEffect
<1>2. \A i \in DOMAIN queue : i = 1 \/ (i - 1 \in DOMAIN queue' /\ queue'[i - 1] = queue[i])
  <2>1. queue \in Seq(Handlers) /\ queue # <<>> /\ queue' = Tail(queue)
    BY DEF StatusdTypeOK, Taken
  <2> QED BY <2>1
<1>3. Completed(c)' <=> Completed(c)
  BY <1>1, <1>2 DEF Completed, IsWrite
<1>4. Broken(c)' <=> Broken(c)
  BY <1>1, <1>2 DEF Broken
<1>5. ASSUME NEW s \in Sids PROVE LoginPosted(c, s) <=> LoginPosted(c, s)'
  BY <1>1, <1>2 DEF LoginPosted
<1> QED BY <1>3, <1>4, <1>5 DEF SameHandlers

\* The completion of a client's write is taken: it was the only one.
LEMMA TakenWrite ==
    ASSUME StatusdTypeOK, QueueInv, Taken, NEW c \in Clients, IsWrite(Head(queue), c)
    PROVE  /\ Completed(c) /\ ~Completed(c)' /\ ~Broken(c)'
           /\ Broken(c) <=> ~Head(queue).flag
           /\ \A s \in Sids : LoginPosted(c, s) <=> LoginPosted(c, s)'
<1>1. /\ \A i \in DOMAIN queue' : i + 1 \in DOMAIN queue /\ queue'[i] = queue[i + 1] /\ i + 1 # 1
      /\ Head(queue) = queue[1] /\ 1 \in DOMAIN queue
      /\ \A i \in DOMAIN queue : i = 1 \/ (i - 1 \in DOMAIN queue' /\ queue'[i - 1] = queue[i])
  <2>1. queue \in Seq(Handlers) /\ queue # <<>> /\ queue' = Tail(queue)
    BY DEF StatusdTypeOK, Taken
  <2> QED BY <2>1
<1>2. \A i \in DOMAIN queue : IsWrite(queue[i], c) => i = 1
  BY <1>1 DEF QueueInv, Single, IsWrite
<1>3. \A i \in DOMAIN queue' : ~IsWrite(queue'[i], c)
  BY <1>1, <1>2
<1>4. Completed(c) /\ ~Completed(c)' /\ ~Broken(c)'
  BY <1>1, <1>3 DEF Completed, Broken, IsWrite
<1>5. Broken(c) <=> ~Head(queue).flag
  BY <1>1, <1>2 DEF Broken, IsWrite
<1>6. ASSUME NEW s \in Sids PROVE LoginPosted(c, s) <=> LoginPosted(c, s)'
  BY <1>1 DEF LoginPosted, IsWrite
<1> QED BY <1>4, <1>5, <1>6

\* The login of a client is taken: it was the only one.
LEMMA TakenLogin ==
    ASSUME StatusdTypeOK, QueueInv, Taken, NEW c \in Clients,
           Head(queue).c = c, Head(queue).kind = "execute"
    PROVE  /\ Completed(c)' <=> Completed(c)
           /\ Broken(c)' <=> Broken(c)
           /\ \A s \in Sids : ~LoginPosted(c, s)' /\ (LoginPosted(c, s) => s = Head(queue).sid)
<1>1. /\ \A i \in DOMAIN queue' : i + 1 \in DOMAIN queue /\ queue'[i] = queue[i + 1] /\ i + 1 # 1
      /\ Head(queue) = queue[1] /\ 1 \in DOMAIN queue
      /\ \A i \in DOMAIN queue : i = 1 \/ (i - 1 \in DOMAIN queue' /\ queue'[i - 1] = queue[i])
  <2>1. queue \in Seq(Handlers) /\ queue # <<>> /\ queue' = Tail(queue)
    BY DEF StatusdTypeOK, Taken
  <2> QED BY <2>1
<1>2. Completed(c)' <=> Completed(c)
  BY <1>1 DEF Completed, IsWrite
<1>3. Broken(c)' <=> Broken(c)
  BY <1>1 DEF Broken
<1>4. \A s \in Sids : ~LoginPosted(c, s)' /\ (LoginPosted(c, s) => s = Head(queue).sid)
  BY <1>1 DEF QueueInv, Single, LoginPosted
<1> QED BY <1>2, <1>3, <1>4

\* The handlers after one has been posted.
LEMMA PostEffect ==
    ASSUME StatusdTypeOK, NEW h \in Handlers, queue' = Append(queue, h)
    PROVE  /\ \A i \in DOMAIN queue' : queue'[i] = h \/ (i \in DOMAIN queue /\ queue'[i] = queue[i])
           /\ \A c \in Clients :
                 /\ Completed(c)' <=> Completed(c) \/ IsWrite(h, c)
                 /\ Broken(c)' <=> Broken(c) \/ (IsWrite(h, c) /\ ~h.flag)
                 /\ \A s \in Sids : LoginPosted(c, s)' <=>
                       LoginPosted(c, s) \/ (h.c = c /\ h.kind = "execute" /\ h.sid = s)
           /\ \A k : Single(k) /\ (\A i \in DOMAIN queue : ~(queue[i].c = h.c /\ queue[i].kind \in k))
                     => Single(k)'
           /\ \A k : Single(k) /\ h.kind \notin k => Single(k)'
<1> DEFINE n == Len(queue) + 1
<1>1. queue \in Seq(Handlers) /\ queue' = Append(queue, h)
  BY DEF StatusdTypeOK
<1>2. PICK m \in Nat : m = Len(queue) + 1
  BY <1>1
<1>3. /\ DOMAIN queue' = 1 .. m /\ DOMAIN queue = 1 .. m - 1 /\ queue'[m] = h
      /\ \A i \in 1 .. m - 1 : queue'[i] = queue[i]
  BY <1>1, <1>2
<1>4. ASSUME NEW c \in Clients
      PROVE  /\ Completed(c)' <=> Completed(c) \/ IsWrite(h, c)
             /\ Broken(c)' <=> Broken(c) \/ (IsWrite(h, c) /\ ~h.flag)
             /\ \A s \in Sids : LoginPosted(c, s)' <=>
                   LoginPosted(c, s) \/ (h.c = c /\ h.kind = "execute" /\ h.sid = s)
  <2>1. Completed(c)' <=> Completed(c) \/ IsWrite(h, c)
    BY <1>2, <1>3 DEF Completed
  <2>2. Broken(c)' <=> Broken(c) \/ (IsWrite(h, c) /\ ~h.flag)
    BY <1>2, <1>3 DEF Broken, IsWrite
  <2>3. ASSUME NEW s \in Sids
        PROVE  LoginPosted(c, s)' <=> LoginPosted(c, s) \/ (h.c = c /\ h.kind = "execute" /\ h.sid = s)
    BY <1>2, <1>3 DEF LoginPosted
  <2> QED BY <2>1, <2>2, <2>3
<1>5. ASSUME NEW k, Single(k), \A i \in DOMAIN queue : ~(queue[i].c = h.c /\ queue[i].kind \in k)
      PROVE  Single(k)'
  BY <1>2, <1>3, <1>5 DEF Single
<1>6. ASSUME NEW k, Single(k), h.kind \notin k PROVE Single(k)'
  BY <1>2, <1>3, <1>6 DEF Single
<1> QED BY <1>2, <1>3, <1>4, <1>5, <1>6
-----------------------------------------------------------------------------
(* The send buffer.                                                        *)

\* No packet is the absent one.
LEMMA PacketReal == \A p \in Packet : p # NoPkt
BY DEF Packet, NoPkt

\* async_write changes the two buffers of its client, its flight and what it
\* has submitted, and leaves something current.
LEMMA AsyncWrite ==
    ASSUME StatusdTypeOK, NEW c \in Clients, NEW o \in Object, NEW pkt \in Packet,
           async_write(c, o, pkt)
    PROVE  /\ obj' \in [Clients -> Object] /\ flight' \in [Clients -> Seq(Packet)]
           /\ submitted' \in [Clients -> Seq(Packet)] /\ received' = received
           /\ \A d \in Clients \ {c} : /\ obj'[d] = obj[d] /\ flight'[d] = flight[d]
                                       /\ submitted'[d] = submitted[d]
           /\ submitted'[c] = Append(submitted[c], pkt)
           /\ \A f \in {"phase", "sock", "connected", "logined", "sid", "sync_sid_pending",
                        "heartbeat_timer"} : obj'[c][f] = o[f]
           /\ o.cwiobuff = NoPkt => /\ obj'[c].cwiobuff = pkt /\ obj'[c].qwiobuff = o.qwiobuff
                                    /\ flight'[c] = Append(flight[c], pkt)
           /\ o.cwiobuff # NoPkt => /\ obj'[c].cwiobuff = o.cwiobuff
                                    /\ obj'[c].qwiobuff = Append(o.qwiobuff, pkt)
                                    /\ flight'[c] = flight[c]
           /\ obj'[c].cwiobuff # NoPkt
<1>1. /\ submitted' = [submitted EXCEPT ![c] = Append(@, pkt)] /\ received' = received
      /\ submitted \in [Clients -> Seq(Packet)] /\ flight \in [Clients -> Seq(Packet)]
      /\ obj \in [Clients -> Object]
  BY DEF async_write, StatusdTypeOK
<1>2. Append(submitted[c], pkt) \in Seq(Packet) /\ Append(flight[c], pkt) \in Seq(Packet)
  BY <1>1
<1>3. CASE o.cwiobuff = NoPkt
  <2>1. PICK n : n = [o EXCEPT !.cwiobuff = pkt]
    OBVIOUS
  <2>2. /\ n \in Object /\ n.cwiobuff = pkt /\ n.qwiobuff = o.qwiobuff
        /\ \A f \in {"phase", "sock", "connected", "logined", "sid", "sync_sid_pending",
                     "heartbeat_timer"} : n[f] = o[f]
    BY <2>1 DEF Object
  <2>3. obj' = [obj EXCEPT ![c] = n] /\ flight' = [flight EXCEPT ![c] = Append(@, pkt)]
    BY <1>3, <2>1 DEF async_write
  <2> QED BY <1>1, <1>2, <1>3, <2>2, <2>3, PacketReal
<1>4. CASE o.cwiobuff # NoPkt
  <2>1. PICK n : n = [o EXCEPT !.qwiobuff = Append(@, pkt)]
    OBVIOUS
  <2>2. Append(o.qwiobuff, pkt) \in Seq(Packet)
    BY DEF Object
  <2>3. /\ n \in Object /\ n.cwiobuff = o.cwiobuff /\ n.qwiobuff = Append(o.qwiobuff, pkt)
        /\ \A f \in {"phase", "sock", "connected", "logined", "sid", "sync_sid_pending",
                     "heartbeat_timer"} : n[f] = o[f]
    BY <2>1, <2>2 DEF Object
  <2>4. obj' = [obj EXCEPT ![c] = n] /\ flight' = flight
    BY <1>4, <2>1 DEF async_write
  <2> QED BY <1>1, <1>2, <1>4, <2>3, <2>4
<1> QED BY <1>3, <1>4

\* send_more makes the oldest waiting packet the current one and sends it.
LEMMA SendMore ==
    ASSUME StatusdTypeOK, NEW c \in Clients, send_more(c)
    PROVE  /\ obj' \in [Clients -> Object] /\ flight' \in [Clients -> Seq(Packet)]
           /\ submitted' = submitted /\ received' = received
           /\ \A d \in Clients \ {c} : obj'[d] = obj[d] /\ flight'[d] = flight[d]
           /\ \A f \in {"phase", "sock", "connected", "logined", "sid", "sync_sid_pending",
                        "heartbeat_timer"} : obj'[c][f] = obj[c][f]
           /\ obj[c].qwiobuff # <<>> /\ Head(obj[c].qwiobuff) \in Packet
           /\ obj'[c].cwiobuff = Head(obj[c].qwiobuff) /\ obj'[c].qwiobuff = Tail(obj[c].qwiobuff)
           /\ flight'[c] = Append(flight[c], Head(obj[c].qwiobuff))
           /\ obj'[c].cwiobuff # NoPkt
<1>1. /\ submitted' = submitted /\ received' = received
      /\ flight \in [Clients -> Seq(Packet)] /\ obj \in [Clients -> Object]
      /\ obj[c] \in Object /\ obj[c].qwiobuff \in Seq(Packet) /\ obj[c].qwiobuff # <<>>
  BY DEF send_more, StatusdTypeOK, Object
<1>2. PICK p : p = Head(obj[c].qwiobuff)
  OBVIOUS
<1>3. p \in Packet /\ Tail(obj[c].qwiobuff) \in Seq(Packet) /\ Append(flight[c], p) \in Seq(Packet)
  <2>1. PICK q : q = obj[c].qwiobuff
    OBVIOUS
  <2>2. Head(q) \in Packet /\ Tail(q) \in Seq(Packet)
    BY <1>1, <2>1
  <2>3. flight[c] \in Seq(Packet)
    BY <1>1
  <2> QED BY <1>2, <2>1, <2>2, <2>3
<1>4. PICK n : n = [obj[c] EXCEPT !.cwiobuff = Head(obj[c].qwiobuff), !.qwiobuff = Tail(obj[c].qwiobuff)]
  OBVIOUS
<1>5. /\ n \in Object /\ n.cwiobuff = p /\ n.qwiobuff = Tail(obj[c].qwiobuff)
      /\ \A f \in {"phase", "sock", "connected", "logined", "sid", "sync_sid_pending",
                   "heartbeat_timer"} : n[f] = obj[c][f]
  BY <1>1, <1>2, <1>3, <1>4 DEF Object
<1>6. obj' = [obj EXCEPT ![c] = n] /\ flight' = [flight EXCEPT ![c] = Append(@, p)]
  <2>1. obj' = [obj EXCEPT ![c] = n]
    BY <1>4 DEF send_more
  <2>2. flight' = [flight EXCEPT ![c] = Append(@, p)]
    BY <1>2 DEF send_more
  <2> QED BY <2>1, <2>2
<1>7. /\ obj'[c] = n /\ flight'[c] = Append(flight[c], p)
      /\ \A d \in Clients \ {c} : obj'[d] = obj[d] /\ flight'[d] = flight[d]
      /\ obj' \in [Clients -> Object] /\ flight' \in [Clients -> Seq(Packet)]
  BY <1>1, <1>3, <1>5, <1>6
<1>8. n.cwiobuff # NoPkt
  BY <1>3, <1>5, PacketReal
<1> QED BY <1>1, <1>2, <1>3, <1>5, <1>7, <1>8

\* The packets of a client are all sent: each is at the server, on the socket
\* or waiting, in the order of submission.
Sent(c) == submitted[c] = received[c] \o flight[c] \o obj[c].qwiobuff

\* A packet more behind what waits is one more at the end.
LEMMA AppendBehind ==
    ASSUME NEW r \in Seq(Packet), NEW f \in Seq(Packet), NEW q \in Seq(Packet), NEW pkt \in Packet
    PROVE  Append(r \o f \o q, pkt) = r \o f \o Append(q, pkt)
<1>1. r \o f \in Seq(Packet) /\ r \o f \o q \in Seq(Packet) /\ <<pkt>> \in Seq(Packet)
  BY ConcatProperties
<1>2. Append(r \o f \o q, pkt) = r \o f \o q \o <<pkt>> /\ Append(q, pkt) = q \o <<pkt>>
  BY <1>1, AppendIsConcat
<1>3. r \o f \o q \o <<pkt>> = r \o f \o (q \o <<pkt>>)
  BY <1>1, ConcatAssociative
<1> QED BY <1>2, <1>3

-----------------------------------------------------------------------------
(* The inductive invariant of a client.                                    *)

\* It may still log in, or has.
Live(c) == obj[c].phase = "login" \/ obj[c].logined

\* Its connection broke, and it has not been stopped.
Lost(c) == obj[c].phase \in {"finished", "failed"} /\ obj[c].connected /\ ~obj[c].logined

Phase(c) ==
    /\ c > client => obj[c] = NoClient
    /\ obj[c].logined => obj[c].phase = "finished" /\ obj[c].connected
    /\ obj[c].phase = "login" => obj[c].connected /\ ~obj[c].logined
    /\ obj[c].heartbeat_timer \/ logger = c => obj[c].phase = "finished"
    /\ obj[c].phase \in {"none", "new", "connecting"} =>
          /\ obj[c].cwiobuff = NoPkt /\ ~obj[c].connected
          /\ submitted[c] = <<>> /\ received[c] = <<>>

\* The current packet is on the socket, or its completion waits, unless the
\* connection broke: then it stays, and keeps everything else off the socket.
Buffer(c) ==
    /\ obj[c].cwiobuff = NoPkt => flight[c] = <<>> /\ obj[c].qwiobuff = <<>> /\ ~Completed(c)
    /\ flight[c] # <<>> => flight[c] = <<obj[c].cwiobuff>> /\ ~Completed(c)
    /\ \A s \in Sids : LoginPosted(c, s) => obj[c].cwiobuff = NoPkt /\ submitted[c] = <<>>
    /\ obj[c].phase = "failed" => flight[c] = <<>>
    /\ Live(c) /\ obj[c].cwiobuff # NoPkt => flight[c] # <<>> \/ Completed(c)
    /\ Lost(c) => obj[c].cwiobuff # NoPkt /\ flight[c] = <<>> /\ ~Completed(c)
    /\ Live(c) /\ ~Broken(c) => Sent(c)

\* The id of the client is the last it told, or the login or the pending
\* reset will tell it.
SidInv(c) ==
    /\ obj[c].logined /\ obj[c].sid # NoSid => Tells(submitted[c], obj[c].sid)
    /\ obj[c].phase = "login" /\ ~obj[c].sync_sid_pending /\ obj[c].sid # NoSid =>
          Tells(submitted[c], obj[c].sid) \/ LoginPosted(c, obj[c].sid)

ClientInv(c) == Phase(c) /\ Buffer(c) /\ SidInv(c)

IInv == QueueInv /\ \A c \in Clients : ClientInv(c)

\* A packet with an id is the last to tell one; a log line tells none.
LEMMA AppendTells ==
    ASSUME NEW s \in Seq(Packet), NEW pkt \in Packet
    PROVE  /\ pkt.code # "log" => Tells(Append(s, pkt), pkt.sid)
           /\ \A sid : pkt.code = "log" /\ Tells(s, sid) => Tells(Append(s, pkt), sid)
<1>1. PICK n \in Nat : n = Len(s)
  OBVIOUS
<1>2. /\ Len(Append(s, pkt)) = n + 1 /\ DOMAIN Append(s, pkt) = 1 .. n + 1 /\ DOMAIN s = 1 .. n
      /\ Append(s, pkt)[n + 1] = pkt /\ \A i \in 1 .. n : Append(s, pkt)[i] = s[i]
  BY <1>1
<1>3. pkt.code # "log" => Tells(Append(s, pkt), pkt.sid)
  BY <1>2 DEF Tells
<1>4. ASSUME NEW sid, pkt.code = "log", Tells(s, sid) PROVE Tells(Append(s, pkt), sid)
  <2>1. PICK i \in 1 .. n : /\ s[i].code # "log" /\ s[i].sid = sid
                            /\ \A j \in i + 1 .. n : s[j].code = "log"
    BY <1>1, <1>2, <1>4 DEF Tells
  <2>2. \A j \in i + 1 .. n + 1 : Append(s, pkt)[j].code = "log"
    BY <1>2, <1>4, <2>1
  <2> QED BY <1>2, <2>1, <2>2 DEF Tells
<1> QED BY <1>3, <1>4

\* A step of one client, or of the logger, leaves the others alone.
LEMMA ClientKept ==
    ASSUME NEW c \in Clients, ClientInv(c), SameHandlers(c),
           obj'[c] = obj[c], flight'[c] = flight[c], obj[c] \in Object,
           submitted'[c] = submitted[c], received'[c] = received[c],
           c > client' => c > client,
           logger' = c => logger = c \/ obj[c].phase = "finished"
    PROVE  ClientInv(c)'
<1>1. Phase(c)'
  BY DEF ClientInv, Phase
<1>2. Buffer(c)'
  BY DEF ClientInv, Buffer, Live, Lost, Sent, SameHandlers
<1>3. SidInv(c)'
  BY DEF ClientInv, SidInv, SameHandlers, Object
<1> QED BY <1>1, <1>2, <1>3 DEF ClientInv

\* The first packet that waits goes to the empty socket.
LEMMA SendHead ==
    ASSUME NEW r \in Seq(Packet), NEW q \in Seq(Packet), q # <<>>
    PROVE  r \o <<>> \o q = r \o Append(<<>>, Head(q)) \o Tail(q)
OBVIOUS

\* async_write keeps the buffers of its client sound, whoever submits the
\* packet, once the client has begun its login.
LEMMA WriteKept ==
    ASSUME StatusdTypeOK, NEW c \in Clients, ClientInv(c), NEW pkt \in Packet, NEW o \in Object,
           async_write(c, o, pkt),
           \A f \in {"phase", "sock", "connected", "logined", "heartbeat_timer", "cwiobuff", "qwiobuff"} :
              o[f] = obj[c][f],
           obj[c].phase \in {"login", "finished"},
           client' = client, logger' = logger,
           Completed(c)' <=> Completed(c), Broken(c)' <=> Broken(c),
           \A s \in Sids : ~LoginPosted(c, s)'
    PROVE  Phase(c)' /\ Buffer(c)'
<1>0. /\ o.phase = obj[c].phase /\ o.connected = obj[c].connected /\ o.logined = obj[c].logined
      /\ o.heartbeat_timer = obj[c].heartbeat_timer
      /\ o.cwiobuff = obj[c].cwiobuff /\ o.qwiobuff = obj[c].qwiobuff
  OBVIOUS
<1>1. obj[c] \in Object /\ received \in [Clients -> Seq(Packet)] /\ flight \in [Clients -> Seq(Packet)]
  BY DEF StatusdTypeOK
<1>2. /\ submitted'[c] = Append(submitted[c], pkt) /\ received' = received
      /\ \A f \in {"phase", "sock", "connected", "logined", "sid", "sync_sid_pending",
                   "heartbeat_timer"} : obj'[c][f] = o[f]
      /\ obj[c].cwiobuff = NoPkt => /\ obj'[c].cwiobuff = pkt /\ obj'[c].qwiobuff = obj[c].qwiobuff
                                    /\ flight'[c] = Append(flight[c], pkt)
      /\ obj[c].cwiobuff # NoPkt => /\ obj'[c].cwiobuff = obj[c].cwiobuff
                                    /\ obj'[c].qwiobuff = Append(obj[c].qwiobuff, pkt)
                                    /\ flight'[c] = flight[c]
      /\ obj'[c].cwiobuff # NoPkt
  <2>1. /\ submitted'[c] = Append(submitted[c], pkt) /\ received' = received
        /\ \A f \in {"phase", "sock", "connected", "logined", "sid", "sync_sid_pending",
                     "heartbeat_timer"} : obj'[c][f] = o[f]
        /\ o.cwiobuff = NoPkt => /\ obj'[c].cwiobuff = pkt /\ obj'[c].qwiobuff = o.qwiobuff
                                 /\ flight'[c] = Append(flight[c], pkt)
        /\ o.cwiobuff # NoPkt => /\ obj'[c].cwiobuff = o.cwiobuff
                                 /\ obj'[c].qwiobuff = Append(o.qwiobuff, pkt)
                                 /\ flight'[c] = flight[c]
        /\ obj'[c].cwiobuff # NoPkt
    BY AsyncWrite
  <2> QED BY <1>0, <2>1
<1>3. /\ obj'[c].phase = obj[c].phase /\ obj'[c].connected = obj[c].connected
      /\ obj'[c].logined = obj[c].logined /\ obj'[c].heartbeat_timer = obj[c].heartbeat_timer
  BY <1>0, <1>2
<1>4. Phase(c)'
  <2>1. ~(c > client)
    BY DEF ClientInv, Phase, NoClient
  <2> QED BY <1>3, <2>1 DEF ClientInv, Phase
<1>5. Live(c)' = Live(c) /\ Lost(c)' = Lost(c)
  BY <1>3 DEF Live, Lost
<1>6. Sent(c) => Sent(c)'
  <2>1. PICK r \in Seq(Packet), f \in Seq(Packet), q \in Seq(Packet) :
              r = received[c] /\ f = flight[c] /\ q = obj[c].qwiobuff
    BY <1>1 DEF Object
  <2>2. Append(r \o f \o q, pkt) = r \o f \o Append(q, pkt)
    BY AppendBehind
  <2>3. q = <<>> => Append(r \o f \o q, pkt) = r \o Append(f, pkt) \o q
    OBVIOUS
  <2>4. CASE obj[c].cwiobuff = NoPkt
    <3>1. q = <<>>
      BY <2>1, <2>4 DEF ClientInv, Buffer
    <3> QED BY <1>2, <2>1, <2>3, <2>4, <3>1 DEF Sent
  <2>5. CASE obj[c].cwiobuff # NoPkt
    BY <1>2, <2>1, <2>2, <2>5 DEF Sent
  <2> QED BY <2>4, <2>5
<1>7. CASE obj[c].cwiobuff = NoPkt
  <2>1. flight[c] = <<>> /\ ~Completed(c) /\ ~Lost(c)
    BY <1>7 DEF ClientInv, Buffer
  <2>2. flight'[c] = <<pkt>> /\ flight'[c] # <<>> /\ obj'[c].cwiobuff = pkt
    <3>1. Append(<<>>, pkt) = <<pkt>> /\ <<pkt>> # <<>>
      OBVIOUS
    <3> QED BY <1>2, <1>7, <2>1, <3>1
  <2> QED BY <1>2, <1>4, <1>5, <1>6, <2>1, <2>2 DEF ClientInv, Buffer
<1>8. CASE obj[c].cwiobuff # NoPkt
  BY <1>2, <1>4, <1>5, <1>6, <1>8 DEF ClientInv, Buffer
<1> QED BY <1>7, <1>8
-----------------------------------------------------------------------------
(* Types.                                                                  *)

\* A handler posted for a client that exists is a handler.
LEMMA HandlerType ==
    ASSUME NEW k \in {"connect", "set_sid", "log", "execute", "login_write", "write"},
           NEW c \in Clients, NEW sid \in Sids, NEW flag \in BOOLEAN
    PROVE  Handler(k, c, sid, flag) \in Handlers
BY DEF Handler, Handlers

\* The fields a handler of the client sets on its object.
LEMMA FieldTypes ==
    ASSUME StatusdTypeOK, NEW c \in Clients
    PROVE  /\ [obj EXCEPT ![c].phase = "connecting", ![c].sock = TRUE] \in [Clients -> Object]
           /\ [obj EXCEPT ![c].phase = "login", ![c].connected = TRUE] \in [Clients -> Object]
           /\ [obj EXCEPT ![c].phase = "failed", ![c].logined = FALSE] \in [Clients -> Object]
           /\ [obj EXCEPT ![c].logined = FALSE] \in [Clients -> Object]
           /\ [obj EXCEPT ![c].cwiobuff = NoPkt] \in [Clients -> Object]
           /\ \A sid \in Sids, b \in BOOLEAN :
                 /\ [obj[c] EXCEPT !.sid = sid] \in Object
                 /\ [obj[c] EXCEPT !.sid = sid, !.sync_sid_pending = b] \in Object
           /\ [obj[c] EXCEPT !.cwiobuff = NoPkt, !.phase = "finished", !.logined = TRUE,
                             !.heartbeat_timer = TRUE, !.sync_sid_pending = FALSE] \in Object
           /\ stop(obj[c]) \in Object
<1>1. obj \in [Clients -> Object] /\ obj[c] \in Object
  BY DEF StatusdTypeOK
<1>2. [obj EXCEPT ![c].phase = "connecting", ![c].sock = TRUE] \in [Clients -> Object]
  BY <1>1 DEF Object
<1>3. [obj EXCEPT ![c].phase = "login", ![c].connected = TRUE] \in [Clients -> Object]
  BY <1>1 DEF Object
<1>4. [obj EXCEPT ![c].phase = "failed", ![c].logined = FALSE] \in [Clients -> Object]
  BY <1>1 DEF Object
<1>5. [obj EXCEPT ![c].logined = FALSE] \in [Clients -> Object]
  BY <1>1 DEF Object
<1>6. [obj EXCEPT ![c].cwiobuff = NoPkt] \in [Clients -> Object]
  BY <1>1 DEF Object
<1>7. ASSUME NEW sid \in Sids, NEW b \in BOOLEAN
      PROVE  /\ [obj[c] EXCEPT !.sid = sid] \in Object
             /\ [obj[c] EXCEPT !.sid = sid, !.sync_sid_pending = b] \in Object
  BY <1>1 DEF Object
<1>8. [obj[c] EXCEPT !.cwiobuff = NoPkt, !.phase = "finished", !.logined = TRUE,
                     !.heartbeat_timer = TRUE, !.sync_sid_pending = FALSE] \in Object
  BY <1>1 DEF Object
<1>9. stop(obj[c]) \in Object
  <2>1. <<>> \in Seq(Packet)
    OBVIOUS
  <2> QED BY <1>1, <2>1 DEF stop, Object
<1> QED BY <1>2, <1>3, <1>4, <1>5, <1>6, <1>7, <1>8, <1>9

\* A step keeps the types.
LEMMA TypeStep ==
    ASSUME StatusdTypeOK, [StatusdNext]_statusdVars
    PROVE  StatusdTypeOK'
<1>0. /\ client \in 0 .. MaxClients /\ obj \in [Clients -> Object] /\ queue \in Seq(Handlers)
      /\ flight \in [Clients -> Seq(Packet)] /\ submitted \in [Clients -> Seq(Packet)]
      /\ received \in [Clients -> Seq(Packet)] /\ logger \in 0 .. MaxClients /\ opens \in 0 .. MaxOpens
      /\ MaxClients \in Nat /\ MaxOpens \in Nat
  BY StatusdAssumption DEF StatusdTypeOK
<1>1. \A k : Oldest(k) => Head(queue) \in Handlers /\ Tail(queue) \in Seq(Handlers)
  BY <1>0 DEF Oldest
<1>2. \A c \in Clients, o \in Object, pkt \in Packet : async_write(c, o, pkt) =>
          /\ obj' \in [Clients -> Object] /\ flight' \in [Clients -> Seq(Packet)]
          /\ submitted' \in [Clients -> Seq(Packet)] /\ received' = received
  BY AsyncWrite
<1>3. \A c \in Clients : send_more(c) =>
          /\ obj' \in [Clients -> Object] /\ flight' \in [Clients -> Seq(Packet)]
          /\ submitted' = submitted /\ received' = received
  BY SendMore
<1>4. LogPkt \in Packet /\ \A sid \in Sids : /\ [code |-> "login", sid |-> sid] \in Packet
                                             /\ [code |-> "reset_sid", sid |-> sid] \in Packet
  BY <1>0 DEF LogPkt, Packet, Sids, NoSid
<1>5. NoSid \in Sids
  BY <1>0 DEF NoSid, Sids
<1>6. CASE inner_connect
  <2>1. Head(queue).c \in Clients
    BY <1>1, <1>6 DEF inner_connect, Handlers
  <2> QED BY <1>0, <1>1, <1>6, <2>1, FieldTypes DEF inner_connect, wireVars, StatusdTypeOK
<1>7. CASE execute_login
  <2>1. Head(queue).c \in Clients /\ Head(queue).sid \in Sids /\ Tail(queue) \in Seq(Handlers)
    BY <1>1, <1>7 DEF execute_login, Handlers
  <2>2. obj[Head(queue).c] \in Object
    BY <1>0, <2>1
  <2> QED BY <1>0, <1>2, <1>4, <1>7, <2>1, <2>2 DEF execute_login, StatusdTypeOK
<1>8. CASE login_handle_write
  <2>1. PICK c \in Clients : c = Head(queue).c
    BY <1>1, <1>8 DEF login_handle_write, Handlers
  <2>2. /\ queue' \in Seq(Handlers) /\ UNCHANGED <<client, logger, opens>>
    BY <1>1, <1>8 DEF login_handle_write
  <2>3. CASE send_more(c)
    BY <1>0, <1>3, <2>2, <2>3 DEF StatusdTypeOK
  <2>4. CASE handle_Login(c)
    <3>1. PICK o \in Object : o = [obj[c] EXCEPT !.cwiobuff = NoPkt, !.phase = "finished", !.logined = TRUE,
                                   !.heartbeat_timer = TRUE, !.sync_sid_pending = FALSE]
      BY FieldTypes
    <3>2. IF obj[c].sync_sid_pending THEN async_write(c, o, [code |-> "reset_sid", sid |-> o.sid])
          ELSE obj' = [obj EXCEPT ![c] = o] /\ UNCHANGED wireVars
      BY <2>4, <3>1 DEF handle_Login
    <3>3. o.sid \in Sids
      BY DEF Object
    <3> QED BY <1>0, <1>2, <1>4, <2>2, <3>2, <3>3 DEF StatusdTypeOK, wireVars
  <2>5. CASE obj' = [obj EXCEPT ![c].phase = "failed", ![c].logined = FALSE] /\ UNCHANGED wireVars
    BY <1>0, <2>2, <2>5, FieldTypes DEF StatusdTypeOK, wireVars
  <2> QED BY <1>8, <2>1, <2>3, <2>4, <2>5 DEF login_handle_write
<1>9. CASE handle_write
  <2>1. PICK c \in Clients : c = Head(queue).c
    BY <1>1, <1>9 DEF handle_write, Handlers
  <2>2. /\ queue' \in Seq(Handlers) /\ UNCHANGED <<client, logger, opens>>
    BY <1>1, <1>9 DEF handle_write
  <2>3. CASE send_more(c)
    BY <1>0, <1>3, <2>2, <2>3 DEF StatusdTypeOK
  <2>4. CASE obj' = [obj EXCEPT ![c].cwiobuff = NoPkt] /\ UNCHANGED wireVars
    BY <1>0, <2>2, <2>4, FieldTypes DEF StatusdTypeOK, wireVars
  <2>5. CASE obj' = [obj EXCEPT ![c].logined = FALSE] /\ UNCHANGED wireVars
    BY <1>0, <2>2, <2>5, FieldTypes DEF StatusdTypeOK, wireVars
  <2> QED BY <1>9, <2>1, <2>3, <2>4, <2>5 DEF handle_write
<1>10. CASE inner_set_sid
  <2>1. PICK c \in Clients, sid \in Sids : c = Head(queue).c /\ sid = Head(queue).sid
    BY <1>1, <1>10 DEF inner_set_sid, Handlers
  <2>2. PICK o \in Object : o = [obj[c] EXCEPT !.sid = sid]
    BY FieldTypes
  <2>3. PICK p \in Object : p = [o EXCEPT !.sync_sid_pending = TRUE]
    BY DEF Object
  <2>4. /\ queue' \in Seq(Handlers) /\ UNCHANGED <<client, logger, opens>>
    BY <1>1, <1>10 DEF inner_set_sid
  <2>5. \/ UNCHANGED obj /\ UNCHANGED wireVars
        \/ obj' = [obj EXCEPT ![c] = p] /\ UNCHANGED wireVars
        \/ obj' = [obj EXCEPT ![c] = o] /\ UNCHANGED wireVars
        \/ async_write(c, o, [code |-> "reset_sid", sid |-> sid])
    BY <1>10, <2>1, <2>2, <2>3 DEF inner_set_sid
  <2> QED BY <1>0, <1>2, <1>4, <2>4, <2>5 DEF StatusdTypeOK, wireVars
<1>11. CASE inner_write_log
  <2>1. PICK c \in Clients : c = Head(queue).c
    BY <1>1, <1>11 DEF inner_write_log, Handlers
  <2>2. obj[c] \in Object
    BY <1>0
  <2> QED BY <1>0, <1>1, <1>2, <1>4, <1>11, <2>1, <2>2 DEF inner_write_log, StatusdTypeOK
<1>12. ASSUME NEW c \in Clients, handle_Connect(c) PROVE StatusdTypeOK'
  <2>1. obj[c].sid \in Sids
    BY <1>0 DEF Object
  <2>2. queue' \in Seq(Handlers)
    <3>1. Handler("execute", c, obj[c].sid, FALSE) \in Handlers
      BY <2>1, HandlerType DEF Handler
    <3> QED BY <1>0, <1>12, <3>1 DEF handle_Connect, Handler
  <2> QED BY <1>0, <1>12, <2>2, FieldTypes DEF handle_Connect, wireVars, StatusdTypeOK
<1>13. ASSUME NEW c \in Clients, connect_failed(c) PROVE StatusdTypeOK'
  BY <1>0, <1>13, FieldTypes DEF connect_failed, wireVars, StatusdTypeOK
<1>14. ASSUME NEW c \in Clients, NEW ok \in BOOLEAN, WriteComplete(c, ok) PROVE StatusdTypeOK'
  <2>1. PICK f \in Seq(Packet) : f = flight[c]
    BY <1>0
  <2>2. f # <<>> /\ Tail(f) \in Seq(Packet) /\ Head(f) \in Packet
    BY <1>14, <2>1 DEF WriteComplete
  <2>3. flight' \in [Clients -> Seq(Packet)]
    BY <1>0, <1>14, <2>1, <2>2 DEF WriteComplete
  <2>4. Append(received[c], Head(f)) \in Seq(Packet)
    BY <1>0, <2>2
  <2>5. received' \in [Clients -> Seq(Packet)]
    BY <1>0, <1>14, <2>1, <2>4 DEF WriteComplete
  <2>6. queue' \in Seq(Handlers)
    <3>1. /\ Handler("login_write", c, NoSid, ok) \in Handlers
          /\ Handler("write", c, NoSid, ok) \in Handlers
      BY <1>5, HandlerType
    <3> QED BY <1>0, <1>14, <3>1 DEF WriteComplete
  <2> QED BY <1>0, <1>14, <2>3, <2>5, <2>6 DEF WriteComplete, StatusdTypeOK
<1>15. ASSUME NEW c \in Clients, handle_heartbeart_timeout(c) PROVE StatusdTypeOK'
  <2>1. obj[c] \in Object
    BY <1>0
  <2> QED BY <1>0, <1>2, <1>4, <1>15, <2>1 DEF handle_heartbeart_timeout, StatusdTypeOK
<1>16. CASE handle_statusd_timeout
  <2>1. client + 1 \in Clients /\ client' = client + 1
    BY <1>0, <1>16 DEF handle_statusd_timeout, Clients
  <2>2. [NoClient EXCEPT !.phase = "new"] \in Object
    <3>1. <<>> \in Seq(Packet)
      OBVIOUS
    <3> QED BY <1>5, <3>1 DEF NoClient, Object
  <2>3. obj' \in [Clients -> Object]
    BY <1>0, <1>16, <2>2, FieldTypes DEF handle_statusd_timeout
  <2>4. queue' \in Seq(Handlers)
    <3>1. Handler("connect", client + 1, NoSid, FALSE) \in Handlers
      BY <1>5, <2>1, HandlerType DEF Handler
    <3> QED BY <1>0, <1>16, <3>1 DEF handle_statusd_timeout, Handler
  <2>5. client' \in 0 .. MaxClients
    BY <1>0, <2>1 DEF Clients
  <2> QED BY <1>0, <1>16, <2>3, <2>4, <2>5 DEF handle_statusd_timeout, wireVars, StatusdTypeOK
<1>17. ASSUME NEW sid \in Sids, NEW sync \in BOOLEAN, set_sid(sid, sync) PROVE queue' \in Seq(Handlers)
  <2>1. CASE client # 0
    <3>1. client \in Clients
      BY <1>0, <2>1 DEF Clients
    <3> QED BY <1>0, <1>17, <2>1, <3>1, HandlerType DEF set_sid
  <2> QED BY <1>0, <1>17, <2>1 DEF set_sid
<1>18. CASE session_opened \/ session_closed
  <2>1. opens' \in 0 .. MaxOpens
    <3>1. opens' = opens \/ (opens' = opens + 1 /\ opens < MaxOpens)
      BY <1>18 DEF session_opened, session_closed
    <3> QED BY <1>0, <3>1
  <2>2. opens' \in Sids
    BY <2>1 DEF Sids
  <2> QED BY <1>0, <1>5, <1>17, <1>18, <2>1, <2>2 DEF session_opened, session_closed, wireVars, StatusdTypeOK
<1>19. CASE write_log_test
  BY <1>0, <1>19 DEF write_log_test, wireVars, StatusdTypeOK
<1>20. CASE write_log_post
  <2>1. logger \in Clients /\ logger' = 0
    BY <1>0, <1>20 DEF write_log_post, Clients
  <2>2. queue' \in Seq(Handlers)
    <3>1. Handler("log", logger, NoSid, FALSE) \in Handlers
      BY <1>5, <2>1, HandlerType
    <3> QED BY <1>0, <1>20, <3>1 DEF write_log_post, Handler
  <2>3. logger' \in 0 .. MaxClients
    BY <1>0, <2>1
  <2> QED BY <1>0, <1>20, <2>2, <2>3 DEF write_log_post, wireVars, StatusdTypeOK
<1>21. CASE UNCHANGED statusdVars
  BY <1>21 DEF statusdVars, StatusdTypeOK
<1> QED BY <1>6, <1>7, <1>8, <1>9, <1>10, <1>11, <1>12, <1>13, <1>14, <1>15, <1>16, <1>18, <1>19, <1>20, <1>21
        DEF StatusdNext, IoThread, Connecting, Network

\* The status client and what it shares keep their types, in particular no
\* handler is posted for a client that does not exist.
THEOREM StatusdTypes == StatusdSpec => []StatusdTypeOK
<1>1. StatusdInit => StatusdTypeOK
  <2> SUFFICES ASSUME StatusdInit PROVE StatusdTypeOK
    OBVIOUS
  <2>1. 0 \in 0 .. MaxClients /\ 0 \in 0 .. MaxOpens /\ NoSid \in Sids
    BY StatusdAssumption DEF NoSid, Sids
  <2>2. NoClient \in Object
    BY <2>1 DEF NoClient, Object
  <2> QED BY <2>1, <2>2 DEF StatusdInit, StatusdTypeOK
<1>2. StatusdTypeOK /\ [StatusdNext]_statusdVars => StatusdTypeOK'
  BY TypeStep
<1> QED BY <1>1, <1>2, PTL DEF StatusdSpec
-----------------------------------------------------------------------------
(* What a step of one client leaves alone.                                 *)

\* A handler fits its client as long as the client's phase is the same, or
\* was one that no handler but set_sid is posted in.
LEMMA FitsKept ==
    ASSUME NEW h \in Handlers, Fits(h), client' = client,
           obj'[h.c].phase = obj[h.c].phase \/ obj[h.c].phase \notin {"new", "login", "finished"}
    PROVE  /\ h.c \in 1 .. client'
           /\ h.kind = "connect" => obj'[h.c].phase = "new"
           /\ h.kind \in {"execute", "login_write"} => obj'[h.c].phase = "login"
           /\ h.kind \in {"write", "log"} => obj'[h.c].phase = "finished"
           /\ h.kind = "set_sid" /\ ~h.flag => h.sid = NoSid
BY DEF Fits

\* The handlers left, or the same ones, still fit.
LEMMA QueueKept ==
    ASSUME StatusdTypeOK, QueueInv, Taken \/ queue' = queue, client' = client,
           \A d \in Clients : \/ obj'[d].phase = obj[d].phase
                              \/ obj[d].phase \notin {"new", "login", "finished"}
                              \/ \A i \in DOMAIN queue' : queue'[i].c = d => queue'[i].kind = "set_sid"
    PROVE  QueueInv'
<1>1. /\ \A i \in DOMAIN queue' : queue'[i] \in Handlers /\ Fits(queue'[i])
      /\ Single({"connect"})' /\ Single({"execute"})' /\ Single({"write", "login_write"})'
  <2>1. CASE Taken
    BY <2>1, TakenEffect
  <2>2. CASE queue' = queue
    <3>1. \A i \in DOMAIN queue : queue[i] \in Handlers
      BY DEF StatusdTypeOK
    <3> QED BY <2>2, <3>1 DEF QueueInv, Single
  <2> QED BY <2>1, <2>2
<1>2. ASSUME NEW i \in DOMAIN queue' PROVE Fits(queue[i])'
  <2>1. PICK h \in Handlers : h = queue'[i] /\ Fits(h)
    BY <1>1
  <2>2. h.c \in Clients
    BY DEF Handlers
  <2>3. CASE h.kind = "set_sid"
    BY <2>1, <2>3 DEF Fits
  <2>4. CASE h.kind # "set_sid"
    <3>1. obj'[h.c].phase = obj[h.c].phase \/ obj[h.c].phase \notin {"new", "login", "finished"}
      BY <2>1, <2>2, <2>4
    <3> QED BY <2>1, <3>1, FitsKept DEF Fits
  <2> QED BY <2>3, <2>4
<1> QED BY <1>1, <1>2 DEF QueueInv

\* So do the handlers with a new one that fits.
LEMMA QueuePosted ==
    ASSUME StatusdTypeOK, QueueInv, NEW h \in Handlers, queue' = Append(queue, h), client' = client,
           \A d \in Clients : \/ obj'[d].phase = obj[d].phase
                              \/ obj[d].phase \notin {"new", "login", "finished"},
           Single({"connect"})', Single({"execute"})', Single({"write", "login_write"})',
           h.c \in 1 .. client, h.kind # "connect",
           h.kind \in {"execute", "login_write"} => obj'[h.c].phase = "login",
           h.kind \in {"write", "log"} => obj'[h.c].phase = "finished",
           h.kind = "set_sid" /\ ~h.flag => h.sid = NoSid
    PROVE  QueueInv'
<1>1. \A i \in DOMAIN queue' : queue'[i] = h \/ (i \in DOMAIN queue /\ queue'[i] = queue[i])
  BY PostEffect
<1>2. ASSUME NEW i \in DOMAIN queue' PROVE Fits(queue[i])'
  <2>1. CASE queue'[i] = h
    BY <2>1 DEF Fits
  <2>2. CASE i \in DOMAIN queue /\ queue'[i] = queue[i]
    <3>1. PICK g \in Handlers : g = queue[i]
      BY <2>2 DEF StatusdTypeOK
    <3>2. g.c \in Clients /\ Fits(g)
      BY <2>2, <3>1 DEF Handlers, QueueInv
    <3> QED BY <2>2, <3>1, <3>2, FitsKept DEF Fits
  <2> QED BY <1>1, <2>1, <2>2
<1> QED BY <1>2 DEF QueueInv

\* The step is one of client c: the queue loses or gains a handler of c, and
\* nothing else of another client changes.
StepOf(c) ==
    /\ \/ Taken /\ Head(queue).c = c
       \/ queue' = queue
       \/ \E h \in Handlers : h.c = c /\ queue' = Append(queue, h)
    /\ client' = client /\ logger' \in {logger, 0}
    /\ \A d \in Clients \ {c} : /\ obj'[d] = obj[d] /\ flight'[d] = flight[d]
                                /\ submitted'[d] = submitted[d] /\ received'[d] = received[d]

\* It keeps the invariant of the other clients.
LEMMA OthersKept ==
    ASSUME StatusdTypeOK, IInv, NEW c \in Clients, StepOf(c)
    PROVE  \A d \in Clients \ {c} : ClientInv(d)'
<1> SUFFICES ASSUME NEW d \in Clients \ {c} PROVE ClientInv(d)'
  OBVIOUS
<1>1. SameHandlers(d)
  <2>1. CASE Taken /\ Head(queue).c = c
    BY <2>1, TakenOther DEF IInv
  <2>2. CASE queue' = queue
    BY <2>2 DEF SameHandlers, Completed, Broken, LoginPosted
  <2>3. ASSUME NEW h \in Handlers, h.c = c, queue' = Append(queue, h) PROVE SameHandlers(d)
    <3>1. ~IsWrite(h, d)
      BY <2>3 DEF IsWrite
    <3> QED BY <2>3, <3>1, PostEffect DEF SameHandlers
  <2> QED BY <2>1, <2>2, <2>3 DEF StepOf
<1>2. d # 0 /\ obj[d] \in Object
  BY DEF Clients, StatusdTypeOK
<1> QED BY <1>1, <1>2, ClientKept DEF StepOf, IInv
-----------------------------------------------------------------------------
(* The steps.                                                              *)

\* The invariant after a step of client c.
LEMMA StepKept ==
    ASSUME StatusdTypeOK, IInv, NEW c \in Clients, StepOf(c), QueueInv', ClientInv(c)'
    PROVE  IInv'
BY OthersKept DEF IInv

\* A handler of a client that has been taken: what QueueInv says of it.
LEMMA HeadFits ==
    ASSUME StatusdTypeOK, IInv, NEW k, Oldest(k), queue' = Tail(queue)
    PROVE  /\ Taken /\ Head(queue) \in Handlers /\ Fits(Head(queue))
           /\ Head(queue).c \in Clients /\ Head(queue).kind = k
           /\ Head(queue).sid \in Sids /\ Head(queue).flag \in BOOLEAN
           /\ obj[Head(queue).c] \in Object
           /\ QueueInv /\ \A c \in Clients : ClientInv(c)
<1>1. Taken /\ Head(queue).kind = k
  BY DEF Oldest, Taken
<1>2. QueueInv /\ \A c \in Clients : ClientInv(c)
  BY DEF IInv
<1>3. Head(queue) \in Handlers /\ Fits(Head(queue))
  BY <1>1, <1>2, TakenEffect
<1> QED BY <1>1, <1>2, <1>3 DEF Handlers, StatusdTypeOK

\* inner_connect: the machine of a new client starts.
LEMMA StepConnect ==
    ASSUME StatusdTypeOK, IInv, inner_connect
    PROVE  IInv'
<1>1. PICK c \in Clients : c = Head(queue).c
  BY HeadFits DEF inner_connect
<1>2. /\ Taken /\ Head(queue) \in Handlers /\ Fits(Head(queue)) /\ Head(queue).kind = "connect"
      /\ QueueInv /\ ClientInv(c) /\ obj[c] \in Object
  BY <1>1, HeadFits DEF inner_connect
<1>3. obj[c].phase = "new"
  BY <1>1, <1>2 DEF Fits
<1>4. /\ obj' = [obj EXCEPT ![c].phase = "connecting", ![c].sock = TRUE]
      /\ UNCHANGED <<client, logger>> /\ UNCHANGED wireVars
  BY <1>1 DEF inner_connect
<1>5. /\ obj'[c].phase = "connecting" /\ obj'[c].connected = obj[c].connected
      /\ obj'[c].logined = obj[c].logined /\ obj'[c].cwiobuff = obj[c].cwiobuff
      /\ obj'[c].qwiobuff = obj[c].qwiobuff /\ obj'[c].heartbeat_timer = obj[c].heartbeat_timer
      /\ \A d \in Clients \ {c} : obj'[d] = obj[d]
  BY <1>2, <1>4 DEF StatusdTypeOK, Object
<1>6. StepOf(c)
  BY <1>1, <1>2, <1>4, <1>5 DEF StepOf, wireVars
<1>7. ASSUME NEW i \in DOMAIN queue', queue'[i].c = c PROVE queue'[i].kind = "set_sid"
  <2>1. /\ i + 1 \in DOMAIN queue /\ queue'[i] = queue[i + 1] /\ Head(queue) = queue[1]
        /\ queue'[i] \in Handlers /\ Fits(queue'[i])
    BY <1>2, TakenEffect
  <2>2. 1 \in DOMAIN queue /\ i \in Nat \ {0}
    BY <1>2 DEF StatusdTypeOK, Taken
  <2>3. queue'[i].kind # "connect"
    BY <1>1, <1>2, <1>7, <2>1, <2>2 DEF QueueInv, Single
  <2> QED BY <1>3, <1>7, <2>1, <2>3 DEF Fits, Handlers
<1>8. QueueInv'
  BY <1>2, <1>4, <1>5, <1>7, QueueKept
<1>9. SameHandlers(c)
  BY <1>1, <1>2, TakenOther
<1>10. /\ submitted' = submitted /\ received' = received /\ flight' = flight
       /\ client' = client /\ logger' = logger
  BY <1>4 DEF wireVars
<1>11. Phase(c)'
  BY <1>2, <1>3, <1>5, <1>10 DEF ClientInv, Phase, NoClient
<1>12. Buffer(c)'
  <2>1. ~Live(c)' /\ ~Lost(c)'
    BY <1>2, <1>3, <1>5 DEF ClientInv, Phase, Live, Lost
  <2> QED BY <1>2, <1>5, <1>9, <1>10, <2>1 DEF ClientInv, Buffer, SameHandlers
<1>13. SidInv(c)'
  BY <1>11, <1>5 DEF SidInv, Phase
<1> QED BY <1>6, <1>8, <1>11, <1>12, <1>13, StepKept DEF ClientInv

\* A client in another phase than login has no login posted.
LEMMA NoLoginPosted ==
    QueueInv => \A c \in Clients : obj[c].phase # "login" => \A s \in Sids : ~LoginPosted(c, s)
BY DEF QueueInv, LoginPosted, Fits

\* Also after a step.
LEMMA NoLoginPostedNext ==
    QueueInv' => \A c \in Clients : obj'[c].phase # "login" => \A s \in Sids : ~LoginPosted(c, s)'
<1>1. (QueueInv => \A c \in Clients : obj[c].phase # "login" => \A s \in Sids : ~LoginPosted(c, s))'
  BY NoLoginPosted, PTL
<1> QED BY <1>1

\* execute_login: the login packet is the first of its client.
LEMMA StepLogin ==
    ASSUME StatusdTypeOK, StatusdTypeOK', IInv, execute_login
    PROVE  IInv'
<1>1. PICK c \in Clients, sid \in Sids, pkt \in Packet :
            /\ c = Head(queue).c /\ sid = Head(queue).sid
            /\ pkt = [code |-> "login", sid |-> sid]
  <2>1. Head(queue).c \in Clients /\ Head(queue).sid \in Sids
    BY HeadFits DEF execute_login
  <2> QED BY <2>1 DEF Packet
<1>2. /\ Taken /\ Head(queue) \in Handlers /\ Fits(Head(queue)) /\ Head(queue).kind = "execute"
      /\ QueueInv /\ ClientInv(c) /\ obj[c] \in Object
  BY <1>1, HeadFits DEF execute_login
<1>3. obj[c].phase = "login" /\ ~obj[c].logined
  BY <1>1, <1>2 DEF Fits, ClientInv, Phase
<1>4. /\ async_write(c, obj[c], pkt) /\ UNCHANGED <<client, logger>>
  BY <1>1 DEF execute_login
<1>5. /\ Completed(c)' <=> Completed(c)
      /\ Broken(c)' <=> Broken(c)
      /\ \A s \in Sids : ~LoginPosted(c, s)' /\ (LoginPosted(c, s) => s = sid)
  BY <1>1, <1>2, TakenLogin
<1>6. Phase(c)' /\ Buffer(c)'
  BY <1>2, <1>3, <1>4, <1>5, WriteKept
<1>7. /\ \A f \in {"phase", "sid", "logined"} : obj'[c][f] = obj[c][f]
      /\ submitted'[c] = Append(submitted[c], pkt) /\ received' = received
      /\ \A d \in Clients \ {c} : /\ obj'[d] = obj[d] /\ flight'[d] = flight[d]
                                  /\ submitted'[d] = submitted[d]
  BY <1>2, <1>4, AsyncWrite
<1>8. StepOf(c)
  BY <1>1, <1>2, <1>4, <1>7 DEF StepOf
<1>9. QueueInv'
  <2>1. \A d \in Clients : obj'[d].phase = obj[d].phase
    BY <1>7
  <2> QED BY <1>2, <1>4, <2>1, QueueKept
<1>10. LoginPosted(c, sid)
  <2>1. 1 \in DOMAIN queue /\ Head(queue) = queue[1]
    BY <1>2 DEF Taken, StatusdTypeOK
  <2> QED BY <1>1, <1>2, <2>1 DEF LoginPosted
<1>11. SidInv(c)'
  <2>1. Tells(submitted[c], sid)'
    <3>1. submitted[c] \in Seq(Packet)
      BY DEF StatusdTypeOK
    <3>2. Tells(Append(submitted[c], pkt), pkt.sid)
      BY <1>1, <3>1, AppendTells
    <3> QED BY <1>1, <1>7, <3>2
  <2>2. obj[c].sid # NoSid /\ ~obj[c].sync_sid_pending => obj[c].sid = sid
    <3>1. submitted[c] = <<>>
      BY <1>2, <1>10 DEF ClientInv, Buffer
    <3>2. ~Tells(submitted[c], obj[c].sid)
      BY <3>1 DEF Tells
    <3> QED BY <1>2, <1>3, <1>5, <3>2 DEF ClientInv, SidInv, Object
  <2>3. obj'[c].sid = obj[c].sid /\ obj'[c].sync_sid_pending = obj[c].sync_sid_pending /\ ~obj'[c].logined
    BY <1>2, <1>3, <1>4, AsyncWrite
  <2> QED BY <2>1, <2>2, <2>3 DEF SidInv
<1> QED BY <1>6, <1>8, <1>9, <1>11, StepKept DEF ClientInv
\* The handler of a completed write finds nothing on the socket, and the
\* packet that was sent still current.
LEMMA WriteEnded ==
    ASSUME NEW c \in Clients, ClientInv(c), Completed(c)
    PROVE  /\ flight[c] = <<>> /\ obj[c].cwiobuff # NoPkt
           /\ ~Lost(c) /\ \A s \in Sids : ~LoginPosted(c, s)
BY DEF ClientInv, Buffer

\* check_send_buffer keeps the invariant of its client.
LEMMA MoreKept ==
    ASSUME StatusdTypeOK, IInv, NEW c \in Clients, Taken, IsWrite(Head(queue), c), Head(queue).flag,
           send_more(c), UNCHANGED <<client, logger>>
    PROVE  IInv'
<1>1. QueueInv /\ ClientInv(c) /\ obj[c] \in Object
  BY DEF IInv, StatusdTypeOK
<1>2. /\ Completed(c) /\ ~Completed(c)' /\ ~Broken(c)' /\ ~Broken(c)
      /\ \A s \in Sids : LoginPosted(c, s) <=> LoginPosted(c, s)'
  BY <1>1, TakenWrite
<1>3. flight[c] = <<>> /\ ~Lost(c) /\ \A s \in Sids : ~LoginPosted(c, s)'
  BY <1>1, <1>2, WriteEnded
<1>4. /\ submitted' = submitted /\ received' = received
      /\ \A d \in Clients \ {c} : obj'[d] = obj[d] /\ flight'[d] = flight[d]
      /\ \A f \in {"phase", "sock", "connected", "logined", "sid", "sync_sid_pending",
                   "heartbeat_timer"} : obj'[c][f] = obj[c][f]
      /\ obj[c].qwiobuff # <<>> /\ Head(obj[c].qwiobuff) \in Packet
      /\ obj'[c].cwiobuff = Head(obj[c].qwiobuff) /\ obj'[c].qwiobuff = Tail(obj[c].qwiobuff)
      /\ flight'[c] = Append(flight[c], Head(obj[c].qwiobuff))
      /\ obj'[c].cwiobuff # NoPkt
  BY SendMore
<1>5. /\ obj'[c].phase = obj[c].phase /\ obj'[c].connected = obj[c].connected
      /\ obj'[c].logined = obj[c].logined /\ obj'[c].heartbeat_timer = obj[c].heartbeat_timer
      /\ obj'[c].sid = obj[c].sid /\ obj'[c].sync_sid_pending = obj[c].sync_sid_pending
  BY <1>4
<1>6. obj[c].phase \in {"login", "finished"}
  BY <1>1, TakenEffect DEF IsWrite, Fits
<1>7. StepOf(c)
  BY <1>4 DEF StepOf, IsWrite
<1>8. QueueInv'
  <2>1. \A d \in Clients : obj'[d].phase = obj[d].phase
    BY <1>4, <1>5
  <2> QED BY <1>1, <2>1, QueueKept
<1>9. Phase(c)'
  BY <1>1, <1>5, <1>6 DEF ClientInv, Phase, NoClient
<1>10. Sent(c) => Sent(c)'
  <2>1. PICK r \in Seq(Packet), q \in Seq(Packet) : r = received[c] /\ q = obj[c].qwiobuff
    BY DEF StatusdTypeOK, Object
  <2>2. q # <<>> => r \o <<>> \o q = r \o Append(<<>>, Head(q)) \o Tail(q)
    BY SendHead
  <2> QED BY <1>3, <1>4, <2>1, <2>2 DEF Sent
<1>11. Buffer(c)'
  <2>1. Live(c)' = Live(c) /\ ~Lost(c)'
    BY <1>3, <1>5 DEF Live, Lost
  <2>2. flight'[c] = <<obj'[c].cwiobuff>> /\ flight'[c] # <<>>
    <3>1. PICK p \in Packet : p = Head(obj[c].qwiobuff)
      BY <1>4
    <3>2. Append(<<>>, p) = <<p>> /\ <<p>> # <<>>
      OBVIOUS
    <3> QED BY <1>3, <1>4, <3>1, <3>2
  <2> QED BY <1>1, <1>2, <1>3, <1>4, <1>5, <1>6, <1>10, <2>1, <2>2 DEF ClientInv, Buffer
<1>12. SidInv(c)'
  BY <1>1, <1>2, <1>4, <1>5 DEF ClientInv, SidInv, Object
<1> QED BY <1>7, <1>8, <1>9, <1>11, <1>12, StepKept DEF ClientInv

\* The end of a login, well or not, leaves its client no handler but set_sid.
LEMMA OnlySetSidLeft ==
    ASSUME StatusdTypeOK, QueueInv, NEW c \in Clients, Taken, IsWrite(Head(queue), c),
           obj[c].phase = "login", \A s \in Sids : ~LoginPosted(c, s)
    PROVE  \A i \in DOMAIN queue' : queue'[i].c = c => queue'[i].kind = "set_sid"
<1> SUFFICES ASSUME NEW i \in DOMAIN queue', queue'[i].c = c PROVE queue'[i].kind = "set_sid"
  OBVIOUS
<1>1. /\ i + 1 \in DOMAIN queue /\ queue'[i] = queue[i + 1]
      /\ queue'[i] \in Handlers /\ Fits(queue'[i])
  BY TakenEffect
<1>2. ~Completed(c)'
  BY TakenWrite
<1>3. ~IsWrite(queue'[i], c)
  BY <1>2 DEF Completed
<1>4. queue'[i].kind # "execute"
  BY <1>1 DEF LoginPosted, Handlers
<1> QED BY <1>1, <1>3, <1>4 DEF Fits, Handlers, IsWrite

\* TcpSendState::handle_write: the login goes on, ends or fails.
LEMMA StepLoginWritten ==
    ASSUME StatusdTypeOK, StatusdTypeOK', IInv, login_handle_write
    PROVE  IInv'
<1>1. PICK c \in Clients : c = Head(queue).c
  BY HeadFits DEF login_handle_write
<1>2. /\ Taken /\ Head(queue) \in Handlers /\ Fits(Head(queue)) /\ Head(queue).kind = "login_write"
      /\ QueueInv /\ ClientInv(c) /\ obj[c] \in Object /\ Head(queue).flag \in BOOLEAN
      /\ UNCHANGED <<client, logger>>
  BY <1>1, HeadFits DEF login_handle_write
<1>3. IsWrite(Head(queue), c)
  BY <1>1, <1>2 DEF IsWrite
<1>4. obj[c].phase = "login" /\ obj[c].connected /\ ~obj[c].logined
  BY <1>1, <1>2 DEF Fits, ClientInv, Phase
<1>5. /\ Completed(c) /\ ~Completed(c)' /\ ~Broken(c)' /\ (Broken(c) <=> ~Head(queue).flag)
      /\ \A s \in Sids : LoginPosted(c, s) <=> LoginPosted(c, s)'
  BY <1>2, <1>3, TakenWrite
<1>6. /\ flight[c] = <<>> /\ obj[c].cwiobuff # NoPkt
      /\ \A s \in Sids : ~LoginPosted(c, s) /\ ~LoginPosted(c, s)'
  BY <1>2, <1>5, WriteEnded
<1>7. \A i \in DOMAIN queue' : queue'[i].c = c => queue'[i].kind = "set_sid"
  BY <1>2, <1>3, <1>4, <1>6, OnlySetSidLeft
<1>8. CASE Head(queue).flag /\ send_more(c)
  BY <1>2, <1>3, <1>8, MoreKept
<1>9. CASE Head(queue).flag /\ handle_Login(c)
  <2>1. PICK o \in Object :
           /\ o = [obj[c] EXCEPT !.cwiobuff = NoPkt, !.phase = "finished", !.logined = TRUE,
                                 !.heartbeat_timer = TRUE, !.sync_sid_pending = FALSE]
    BY FieldTypes
  <2>2. /\ o.cwiobuff = NoPkt /\ o.phase = "finished" /\ o.logined /\ o.sid = obj[c].sid
        /\ o.connected /\ o.qwiobuff = obj[c].qwiobuff
    BY <1>2, <1>4, <2>1 DEF Object
  <2>3. o.qwiobuff = <<>> /\ submitted[c] = received[c] \o <<>> \o <<>>
    BY <1>2, <1>4, <1>5, <1>6, <1>9, <2>2 DEF handle_Login, ClientInv, Buffer, Live, Sent
  <2>4. CASE obj[c].sync_sid_pending
    <3>1. PICK pkt \in Packet : pkt = [code |-> "reset_sid", sid |-> o.sid]
      BY DEF Packet, Object
    <3>2. async_write(c, o, pkt)
      BY <1>9, <2>1, <2>4, <3>1 DEF handle_Login
    <3>3. /\ \A d \in Clients \ {c} : /\ obj'[d] = obj[d] /\ flight'[d] = flight[d]
                                      /\ submitted'[d] = submitted[d]
          /\ submitted'[c] = Append(submitted[c], pkt) /\ received' = received
          /\ \A f \in {"phase", "sock", "connected", "logined", "sid", "sync_sid_pending",
                       "heartbeat_timer"} : obj'[c][f] = o[f]
          /\ obj'[c].cwiobuff = pkt /\ obj'[c].qwiobuff = <<>> /\ flight'[c] = Append(<<>>, pkt)
          /\ pkt # NoPkt
      BY <1>6, <2>2, <2>3, <3>2, AsyncWrite, PacketReal
    <3>4. /\ obj'[c].phase = "finished" /\ obj'[c].connected /\ obj'[c].logined
          /\ obj'[c].sid = o.sid
      BY <2>2, <3>3
    <3>5. flight'[c] = <<pkt>> /\ flight'[c] # <<>>
      <4>1. Append(<<>>, pkt) = <<pkt>> /\ <<pkt>> # <<>>
        OBVIOUS
      <4> QED BY <3>3, <4>1
    <3>6. StepOf(c)
      BY <1>1, <1>2, <3>3 DEF StepOf
    <3>7. QueueInv'
      <4>1. \A d \in Clients \ {c} : obj'[d].phase = obj[d].phase
        BY <3>3
      <4> QED BY <1>2, <1>7, <4>1, QueueKept
    <3>8. Phase(c)'
      BY <1>2, <1>4, <3>4 DEF ClientInv, Phase, NoClient
    <3>9. Sent(c)'
      <4>1. PICK r \in Seq(Packet) : r = received[c]
        BY DEF StatusdTypeOK
      <4>2. Append(r \o <<>> \o <<>>, pkt) = r \o <<pkt>> \o <<>>
        OBVIOUS
      <4> QED BY <2>3, <3>3, <3>5, <4>1, <4>2 DEF Sent
    <3>10. Buffer(c)'
      BY <1>5, <1>6, <3>3, <3>4, <3>5, <3>9 DEF Buffer, Lost
    <3>11. SidInv(c)'
      <4>1. submitted[c] \in Seq(Packet) /\ pkt.code # "log" /\ pkt.sid = o.sid
        BY <3>1 DEF StatusdTypeOK
      <4>2. Tells(Append(submitted[c], pkt), pkt.sid)
        BY <4>1, AppendTells
      <4> QED BY <3>3, <3>4, <4>1, <4>2 DEF SidInv
    <3> QED BY <3>6, <3>7, <3>8, <3>10, <3>11, StepKept DEF ClientInv
  <2>5. CASE ~obj[c].sync_sid_pending
    <3>1. /\ obj' = [obj EXCEPT ![c] = o] /\ UNCHANGED wireVars
      BY <1>9, <2>1, <2>5 DEF handle_Login
    <3>2. /\ obj'[c] = o /\ \A d \in Clients \ {c} : obj'[d] = obj[d]
          /\ submitted' = submitted /\ received' = received /\ flight' = flight
      BY <3>1 DEF wireVars, StatusdTypeOK
    <3>3. StepOf(c)
      BY <1>1, <1>2, <3>2 DEF StepOf
    <3>4. QueueInv'
      BY <1>2, <1>7, <3>2, QueueKept
    <3>5. Phase(c)'
      BY <1>2, <1>4, <2>2, <3>2 DEF ClientInv, Phase, NoClient
    <3>6. Sent(c)'
      BY <1>6, <2>3, <3>2 DEF Sent
    <3>7. Buffer(c)'
      BY <1>5, <1>6, <2>2, <2>3, <3>2, <3>6 DEF Buffer, Lost
    <3>8. SidInv(c)'
      BY <1>2, <1>4, <1>6, <2>2, <2>5, <3>2 DEF ClientInv, SidInv, Object
    <3> QED BY <3>3, <3>4, <3>5, <3>7, <3>8, StepKept DEF ClientInv
  <2> QED BY <2>4, <2>5
<1>10. CASE ~Head(queue).flag /\ obj' = [obj EXCEPT ![c].phase = "failed", ![c].logined = FALSE] /\ UNCHANGED wireVars
  <2>1. /\ obj'[c].phase = "failed" /\ ~obj'[c].logined /\ obj'[c].cwiobuff = obj[c].cwiobuff
        /\ \A d \in Clients \ {c} : obj'[d] = obj[d]
        /\ submitted' = submitted /\ received' = received /\ flight' = flight
        /\ obj'[c].heartbeat_timer = obj[c].heartbeat_timer
    BY <1>2, <1>10 DEF wireVars, StatusdTypeOK, Object
  <2>2. StepOf(c)
    BY <1>1, <1>2, <2>1 DEF StepOf
  <2>3. QueueInv'
    BY <1>2, <1>7, <2>1, QueueKept
  <2>4. Phase(c)'
    BY <1>2, <1>4, <2>1 DEF ClientInv, Phase, NoClient
  <2>5. Buffer(c)'
    BY <1>5, <1>6, <2>1 DEF Buffer, Live
  <2>6. SidInv(c)'
    BY <2>1 DEF SidInv
  <2> QED BY <2>2, <2>3, <2>4, <2>5, <2>6, StepKept DEF ClientInv
<1> QED BY <1>1, <1>8, <1>9, <1>10 DEF login_handle_write
\* StatusdClient::handle_write: the next packet goes, none waits, or the
\* connection broke.
LEMMA StepWritten ==
    ASSUME StatusdTypeOK, IInv, handle_write
    PROVE  IInv'
<1>1. PICK c \in Clients : c = Head(queue).c
  BY HeadFits DEF handle_write
<1>2. /\ Taken /\ Head(queue) \in Handlers /\ Fits(Head(queue)) /\ Head(queue).kind = "write"
      /\ QueueInv /\ ClientInv(c) /\ obj[c] \in Object /\ Head(queue).flag \in BOOLEAN
      /\ UNCHANGED <<client, logger>>
  BY <1>1, HeadFits DEF handle_write
<1>3. IsWrite(Head(queue), c)
  BY <1>1, <1>2 DEF IsWrite
<1>4. obj[c].phase = "finished"
  BY <1>1, <1>2 DEF Fits
<1>5. /\ Completed(c) /\ ~Completed(c)' /\ ~Broken(c)' /\ (Broken(c) <=> ~Head(queue).flag)
      /\ \A s \in Sids : LoginPosted(c, s) <=> LoginPosted(c, s)'
  BY <1>2, <1>3, TakenWrite
<1>6. /\ flight[c] = <<>> /\ obj[c].cwiobuff # NoPkt /\ ~Lost(c)
      /\ \A s \in Sids : ~LoginPosted(c, s) /\ ~LoginPosted(c, s)'
  BY <1>2, <1>5, WriteEnded
<1>7. CASE Head(queue).flag /\ send_more(c)
  BY <1>2, <1>3, <1>7, MoreKept
<1>8. ASSUME obj'[c].phase = "finished", UNCHANGED wireVars,
             \A d \in Clients \ {c} : obj'[d] = obj[d],
             obj'[c].connected = obj[c].connected, obj'[c].logined => obj[c].logined,
             obj'[c].sid = obj[c].sid, obj'[c].qwiobuff = obj[c].qwiobuff, Buffer(c)'
      PROVE  IInv'
  <2>1. submitted' = submitted /\ received' = received /\ flight' = flight
    BY <1>8 DEF wireVars
  <2>2. StepOf(c)
    BY <1>1, <1>2, <1>8, <2>1 DEF StepOf
  <2>3. QueueInv'
    <3>1. \A d \in Clients : obj'[d].phase = obj[d].phase
      BY <1>4, <1>8
    <3> QED BY <1>2, <3>1, QueueKept
  <2>4. Phase(c)'
    BY <1>2, <1>4, <1>8, <2>1 DEF ClientInv, Phase, NoClient
  <2>5. SidInv(c)'
    BY <1>2, <1>8, <2>1 DEF ClientInv, SidInv
  <2> QED BY <1>8, <2>2, <2>3, <2>4, <2>5, StepKept DEF ClientInv
<1>9. CASE /\ Head(queue).flag /\ obj[c].qwiobuff = <<>>
           /\ obj' = [obj EXCEPT ![c].cwiobuff = NoPkt] /\ UNCHANGED wireVars
  <2>1. /\ obj'[c].cwiobuff = NoPkt /\ \A d \in Clients \ {c} : obj'[d] = obj[d]
        /\ \A f \in {"phase", "connected", "logined", "sid", "qwiobuff"} : obj'[c][f] = obj[c][f]
        /\ submitted' = submitted /\ received' = received /\ flight' = flight
    BY <1>2, <1>9 DEF wireVars, StatusdTypeOK, Object
  <2>2. /\ obj'[c].phase = obj[c].phase /\ obj'[c].connected = obj[c].connected
        /\ obj'[c].logined = obj[c].logined /\ obj'[c].sid = obj[c].sid
        /\ obj'[c].qwiobuff = obj[c].qwiobuff
    BY <2>1
  <2>3. Live(c)' = Live(c) /\ ~Lost(c)' /\ Sent(c)' = Sent(c)
    BY <1>6, <2>1, <2>2 DEF Live, Lost, Sent
  <2>4. Buffer(c)'
    BY <1>2, <1>4, <1>5, <1>6, <1>9, <2>1, <2>2, <2>3 DEF ClientInv, Buffer
  <2> QED BY <1>4, <1>8, <1>9, <2>1, <2>2, <2>4
<1>10. CASE ~Head(queue).flag /\ obj' = [obj EXCEPT ![c].logined = FALSE] /\ UNCHANGED wireVars
  <2>1. /\ ~obj'[c].logined /\ \A d \in Clients \ {c} : obj'[d] = obj[d]
        /\ \A f \in {"phase", "connected", "cwiobuff", "sid", "qwiobuff"} : obj'[c][f] = obj[c][f]
        /\ submitted' = submitted /\ received' = received /\ flight' = flight
    BY <1>2, <1>10 DEF wireVars, StatusdTypeOK, Object
  <2>2. /\ obj'[c].phase = obj[c].phase /\ obj'[c].connected = obj[c].connected
        /\ obj'[c].cwiobuff = obj[c].cwiobuff /\ obj'[c].sid = obj[c].sid
        /\ obj'[c].qwiobuff = obj[c].qwiobuff
    BY <2>1
  <2>3. Buffer(c)'
    BY <1>4, <1>5, <1>6, <2>1, <2>2 DEF Buffer, Live
  <2> QED BY <1>4, <1>8, <1>10, <2>1, <2>2, <2>3
<1> QED BY <1>1, <1>7, <1>9, <1>10 DEF handle_write

\* inner_set_sid: the id is kept, and told at once when the client is logged in.
LEMMA StepSetSid ==
    ASSUME StatusdTypeOK, StatusdTypeOK', IInv, inner_set_sid
    PROVE  IInv'
<1>1. PICK c \in Clients, sid \in Sids : c = Head(queue).c /\ sid = Head(queue).sid
  BY HeadFits DEF inner_set_sid
<1>2. /\ Taken /\ Head(queue) \in Handlers /\ Fits(Head(queue)) /\ Head(queue).kind = "set_sid"
      /\ QueueInv /\ ClientInv(c) /\ obj[c] \in Object /\ Head(queue).flag \in BOOLEAN
      /\ UNCHANGED <<client, logger>>
  BY <1>1, HeadFits DEF inner_set_sid
<1>3. SameHandlers(c)
  BY <1>1, <1>2, TakenOther
<1>4. PICK o \in Object : o = [obj[c] EXCEPT !.sid = sid]
  BY FieldTypes
<1>5. PICK p \in Object : p = [o EXCEPT !.sync_sid_pending = TRUE]
  BY DEF Object
<1>6. /\ \A f \in {"phase", "sock", "connected", "logined", "heartbeat_timer", "cwiobuff", "qwiobuff"} :
             o[f] = obj[c][f] /\ p[f] = obj[c][f]
      /\ o.sid = sid /\ p.sid = sid /\ p.sync_sid_pending /\ o.sync_sid_pending = obj[c].sync_sid_pending
  BY <1>2, <1>4, <1>5 DEF Object
<1>7. CASE UNCHANGED obj /\ UNCHANGED wireVars
  <2>1. \A d \in Clients : /\ obj'[d] = obj[d] /\ flight'[d] = flight[d]
                           /\ submitted'[d] = submitted[d] /\ received'[d] = received[d]
    BY <1>7 DEF wireVars
  <2>2. StepOf(c)
    BY <1>1, <1>2, <2>1 DEF StepOf
  <2>3. QueueInv'
    BY <1>2, <2>1, QueueKept
  <2>4. ClientInv(c)'
    BY <1>2, <1>3, <2>1, ClientKept
  <2> QED BY <2>2, <2>3, <2>4, StepKept
<1>8. ASSUME NEW q \in Object, obj' = [obj EXCEPT ![c] = q], UNCHANGED wireVars,
             \A f \in {"phase", "sock", "connected", "logined", "heartbeat_timer", "cwiobuff", "qwiobuff"} :
                q[f] = obj[c][f],
             q.sid = sid,
             (q.sync_sid_pending /\ ~q.logined) \/ sid = NoSid
      PROVE  IInv'
  <2>1. /\ obj'[c] = q /\ \A d \in Clients \ {c} : obj'[d] = obj[d]
        /\ submitted' = submitted /\ received' = received /\ flight' = flight
    BY <1>8 DEF wireVars, StatusdTypeOK
  <2>2. /\ q.phase = obj[c].phase /\ q.connected = obj[c].connected /\ q.logined = obj[c].logined
        /\ q.heartbeat_timer = obj[c].heartbeat_timer /\ q.cwiobuff = obj[c].cwiobuff
        /\ q.qwiobuff = obj[c].qwiobuff
    BY <1>8
  <2>3. StepOf(c)
    BY <1>1, <1>2, <2>1 DEF StepOf
  <2>4. QueueInv'
    <3>1. \A d \in Clients : obj'[d].phase = obj[d].phase
      BY <2>1, <2>2
    <3> QED BY <1>2, <3>1, QueueKept
  <2>5. Phase(c)'
    <3>1. ~(c > client)
      BY <1>1, <1>2 DEF Fits, StatusdTypeOK, Clients
    <3> QED BY <1>2, <2>1, <2>2, <3>1 DEF ClientInv, Phase
  <2>6. Buffer(c)'
    BY <1>2, <1>3, <2>1, <2>2 DEF ClientInv, Buffer, Live, Lost, Sent, SameHandlers
  <2>7. SidInv(c)'
    BY <1>8, <2>1 DEF SidInv
  <2> QED BY <2>3, <2>4, <2>5, <2>6, <2>7, StepKept DEF ClientInv
<1>9. ASSUME NEW pkt \in Packet, pkt = [code |-> "reset_sid", sid |-> sid], async_write(c, o, pkt), o.logined
      PROVE  IInv'
  <2>1. obj[c].phase = "finished" /\ obj[c].logined
    BY <1>2, <1>6, <1>9 DEF ClientInv, Phase
  <2>2. /\ \A d \in Clients \ {c} : /\ obj'[d] = obj[d] /\ flight'[d] = flight[d]
                                    /\ submitted'[d] = submitted[d]
        /\ submitted'[c] = Append(submitted[c], pkt) /\ received' = received
        /\ \A f \in {"phase", "sock", "connected", "logined", "sid", "sync_sid_pending",
                     "heartbeat_timer"} : obj'[c][f] = o[f]
    BY <1>9, AsyncWrite
  <2>3. obj'[c].phase = "finished" /\ obj'[c].sid = sid
    BY <1>6, <2>1, <2>2
  <2>4. StepOf(c)
    BY <1>1, <1>2, <2>2 DEF StepOf
  <2>5. QueueInv'
    <3>1. \A d \in Clients : obj'[d].phase = obj[d].phase
      BY <2>1, <2>2, <2>3
    <3> QED BY <1>2, <3>1, QueueKept
  <2>6. \A s \in Sids : ~LoginPosted(c, s)'
    BY <2>3, <2>5, NoLoginPostedNext
  <2>7. Phase(c)' /\ Buffer(c)'
    BY <1>2, <1>3, <1>6, <1>9, <2>1, <2>6, WriteKept DEF SameHandlers
  <2>8. SidInv(c)'
    <3>1. submitted[c] \in Seq(Packet) /\ pkt.code # "log" /\ pkt.sid = sid
      BY <1>9 DEF StatusdTypeOK
    <3>2. Tells(Append(submitted[c], pkt), pkt.sid)
      BY <3>1, AppendTells
    <3> QED BY <2>2, <2>3, <3>1, <3>2 DEF SidInv
  <2> QED BY <2>4, <2>5, <2>7, <2>8, StepKept DEF ClientInv
<1>10. PICK pkt \in Packet : pkt = [code |-> "reset_sid", sid |-> sid]
  BY DEF Packet
<1>11. \/ UNCHANGED obj /\ UNCHANGED wireVars
       \/ ~o.logined /\ obj' = [obj EXCEPT ![c] = p] /\ UNCHANGED wireVars
       \/ ~Head(queue).flag /\ obj' = [obj EXCEPT ![c] = o] /\ UNCHANGED wireVars
       \/ o.logined /\ async_write(c, o, pkt)
  BY <1>1, <1>4, <1>5, <1>10 DEF inner_set_sid
<1>12. CASE ~o.logined /\ obj' = [obj EXCEPT ![c] = p] /\ UNCHANGED wireVars
  <2>1. ~p.logined
    BY <1>6, <1>12
  <2> QED BY <1>6, <1>8, <1>12, <2>1
<1>13. CASE ~Head(queue).flag /\ obj' = [obj EXCEPT ![c] = o] /\ UNCHANGED wireVars
  <2>1. sid = NoSid
    BY <1>1, <1>2, <1>13 DEF Fits
  <2> QED BY <1>6, <1>8, <1>13, <2>1
<1> QED BY <1>7, <1>9, <1>10, <1>11, <1>12, <1>13
\* A log line is submitted: by the logger or by the heartbeat, to a client
\* that has finished its login.
LEMMA LogKept ==
    ASSUME StatusdTypeOK, StatusdTypeOK', IInv, NEW c \in Clients, obj[c].phase = "finished",
           async_write(c, obj[c], LogPkt), UNCHANGED <<client, logger>>,
           queue' = queue \/ (Taken /\ Head(queue).c = c /\ Head(queue).kind = "log")
    PROVE  IInv'
<1>1. QueueInv /\ ClientInv(c) /\ obj[c] \in Object /\ LogPkt \in Packet
  <2>1. LogPkt \in Packet
    BY StatusdAssumption DEF LogPkt, Packet, Sids, NoSid
  <2> QED BY <2>1 DEF IInv, StatusdTypeOK
<1>2. SameHandlers(c)
  <2>1. CASE queue' = queue
    BY <2>1 DEF SameHandlers, Completed, Broken, LoginPosted
  <2>2. CASE Taken /\ Head(queue).c = c /\ Head(queue).kind = "log"
    BY <1>1, <2>2, TakenOther
  <2> QED BY <2>1, <2>2
<1>3. /\ \A d \in Clients \ {c} : /\ obj'[d] = obj[d] /\ flight'[d] = flight[d]
                                  /\ submitted'[d] = submitted[d]
      /\ submitted'[c] = Append(submitted[c], LogPkt) /\ received' = received
      /\ \A f \in {"phase", "sock", "connected", "logined", "sid", "sync_sid_pending",
                   "heartbeat_timer"} : obj'[c][f] = obj[c][f]
  BY <1>1, AsyncWrite
<1>4. obj'[c].phase = "finished" /\ obj'[c].sid = obj[c].sid /\ obj'[c].logined = obj[c].logined
  BY <1>3
<1>5. StepOf(c)
  BY <1>3 DEF StepOf
<1>6. QueueInv'
  <2>1. \A d \in Clients : obj'[d].phase = obj[d].phase
    BY <1>3, <1>4
  <2> QED BY <1>1, <2>1, QueueKept
<1>7. \A s \in Sids : ~LoginPosted(c, s)'
  BY <1>4, <1>6, NoLoginPostedNext
<1>8. Phase(c)' /\ Buffer(c)'
  BY <1>1, <1>2, <1>7, WriteKept DEF SameHandlers
<1>9. SidInv(c)'
  <2>1. submitted[c] \in Seq(Packet) /\ LogPkt.code = "log"
    BY DEF StatusdTypeOK, LogPkt
  <2>2. \A sid : Tells(submitted[c], sid) => Tells(Append(submitted[c], LogPkt), sid)
    BY <1>1, <2>1, AppendTells
  <2> QED BY <1>1, <1>3, <1>4, <2>2 DEF ClientInv, SidInv
<1> QED BY <1>5, <1>6, <1>8, <1>9, StepKept DEF ClientInv

\* handle_Connect: the login is posted, with the id of now.
LEMMA StepConnected ==
    ASSUME StatusdTypeOK, IInv, NEW c \in Clients, handle_Connect(c)
    PROVE  IInv'
<1>1. QueueInv /\ ClientInv(c) /\ obj[c] \in Object /\ obj[c].phase = "connecting"
  BY DEF IInv, StatusdTypeOK, handle_Connect
<1>2. PICK h \in Handlers : /\ h.c = c /\ h.kind = "execute" /\ h.sid = obj[c].sid
                            /\ queue' = Append(queue, h)
  <2>1. obj[c].sid \in Sids
    BY <1>1 DEF Object
  <2>2. Handler("execute", c, obj[c].sid, FALSE) \in Handlers
    BY <2>1 DEF Handler, Handlers
  <2>3. queue' = Append(queue, Handler("execute", c, obj[c].sid, FALSE))
    BY DEF handle_Connect
  <2> QED BY <2>2, <2>3 DEF Handler
<1>3. /\ obj'[c].phase = "login" /\ obj'[c].connected /\ obj'[c].logined = obj[c].logined
      /\ obj'[c].cwiobuff = obj[c].cwiobuff /\ obj'[c].qwiobuff = obj[c].qwiobuff
      /\ obj'[c].heartbeat_timer = obj[c].heartbeat_timer /\ obj'[c].sid = obj[c].sid
      /\ \A d \in Clients \ {c} : obj'[d] = obj[d]
  BY <1>1 DEF handle_Connect, StatusdTypeOK, Object
<1>4. /\ submitted' = submitted /\ received' = received /\ flight' = flight
      /\ client' = client /\ logger' = logger
  BY DEF handle_Connect, wireVars
<1>5. StepOf(c)
  BY <1>2, <1>3, <1>4 DEF StepOf
<1>6. /\ obj[c].cwiobuff = NoPkt /\ flight[c] = <<>> /\ obj[c].qwiobuff = <<>> /\ ~obj[c].logined
      /\ submitted[c] = <<>> /\ received[c] = <<>> /\ ~Completed(c)
      /\ ~obj[c].heartbeat_timer /\ logger # c /\ ~(c > client)
  BY <1>1 DEF ClientInv, Phase, Buffer, NoClient, Object
<1>7. /\ ~Completed(c)'
      /\ LoginPosted(c, obj[c].sid)'
  <2>1. PICK sid \in Sids : sid = obj[c].sid
    BY <1>1 DEF Object
  <2>2. ~IsWrite(h, c)
    BY <1>2 DEF IsWrite
  <2>3. ~Completed(c)' /\ LoginPosted(c, sid)'
    BY <1>2, <1>6, <2>1, <2>2, PostEffect
  <2> QED BY <1>3, <2>1, <2>3
<1>8. QueueInv'
  <2>1. \A i \in DOMAIN queue : ~(queue[i].c = h.c /\ queue[i].kind \in {"execute"})
    BY <1>1, <1>2 DEF QueueInv, Fits
  <2>2. Single({"connect"})' /\ Single({"execute"})' /\ Single({"write", "login_write"})'
    <3>1. h.kind \notin {"connect"} /\ h.kind \notin {"write", "login_write"}
      BY <1>2
    <3>2. \A k : Single(k) /\ h.kind \notin k => Single(k)'
      BY <1>2, PostEffect
    <3>3. \A k : Single(k) /\ (\A i \in DOMAIN queue : ~(queue[i].c = h.c /\ queue[i].kind \in k))
                 => Single(k)'
      BY <1>2, PostEffect
    <3> QED BY <1>1, <2>1, <3>1, <3>2, <3>3 DEF QueueInv
  <2>3. h.c \in 1 .. client
    BY <1>2, <1>6 DEF Clients, StatusdTypeOK
  <2>4. \A d \in Clients : obj'[d].phase = obj[d].phase \/ obj[d].phase \notin {"new", "login", "finished"}
    BY <1>1, <1>3
  <2> QED BY <1>1, <1>2, <1>3, <1>4, <2>2, <2>3, <2>4, QueuePosted
<1>9. Phase(c)'
  BY <1>3, <1>4, <1>6 DEF Phase
<1>10. Sent(c)'
  <2>1. <<>> = <<>> \o <<>> \o <<>>
    OBVIOUS
  <2> QED BY <1>3, <1>4, <1>6, <2>1 DEF Sent
<1>11. Buffer(c)'
  BY <1>3, <1>4, <1>6, <1>7, <1>10 DEF Buffer, Lost
<1>12. SidInv(c)'
  BY <1>3, <1>6, <1>7 DEF SidInv
<1> QED BY <1>5, <1>8, <1>9, <1>11, <1>12, StepKept DEF ClientInv

\* The connect fails for good: nothing was ever submitted.
LEMMA StepConnectFailed ==
    ASSUME StatusdTypeOK, IInv, NEW c \in Clients, connect_failed(c)
    PROVE  IInv'
<1>1. QueueInv /\ ClientInv(c) /\ obj[c] \in Object /\ obj[c].phase = "connecting"
  BY DEF IInv, StatusdTypeOK, connect_failed
<1>2. /\ obj'[c].phase = "failed" /\ obj'[c].connected = obj[c].connected /\ ~obj'[c].logined
      /\ obj'[c].cwiobuff = obj[c].cwiobuff /\ obj'[c].qwiobuff = obj[c].qwiobuff
      /\ obj'[c].heartbeat_timer = obj[c].heartbeat_timer
      /\ \A d \in Clients \ {c} : obj'[d] = obj[d]
  BY <1>1 DEF connect_failed, StatusdTypeOK, Object
<1>3. /\ submitted' = submitted /\ received' = received /\ flight' = flight
      /\ client' = client /\ logger' = logger /\ queue' = queue
  BY DEF connect_failed, wireVars
<1>4. StepOf(c)
  BY <1>2, <1>3 DEF StepOf
<1>5. QueueInv'
  <2>1. \A d \in Clients : obj'[d].phase = obj[d].phase \/ obj[d].phase \notin {"new", "login", "finished"}
    BY <1>1, <1>2
  <2> QED BY <1>1, <1>3, <2>1, QueueKept
<1>6. SameHandlers(c)
  BY <1>3 DEF SameHandlers, Completed, Broken, LoginPosted
<1>7. Phase(c)'
  BY <1>1, <1>2, <1>3 DEF ClientInv, Phase, NoClient
<1>8. Buffer(c)'
  BY <1>1, <1>2, <1>3, <1>6 DEF ClientInv, Phase, Buffer, Live, Lost, SameHandlers
<1>9. SidInv(c)'
  BY <1>2 DEF SidInv
<1> QED BY <1>4, <1>5, <1>7, <1>8, <1>9, StepKept DEF ClientInv

\* A packet at the head of the socket has reached the server.
LEMMA ReceiveHead ==
    ASSUME NEW r \in Seq(Packet), NEW q \in Seq(Packet), NEW p \in Packet
    PROVE  r \o <<p>> \o q = Append(r, p) \o <<>> \o q
OBVIOUS

\* A write ends, well or not, and its handler is posted.
LEMMA StepWriteComplete ==
    ASSUME StatusdTypeOK, IInv, NEW c \in Clients, NEW ok \in BOOLEAN, WriteComplete(c, ok)
    PROVE  IInv'
<1>1. QueueInv /\ ClientInv(c) /\ obj[c] \in Object /\ flight[c] # <<>>
  BY DEF IInv, StatusdTypeOK, WriteComplete
<1>2. /\ flight[c] = <<obj[c].cwiobuff>> /\ ~Completed(c) /\ obj[c].cwiobuff # NoPkt
      /\ ~Lost(c) /\ obj[c].phase # "failed" /\ \A s \in Sids : ~LoginPosted(c, s)
  BY <1>1 DEF ClientInv, Buffer
<1>3. PICK p \in Packet : p = obj[c].cwiobuff
  BY <1>1, <1>2 DEF Object
<1>4. obj[c].phase \in {"login", "finished"}
  BY <1>1, <1>2 DEF ClientInv, Phase, Object
<1>5. PICK h \in Handlers : /\ h.c = c /\ h.kind = IF obj[c].phase = "login" THEN "login_write" ELSE "write"
                            /\ h.flag = ok /\ queue' = Append(queue, h)
  <2>1. NoSid \in Sids
    BY StatusdAssumption DEF NoSid, Sids
  <2>2. Handler(IF obj[c].phase = "login" THEN "login_write" ELSE "write", c, NoSid, ok) \in Handlers
    BY <2>1, HandlerType
  <2> QED BY <2>2 DEF WriteComplete, Handler
<1>6. /\ flight' = [flight EXCEPT ![c] = <<>>]
      /\ received' = IF ok THEN [received EXCEPT ![c] = Append(@, p)] ELSE received
      /\ obj' = obj /\ submitted' = submitted /\ client' = client /\ logger' = logger
  <2>1. Tail(flight[c]) = <<>> /\ Head(flight[c]) = p
    <3>1. Tail(<<p>>) = <<>> /\ Head(<<p>>) = p
      OBVIOUS
    <3> QED BY <1>2, <1>3, <3>1
  <2> QED BY <2>1 DEF WriteComplete
<1>7. /\ flight'[c] = <<>> /\ \A d \in Clients \ {c} : flight'[d] = flight[d] /\ received'[d] = received[d]
      /\ ok => received'[c] = Append(received[c], p)
  BY <1>6 DEF StatusdTypeOK
<1>8. StepOf(c)
  BY <1>5, <1>6, <1>7 DEF StepOf
<1>9. /\ Completed(c)'
      /\ Broken(c)' <=> Broken(c) \/ ~ok
      /\ \A s \in Sids : ~LoginPosted(c, s)'
  <2>1. IsWrite(h, c) /\ h.kind # "execute"
    BY <1>5 DEF IsWrite
  <2> QED BY <1>2, <1>5, <2>1, PostEffect
<1>10. QueueInv'
  <2>1. \A i \in DOMAIN queue : ~(queue[i].c = h.c /\ queue[i].kind \in {"write", "login_write"})
    BY <1>2, <1>5 DEF Completed, IsWrite
  <2>2. Single({"connect"})' /\ Single({"execute"})' /\ Single({"write", "login_write"})'
    <3>1. h.kind \notin {"connect"} /\ h.kind \notin {"execute"}
      BY <1>5
    <3>2. \A k : Single(k) /\ h.kind \notin k => Single(k)'
      BY <1>5, PostEffect
    <3>3. \A k : Single(k) /\ (\A i \in DOMAIN queue : ~(queue[i].c = h.c /\ queue[i].kind \in k))
                 => Single(k)'
      BY <1>5, PostEffect
    <3> QED BY <1>1, <2>1, <3>1, <3>2, <3>3 DEF QueueInv
  <2>3. h.c \in 1 .. client
    <3>1. ~(c > client)
      BY <1>1, <1>4 DEF ClientInv, Phase, NoClient
    <3> QED BY <1>5, <3>1 DEF Clients, StatusdTypeOK
  <2>4. \A d \in Clients : obj'[d].phase = obj[d].phase
    BY <1>6
  <2> QED BY <1>1, <1>4, <1>5, <1>6, <2>2, <2>3, <2>4, QueuePosted
<1>11. Phase(c)'
  BY <1>1, <1>4, <1>6 DEF ClientInv, Phase, NoClient
<1>12. Sent(c) /\ ok => Sent(c)'
  <2>1. PICK r \in Seq(Packet), q \in Seq(Packet) : r = received[c] /\ q = obj[c].qwiobuff
    BY <1>1 DEF StatusdTypeOK, Object
  <2>2. r \o <<p>> \o q = Append(r, p) \o <<>> \o q
    BY ReceiveHead
  <2> QED BY <1>2, <1>3, <1>6, <1>7, <2>1, <2>2 DEF Sent
<1>13. Buffer(c)'
  <2>1. Live(c)' = Live(c) /\ Lost(c)' = Lost(c)
    BY <1>6 DEF Live, Lost
  <2> QED BY <1>1, <1>2, <1>6, <1>7, <1>9, <1>12, <2>1 DEF ClientInv, Buffer
<1>14. SidInv(c)'
  BY <1>1, <1>2, <1>6, <1>9 DEF ClientInv, SidInv, Object
<1> QED BY <1>8, <1>10, <1>11, <1>13, <1>14, StepKept DEF ClientInv
\* handle_statusd_timeout: a client that is stopped has nothing on the
\* socket, and the one that replaces it was never used.
LEMMA StepTimeout ==
    ASSUME StatusdTypeOK, IInv, handle_statusd_timeout
    PROVE  IInv'
<1>1. PICK n \in Clients : n = client + 1
  BY StatusdAssumption DEF handle_statusd_timeout, StatusdTypeOK, Clients
<1>2. /\ QueueInv /\ client \in Nat /\ client' = n /\ \A d \in Clients : ClientInv(d) /\ obj[d] \in Object
      /\ flight' = flight /\ submitted' = submitted /\ received' = received /\ logger' = logger
  BY <1>1 DEF IInv, StatusdTypeOK, handle_statusd_timeout, wireVars
<1>3. PICK h \in Handlers : h.c = n /\ h.kind = "connect" /\ queue' = Append(queue, h)
  <2>1. NoSid \in Sids
    BY StatusdAssumption DEF NoSid, Sids
  <2>2. Handler("connect", client + 1, NoSid, FALSE) \in Handlers
    BY <1>1, <2>1 DEF Handler, Handlers
  <2> QED BY <1>1, <2>2 DEF handle_statusd_timeout, Handler
<1>4. /\ client # 0 => client \in Clients /\ obj'[client] = stop(obj[client])
                       /\ obj[client].phase \in {"finished", "failed"} /\ ~obj[client].logined
      /\ obj'[n] = [NoClient EXCEPT !.phase = "new"]
      /\ \A d \in Clients : d # client /\ d # n => obj'[d] = obj[d]
      /\ n # client
  <2>1. obj' = [c \in Clients |-> IF c = client THEN stop(obj[c])
                                  ELSE IF c = n THEN [NoClient EXCEPT !.phase = "new"]
                                  ELSE obj[c]]
    BY <1>1 DEF handle_statusd_timeout
  <2>2. n # client /\ (client # 0 => client \in Clients)
    BY <1>1, <1>2 DEF Clients, StatusdTypeOK
  <2>3. client # 0 => obj[client].phase \in {"finished", "failed"} /\ ~obj[client].logined
    BY DEF handle_statusd_timeout, Settled
  <2>4. client # 0 => obj'[client] = stop(obj[client])
    BY <2>1, <2>2
  <2>5. obj'[n] = [NoClient EXCEPT !.phase = "new"]
    BY <2>1, <2>2
  <2> QED BY <2>1, <2>2, <2>3, <2>4, <2>5
<1>5. \A i \in DOMAIN queue : queue[i] \in Handlers /\ Fits(queue[i]) /\ queue[i].c # n
  BY <1>1, <1>2 DEF QueueInv, Fits, StatusdTypeOK
<1>6. \A d \in Clients : /\ Completed(d)' <=> Completed(d)
                         /\ Broken(d)' <=> Broken(d)
                         /\ \A s \in Sids : LoginPosted(d, s)' <=> LoginPosted(d, s)
  <2>1. h.kind # "execute" /\ \A d \in Clients : ~IsWrite(h, d)
    BY <1>3 DEF IsWrite
  <2> QED BY <1>3, <2>1, PostEffect
<1>7. QueueInv'
  <2>1. Single({"connect"})' /\ Single({"execute"})' /\ Single({"write", "login_write"})'
    <3>1. h.kind \notin {"execute"} /\ h.kind \notin {"write", "login_write"}
      BY <1>3
    <3>2. \A k : Single(k) /\ h.kind \notin k => Single(k)'
      BY <1>3, PostEffect
    <3>3. \A k : Single(k) /\ (\A i \in DOMAIN queue : ~(queue[i].c = h.c /\ queue[i].kind \in k))
                 => Single(k)'
      BY <1>3, PostEffect
    <3> QED BY <1>2, <1>3, <1>5, <3>1, <3>2, <3>3 DEF QueueInv
  <2>2. ASSUME NEW i \in DOMAIN queue' PROVE Fits(queue[i])'
    <3>1. queue'[i] = h \/ (i \in DOMAIN queue /\ queue'[i] = queue[i])
      BY <1>3, PostEffect
    <3>2. CASE queue'[i] = h
      <4>1. obj'[n].phase = "new" /\ n \in 1 .. n
        BY <1>1, <1>2, <1>4 DEF NoClient
      <4> QED BY <1>2, <1>3, <3>2, <4>1 DEF Fits
    <3>3. CASE i \in DOMAIN queue /\ queue'[i] = queue[i]
      <4>1. PICK g \in Handlers : g = queue[i] /\ Fits(g) /\ g.c # n
        BY <1>5, <3>3
      <4>2. g.c \in Clients /\ g.c \in 1 .. client'
        BY <1>1, <1>2, <4>1 DEF Handlers, Fits
      <4>3. obj'[g.c].phase = obj[g.c].phase
        <5>1. CASE g.c = client
          <6>1. obj[g.c] \in Object /\ obj'[g.c] = stop(obj[g.c])
            BY <1>2, <1>4, <4>2, <5>1 DEF Clients
          <6> QED BY <6>1 DEF stop, Object
        <5>2. CASE g.c # client
          BY <1>4, <4>1, <4>2, <5>2
        <5> QED BY <5>1, <5>2
      <4> QED BY <3>3, <4>1, <4>2, <4>3 DEF Fits
    <3> QED BY <3>1, <3>2, <3>3
  <2> QED BY <2>1, <2>2 DEF QueueInv
<1>8. ASSUME NEW d \in Clients, d # client, d # n PROVE ClientInv(d)'
  <2>1. d > client' => d > client
    BY <1>1, <1>2 DEF Clients
  <2>2. SameHandlers(d)
    BY <1>6 DEF SameHandlers
  <2> QED BY <1>2, <1>4, <1>8, <2>1, <2>2, ClientKept
<1>9. ClientInv(n)'
  <2>0. n > client /\ Phase(n)
    BY <1>1, <1>2 DEF ClientInv
  <2>1. obj[n] = NoClient /\ submitted[n] = <<>> /\ received[n] = <<>> /\ logger # n
    <3>1. obj[n] = NoClient
      BY <2>0 DEF Phase
    <3>2. obj[n].phase = "none"
      BY <3>1 DEF NoClient
    <3> QED BY <2>0, <3>1, <3>2 DEF Phase
  <2>2. /\ obj'[n].phase = "new" /\ obj'[n].cwiobuff = NoPkt /\ obj'[n].qwiobuff = <<>>
        /\ ~obj'[n].connected /\ ~obj'[n].logined /\ ~obj'[n].heartbeat_timer
    BY <1>4 DEF NoClient
  <2>3. flight[n] = <<>> /\ ~Completed(n)'
    BY <1>2, <1>6, <2>1 DEF ClientInv, Buffer, NoClient
  <2>4. Phase(n)'
    BY <1>1, <1>2, <2>1, <2>2 DEF Phase
  <2>5. Buffer(n)'
    BY <1>2, <2>1, <2>2, <2>3 DEF Buffer, Live, Lost
  <2>6. SidInv(n)'
    BY <2>2 DEF SidInv
  <2> QED BY <2>4, <2>5, <2>6 DEF ClientInv
<1>10. CASE client # 0
  <2>1. PICK c \in Clients : c = client
    BY <1>4, <1>10
  <2>2. /\ obj'[c] = stop(obj[c]) /\ obj[c].phase \in {"finished", "failed"} /\ ~obj[c].logined
        /\ ClientInv(c) /\ obj[c] \in Object
    BY <1>2, <1>4, <1>10, <2>1
  <2>3. /\ obj'[c].phase = obj[c].phase /\ ~obj'[c].logined /\ ~obj'[c].heartbeat_timer /\ ~obj'[c].connected
    BY <2>2 DEF stop, Object
  <2>4. ~Live(c)' /\ ~Lost(c)'
    BY <2>2, <2>3 DEF Live, Lost
  <2>5. ASSUME obj[c].connected PROVE flight[c] = <<>> /\ ~Completed(c)
    BY <2>2, <2>5 DEF ClientInv, Buffer, Lost
  <2>6. Buffer(c)'
    <3>1. CASE obj[c].connected
      <4>1. obj'[c].cwiobuff = NoPkt /\ obj'[c].qwiobuff = <<>>
        BY <2>2, <3>1 DEF stop, Object
      <4> QED BY <1>2, <1>6, <2>2, <2>4, <2>5, <3>1, <4>1 DEF ClientInv, Buffer
    <3>2. CASE ~obj[c].connected
      <4>1. obj'[c].cwiobuff = obj[c].cwiobuff /\ obj'[c].qwiobuff = obj[c].qwiobuff
        BY <2>2, <3>2 DEF stop, Object
      <4> QED BY <1>2, <1>6, <2>2, <2>3, <2>4, <4>1 DEF ClientInv, Buffer
    <3> QED BY <3>1, <3>2
  <2>7. Phase(c)'
    <3>1. ~(c > client')
      BY <1>1, <1>2, <2>1
    <3> QED BY <1>2, <2>2, <2>3, <3>1 DEF ClientInv, Phase
  <2>8. SidInv(c)'
    BY <2>2, <2>3 DEF SidInv
  <2>9. ClientInv(c)'
    BY <2>6, <2>7, <2>8 DEF ClientInv
  <2> QED BY <1>7, <1>8, <1>9, <2>1, <2>9 DEF IInv
<1>11. CASE client = 0
  <2>1. \A d \in Clients : d # client
    BY <1>11 DEF Clients
  <2> QED BY <1>7, <1>8, <1>9, <2>1 DEF IInv
<1> QED BY <1>10, <1>11

\* A step that posts set_sid or a log line, or only looks at a client.
LEMMA PostKept ==
    ASSUME StatusdTypeOK, IInv, UNCHANGED obj, UNCHANGED wireVars, client' = client,
           logger' \in {0, logger} \/ (logger' \in Clients /\ obj[logger'].phase = "finished"),
           \/ queue' = queue
           \/ \E h \in Handlers : /\ queue' = Append(queue, h) /\ h.c \in 1 .. client
                                  /\ \/ h.kind = "set_sid" /\ (~h.flag => h.sid = NoSid)
                                     \/ h.kind = "log" /\ obj[h.c].phase = "finished"
    PROVE  IInv'
<1>1. /\ QueueInv /\ \A d \in Clients : ClientInv(d) /\ obj[d] \in Object
      /\ flight' = flight /\ submitted' = submitted /\ received' = received
  BY DEF IInv, StatusdTypeOK, wireVars
<1>2. (\A d \in Clients : SameHandlers(d)) /\ QueueInv'
  <2>1. CASE queue' = queue
    <3>1. \A d \in Clients : SameHandlers(d)
      BY <2>1 DEF SameHandlers, Completed, Broken, LoginPosted
    <3> QED BY <1>1, <2>1, <3>1, QueueKept
  <2>2. ASSUME NEW h \in Handlers, queue' = Append(queue, h), h.c \in 1 .. client,
               \/ h.kind = "set_sid" /\ (~h.flag => h.sid = NoSid)
               \/ h.kind = "log" /\ obj[h.c].phase = "finished"
        PROVE  (\A d \in Clients : SameHandlers(d)) /\ QueueInv'
    <3>1. h.kind # "execute" /\ \A d \in Clients : ~IsWrite(h, d)
      BY <2>2 DEF IsWrite
    <3>2. \A d \in Clients : SameHandlers(d)
      BY <2>2, <3>1, PostEffect DEF SameHandlers
    <3>3. Single({"connect"})' /\ Single({"execute"})' /\ Single({"write", "login_write"})'
      <4>1. h.kind \notin {"connect"} /\ h.kind \notin {"execute"} /\ h.kind \notin {"write", "login_write"}
        BY <2>2
      <4>2. \A k : Single(k) /\ h.kind \notin k => Single(k)'
        BY <2>2, PostEffect
      <4> QED BY <1>1, <4>1, <4>2 DEF QueueInv
    <3> QED BY <1>1, <2>2, <3>2, <3>3, QueuePosted
  <2> QED BY <2>1, <2>2
<1>3. ASSUME NEW d \in Clients PROVE ClientInv(d)'
  <2>1. logger' = d => logger = d \/ obj[d].phase = "finished"
    BY DEF Clients
  <2> QED BY <1>1, <1>2, <2>1, ClientKept
<1> QED BY <1>2, <1>3 DEF IInv

\* The invariant survives every step.
LEMMA InvStep ==
    ASSUME StatusdTypeOK, StatusdTypeOK', IInv, [StatusdNext]_statusdVars
    PROVE  IInv'
<1>1. QueueInv /\ (\A c \in Clients : ClientInv(c)) /\ client \in Nat /\ logger \in 0 .. MaxClients
      /\ 0 \in Sids /\ client \in 0 .. MaxClients
  BY StatusdAssumption DEF IInv, StatusdTypeOK, Sids
<1>2. CASE inner_write_log
  <2>1. PICK c \in Clients : c = Head(queue).c
    BY <1>2, HeadFits DEF inner_write_log
  <2>2. Taken /\ Fits(Head(queue)) /\ Head(queue).kind = "log"
    BY <1>2, HeadFits DEF inner_write_log
  <2>3. async_write(c, obj[c], LogPkt) /\ UNCHANGED <<client, logger>>
    BY <1>2, <2>1 DEF inner_write_log
  <2> QED BY <2>1, <2>2, <2>3, LogKept DEF Fits
<1>3. ASSUME NEW c \in Clients, handle_heartbeart_timeout(c) PROVE IInv'
  <2>1. obj[c].phase = "finished"
    BY <1>1, <1>3 DEF ClientInv, Phase, handle_heartbeart_timeout
  <2> QED BY <1>3, <2>1, LogKept DEF handle_heartbeart_timeout
<1>4. ASSUME NEW sid \in Sids, NEW sync \in BOOLEAN, ~sync => sid = NoSid, set_sid(sid, sync)
      PROVE  \/ queue' = queue
             \/ \E h \in Handlers : /\ queue' = Append(queue, h) /\ h.c \in 1 .. client
                                    /\ h.kind = "set_sid" /\ (~h.flag => h.sid = NoSid)
  <2>1. CASE client # 0
    <3>1. client \in Clients /\ client \in 1 .. client
      BY <1>1, <2>1 DEF Clients
    <3>2. Handler("set_sid", client, sid, sync) \in Handlers
      BY <3>1, HandlerType
    <3> QED BY <1>4, <2>1, <3>1, <3>2 DEF set_sid, Handler
  <2> QED BY <1>4, <2>1 DEF set_sid
<1>5. CASE session_opened
  <2>1. opens' \in Sids
    BY DEF StatusdTypeOK, Sids
  <2>2. set_sid(opens', TRUE)
    BY <1>5 DEF session_opened
  <2> QED BY <1>4, <1>5, <2>1, <2>2, PostKept DEF session_opened
<1>6. CASE session_closed
  <2>1. set_sid(NoSid, FALSE) /\ NoSid \in Sids
    BY <1>1, <1>6 DEF session_closed, NoSid
  <2> QED BY <1>4, <1>6, <2>1, PostKept DEF session_closed
<1>7. CASE write_log_test
  <2>1. client \in Clients
    BY <1>1, <1>7 DEF write_log_test, Clients
  <2>2. obj[client].phase = "finished"
    BY <1>1, <1>7, <2>1 DEF write_log_test, ClientInv, Phase
  <2> QED BY <1>7, <2>1, <2>2, PostKept DEF write_log_test
<1>8. CASE write_log_post
  <2>1. logger \in Clients
    BY <1>1, <1>8 DEF write_log_post, Clients
  <2>2. obj[logger].phase = "finished" /\ ~(logger > client)
    BY <1>1, <2>1 DEF ClientInv, Phase, NoClient
  <2>3. logger \in 1 .. client
    BY <1>1, <2>1, <2>2 DEF Clients
  <2>4. Handler("log", logger, NoSid, FALSE) \in Handlers
    BY <1>1, <2>1 DEF Handler, Handlers, NoSid
  <2> QED BY <1>8, <2>2, <2>3, <2>4, PostKept DEF write_log_post, Handler
<1>9. CASE UNCHANGED statusdVars
  BY <1>9, PostKept DEF statusdVars, wireVars
<1> QED BY <1>2, <1>3, <1>5, <1>6, <1>7, <1>8, <1>9, StepConnect, StepLogin, StepLoginWritten, StepWritten,
        StepSetSid, StepConnected, StepConnectFailed, StepWriteComplete, StepTimeout
        DEF StatusdNext, IoThread, Connecting, Network

\* It holds when the library starts.
LEMMA InvInit == StatusdInit => IInv
<1> SUFFICES ASSUME StatusdInit PROVE IInv
  OBVIOUS
<1>1. QueueInv
  BY DEF StatusdInit, QueueInv, Single
<1>2. ASSUME NEW c \in Clients PROVE ClientInv(c)
  <2>1. /\ obj[c] = NoClient /\ flight[c] = <<>> /\ submitted[c] = <<>> /\ received[c] = <<>>
        /\ queue = <<>> /\ logger # c
    BY DEF StatusdInit, Clients
  <2>2. ~Completed(c) /\ \A s \in Sids : ~LoginPosted(c, s)
    BY <2>1 DEF Completed, LoginPosted
  <2> QED BY <2>1, <2>2 DEF ClientInv, Phase, Buffer, SidInv, NoClient, Live, Lost
<1> QED BY <1>1, <1>2 DEF IInv

\* The invariant holds throughout.
LEMMA ClientsInvariant == StatusdSpec => []IInv
<1>1. StatusdTypeOK /\ StatusdTypeOK' /\ IInv /\ [StatusdNext]_statusdVars => IInv'
  BY InvStep
<1> QED BY <1>1, InvInit, StatusdTypes, PTL DEF StatusdSpec

-----------------------------------------------------------------------------
(* The theorems.                                                           *)

\* Whoever writes, the socket has one write at a time, and while the client
\* is logged in each packet is once, in order, at the server, on the socket
\* or waiting.
THEOREM PacketsSentOnce == StatusdSpec => []SentOnce
<1>1. StatusdTypeOK /\ IInv => SentOnce
  <2> SUFFICES ASSUME StatusdTypeOK, IInv, NEW c \in Clients
               PROVE  /\ Len(flight[c]) <= 1
                      /\ obj[c].logined /\ ~Broken(c) =>
                            submitted[c] = received[c] \o flight[c] \o obj[c].qwiobuff
    BY DEF SentOnce
  <2>1. PICK p : flight[c] = <<>> \/ flight[c] = <<p>>
    BY DEF IInv, ClientInv, Buffer
  <2>2. Len(flight[c]) <= 1
    <3>1. Len(<<>>) = 0 /\ Len(<<p>>) = 1
      OBVIOUS
    <3>2. Len(flight[c]) = 0 \/ Len(flight[c]) = 1
      BY <2>1, <3>1, Zenon
    <3>3. \A n : n = 0 \/ n = 1 => n <= 1
      OBVIOUS
    <3> QED BY <3>2, <3>3, Zenon
  <2> QED BY <2>2 DEF IInv, ClientInv, Buffer, Live, Sent
<1> QED BY <1>1, StatusdTypes, ClientsInvariant, PTL

\* A packet that waits behind another is waited for, as long as the client is
\* logged in.
THEOREM NothingIsStuck == StatusdSpec => []NothingStuck
<1>1. IInv => NothingStuck
  BY DEF IInv, ClientInv, Buffer, Live, Completed, IsWrite, NothingStuck
<1> QED BY <1>1, ClientsInvariant, PTL

\* A session id the client was given reaches the server, whenever the session
\* was opened: before the connect, during the login or after it.
THEOREM SidIsTold == StatusdSpec => []SidReachesServer
<1>1. StatusdTypeOK /\ IInv => SidReachesServer
  <2> SUFFICES ASSUME StatusdTypeOK, IInv, NEW c \in Clients, obj[c].logined, obj[c].sid # NoSid,
                      flight[c] = <<>>, \A i \in DOMAIN queue : queue[i].c # c
               PROVE  Tells(received[c], obj[c].sid)
    BY DEF SidReachesServer
  <2>1. ~Completed(c) /\ ~Broken(c)
    BY DEF Completed, IsWrite, Broken
  <2>2. ClientInv(c) /\ Live(c)
    BY DEF IInv, Live
  <2>3. obj[c].qwiobuff = <<>> /\ submitted[c] = received[c] \o <<>> \o <<>>
    BY <2>1, <2>2 DEF ClientInv, Buffer, Sent
  <2>4. submitted[c] = received[c]
    <3>1. received[c] \in Seq(Packet)
      BY DEF StatusdTypeOK
    <3> QED BY <2>3, <3>1
  <2> QED BY <2>2, <2>4 DEF ClientInv, SidInv
<1> QED BY <1>1, StatusdTypes, ClientsInvariant, PTL

=============================================================================
