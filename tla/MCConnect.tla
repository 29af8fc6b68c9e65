----------------------------- MODULE MCConnect ------------------------------
(***************************************************************************)
(* The two machines that speak to a server over TcpStateMachine, and the   *)
(* HTTP messages, on small instances.  They share nothing: a behaviour     *)
(* explores one of them, named by part, while the others stay where they   *)
(* start.                                                                  *)
(***************************************************************************)
EXTENDS TcpConnect, StatusdClient, HttpMessage

VARIABLE part

connectVars == <<part, tcpVars, statusdVars, msgVars>>

Init ==
    /\ part \in {"tcp", "statusd", "message"}
    /\ part # "message" => url = CHOOSE u \in Urls : TRUE
    /\ TcpInit /\ StatusdInit /\ MsgInit
    /\ part # "tcp" => ~is_tls /\ connect_timeout = EndpointTimeout

Next ==
    \/ part = "tcp" /\ TcpNext /\ UNCHANGED <<part, statusdVars, msgVars>>
    \/ part = "statusd" /\ StatusdNext /\ UNCHANGED <<part, tcpVars, msgVars>>
    \/ part = "message" /\ MsgNext /\ UNCHANGED <<part, tcpVars, statusdVars>>

\* The resolver answers and the check timer fires; nothing is asked of the
\* peer, which may never answer.
TcpFairness ==
    /\ WF_tcpVars(part = "tcp" /\ (handle_resolve \/ handle_resolve_failed))
    /\ WF_tcpVars(part = "tcp" /\ handle_period_timeout)

\* The io thread serves its queue, connects and writes end one way or the
\* other, the periodic timer fires.
StatusdFairness ==
    /\ WF_statusdVars(part = "statusd" /\ IoThread)
    /\ WF_statusdVars(part = "statusd" /\ Connecting)
    /\ WF_statusdVars(part = "statusd" /\ Network)
    /\ WF_statusdVars(part = "statusd" /\ handle_statusd_timeout)

\* StatusdClient's property, of the behaviours that run the client.
ClientReplaced == part = "statusd" => Reconnects

Spec == Init /\ [][Next]_connectVars /\ TcpFairness /\ StatusdFairness
-----------------------------------------------------------------------------
(* The messages.                                                           *)

MCUrls ==
    [protocol : {<<>>, <<"http">>, <<"https">>}, host : {<<"h1">>},
     port : {<<>>, <<"8080">>},
     path : {<<>>, <<"/", "x", ":", "y">>, <<"/", "x", "/", "y">>}]

MCOffsets == {-1, 0, 2}

MCVals == {<<"a">>, <<"b", ":", "c">>}

header(name, val) == [name |-> <<name>>, val |-> val]

OKStatus == <<"HTTP/1.1", " ", "200", " ", "OK">>

MCResponses ==
    [status : {<<"HTTP/1.1", " ", "200">>, <<"HTTP/1.1", " ">>, <<"ICY", " ", "200", " ", "OK">>,
               <<"HTTP/1.1", " ", "abc", " ", "OK">>},
     fields : {<<>>}]
    \cup
    [status : {OKStatus},
     fields : {<<header("Content-Length", <<"2">>), header("content-length", <<"0">>)>>,
               <<header("Content-Length", <<"many">>)>>,
               <<header("Location", <<"http", ":", "/", "/", "h2">>),
                 header("Content-Range", <<"bytes", " ", "0", "-", "2", "/", "8080">>)>>}]
=============================================================================
