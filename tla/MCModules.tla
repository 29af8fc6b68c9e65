----------------------------- MODULE MCModules ------------------------------
(***************************************************************************)
(* The http, the web socket and the timer module of a script on small      *)
(* instances.  They share nothing: a behaviour explores one of them, named *)
(* by part, while the others stay where they start.  Nothing that is fair  *)
(* can happen there, before a call of the script.                          *)
(***************************************************************************)
EXTENDS LuaHttp, LuaLws, LuaTimer

VARIABLE part

Init == part \in {"http", "sockets", "timer"} /\ http_init /\ lws_init /\ timer_init

Next ==
    \/ part = "http" /\ HttpNext /\ UNCHANGED <<part, lwsVars, timerVars>>
    \/ part = "sockets" /\ LwsNext /\ UNCHANGED <<part, httpVars, timerVars>>
    \/ part = "timer" /\ TimerNext /\ UNCHANGED <<part, httpVars, lwsVars>>

Fairness == HttpFairness /\ LwsFairness /\ TimerFairness

Spec == Init /\ [][Next]_<<part, httpVars, lwsVars, timerVars>> /\ Fairness

\* What the script closed calls it no more: no event of a web socket but in the
\* gap between the two writes of its flags, no connect timer but one that was
\* forgotten, no timer.
ModulesQuiet == Quiet /\ TimerQuiet

\* What waits for another thread, for the network or for time does not wait
\* for ever: a message in a queue, the answer to connect, a timer's calls.
ModulesAnswer == QueuedIsSent /\ ConnectAnswered /\ TimerFires
-----------------------------------------------------------------------------
(* The instances.                                                          *)

Answer(status, location, chunked, sizes) ==
    [status |-> status, location |-> location, chunked |-> chunked, sizes |-> sizes]

\* A body of two bytes, chunked bodies of one and two chunks, a body of the
\* maximal length, an empty one, an error, the redirections.
GoodResponses ==
    {Answer("ok", FALSE, FALSE, <<2>>), Answer("ok", FALSE, TRUE, <<2, 1>>),
     Answer("ok", FALSE, TRUE, <<1>>), Answer("ok", FALSE, FALSE, <<3>>),
     Answer("ok", FALSE, FALSE, <<0>>), Answer("error", FALSE, FALSE, <<1>>),
     Answer("redirect", TRUE, FALSE, <<1>>), Answer("other30x", FALSE, FALSE, <<0>>)}

AllModes == [async : BOOLEAN, manual : BOOLEAN, one_off : BOOLEAN]

TimerCounts == {-1, 0, 1, 3}
=============================================================================
