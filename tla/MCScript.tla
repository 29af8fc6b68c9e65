------------------------------ MODULE MCScript ------------------------------
(***************************************************************************)
(* The client that fetches the script, and the peer connections of a       *)
(* script, on small instances.  They share nothing: a behaviour explores   *)
(* one of them, named by part, while the other stays where it starts.      *)
(***************************************************************************)
EXTENDS CAClient, LuaWebrtc

VARIABLE part

scriptVars == <<part, caVars, rtcVars>>

Init == part \in {"ca", "rtc"} /\ CAInit /\ rtc_init

Next ==
    \/ part = "ca" /\ CANext /\ UNCHANGED <<part, rtcVars>>
    \/ part = "rtc" /\ RtcNext /\ UNCHANGED <<part, caVars>>

\* As CAFairness, but the application calls start only in its part; all else
\* that is fair waits for a call.
CARuns ==
    /\ WF_caVars(request_core \/ close_ca_client) /\ WF_caVars(honored) /\ WF_caVars(handle_timeout)
    /\ WF_caVars(part = "ca" /\ AppStep)

Spec == Init /\ [][Next]_scriptVars /\ CARuns /\ RtcFairness
=============================================================================
