----------------------------- MODULE LuaWebrtc -----------------------------
(***************************************************************************)
(* Peer connections of a script: LuaWebrtcModule, LuaRtcPeerConnection,    *)
(* LuaWebrtcVideoSink and LuaWebrtcService (src/src/lua/module).           *)
(*                                                                         *)
(* Three threads.  The io thread runs the script and what is posted to     *)
(* `posted'; most functions block it in rtc::Thread::Invoke (`call') until *)
(* the signaling thread has run the inner function.  WebRTC calls its      *)
(* observer on the signaling thread and OnFrame on a thread of its own.    *)
(* WebRTC is external.  A null dereference ends the process (`crashed').   *)
(***************************************************************************)
EXTENDS Integers, Sequences

CONSTANTS
    Peer,        \* handles of peer connections
    CallbackSets,\* the tables of callbacks a script passes to open
    MaxAsks,     \* bound on the offers and answers asked of a connection
    MaxPosted    \* bound on the handlers waiting for the io thread

Events == {"candidate", "gathering", "connection", "media_ready"}

ASSUME WebrtcAssumption ==
    /\ CallbackSets \subseteq SUBSET Events
    /\ MaxAsks \in Nat /\ MaxPosted \in Nat

VARIABLES
    peer,      \* the LuaRtcPeerConnection of each handle
    rtc,       \* the static state of LuaWebrtcService
    call,      \* the Invoke or the two-step access the io thread is in
    module,    \* the module: running, closing, closed
    posted,    \* handlers posted to the io_service
    frame,     \* the connection whose frame is being rendered
    crashed

rtcVars == <<peer, rtc, call, module, posted, frame, crashed>>

None == "none"
NoCall == [op |-> None, h |-> None, ret |-> None, video |-> FALSE]

new_peer ==
    [obj |-> FALSE, closed |-> FALSE, service |-> TRUE, connection |-> "none",
     callbacks |-> {}, sdp |-> FALSE, role |-> "offer", source |-> "default",
     receiver |-> FALSE, renderer |-> FALSE,
     pending |-> 0, asked |-> 0, sdps |-> 0, called |-> {}]

rtc_init ==
    /\ peer = [h \in Peer |-> new_peer]
    /\ rtc = [factory |-> FALSE, threads |-> FALSE]
    /\ call = NoCall /\ module = "running" /\ posted = <<>> /\ frame = None /\ crashed = FALSE

-----------------------------------------------------------------------------
(* LuaWebrtcService: started and stopped by BeeEntrance.                   *)

init_factory(x) == [x EXCEPT !.factory = TRUE]

init_service ==
    /\ ~rtc.threads
    /\ module = "running"
    /\ rtc' = init_factory([rtc EXCEPT !.threads = TRUE])
    /\ UNCHANGED <<peer, call, module, posted, frame, crashed>>

\* BeeEntrance::force_stop calls it before the sessions are closed.  What an
\* Invoke returns when its thread goes is not modelled.
uninit_service ==
    /\ rtc.threads /\ call = NoCall /\ frame = None
    /\ rtc' = [factory |-> FALSE, threads |-> FALSE]
    /\ module' = IF module = "running" THEN "closing" ELSE module
    /\ UNCHANGED <<peer, call, posted, frame, crashed>>

-----------------------------------------------------------------------------
(* LuaRtcPeerConnection on the signaling thread.                           *)

Result(p, ret) == [p |-> p, ret |-> ret]

create_webrtc_peer_connection(p, ok) ==
    IF ok /\ rtc.factory THEN Result([p EXCEPT !.connection = "open"], "Success")
    ELSE Result(p, "Create_Peer_Connection_Fail")

inner_create_offer(p, video, ok) ==
    IF p.connection = "none" \/ ~rtc.factory THEN Result(p, "Null_Pointer")
    ELSE IF ~ok THEN Result(p, "Add_Stream_Fail")
    ELSE Result([p EXCEPT !.role = "offer", !.pending = @ + 1, !.receiver = @ \/ video], "Success")

inner_set_remote_desc(p, ok) ==
    IF p.connection = "none" THEN Result(p, "Null_Pointer")
    ELSE Result(p, IF ok THEN "Success" ELSE "Invalid_Param")

inner_create_answer(p, ok) ==
    LET r == inner_set_remote_desc(p, ok) IN
    IF r.ret # "Success" THEN r
    ELSE Result([p EXCEPT !.role = "answer", !.pending = @ + 1], "Success")

\* The sink of a frame that is being rendered is gone: RemoveSink, on the
\* signaling thread, waits for OnFrame.
RemovesSink == frame # None /\ ~peer[frame].receiver

drop_receiver(p) == [p EXCEPT !.renderer = FALSE, !.receiver = FALSE]

\* What is pending ends with the connection.
inner_close(p) ==
    Result([drop_receiver(p) EXCEPT !.connection = "none", !.pending = 0], "Success")

inner_set_video_source(p) == Result([p EXCEPT !.source = "set"], "Success")
inner_set_audio_source(p) == Result([p EXCEPT !.source = "set"], "Success")

inner_get_stats(p, ok) ==
    Result(p, IF p.connection = "none" THEN "Null_Pointer" ELSE IF ok THEN "Success" ELSE "Invalid_Param")

inner_get_audio_input_level(p) == Result(p, IF p.connection = "none" THEN "Fail" ELSE "Success")
inner_get_audio_output_level(p) == Result(p, IF p.connection = "none" THEN "Fail" ELSE "Success")

inner(c, p, ok) ==
    CASE c.op = "open" -> create_webrtc_peer_connection(p, ok)
      [] c.op = "create_offer" -> inner_create_offer(p, c.video, ok)
      [] c.op = "create_answer" -> inner_create_answer(p, ok)
      [] c.op = "set_remote_desc" -> inner_set_remote_desc(p, ok)
      [] c.op = "close" -> inner_close(p)
      [] c.op = "set_video_source" -> inner_set_video_source(p)
      [] c.op = "set_audio_source" -> inner_set_audio_source(p)
      [] c.op = "get_stats" -> inner_get_stats(p, ok)
      [] c.op = "get_audio_input_level" -> inner_get_audio_input_level(p)
      [] c.op = "get_audio_output_level" -> inner_get_audio_output_level(p)

\* inner_close stops the sink while it renders a frame.
stop_sink ==
    /\ call.op = "close" /\ call.ret = None /\ frame = call.h /\ peer[frame].receiver
    /\ peer' = [peer EXCEPT ![frame] = drop_receiver(@)]
    /\ UNCHANGED <<rtc, call, module, posted, frame, crashed>>

\* The signaling thread runs what the io thread waits for.
invoked(ok) ==
    /\ call.op \notin {None, "start_renderer", "stop_renderer"} /\ call.ret = None
    /\ ~RemovesSink /\ (call.op = "close" => frame # call.h)
    /\ LET r == inner(call, peer[call.h], ok) IN
        /\ peer' = [peer EXCEPT ![call.h] = r.p]
        /\ call' = [call EXCEPT !.ret = r.ret]
    /\ UNCHANGED <<rtc, module, posted, frame, crashed>>

post_event(h, what) == posted' = Append(posted, [h |-> h, what |-> what])

\* The observer of the connection.
observed(h) == peer[h].connection = "open" /\ rtc.threads /\ ~RemovesSink /\ Len(posted) < MaxPosted

OnAddStream(h, video) ==
    /\ observed(h)
    /\ peer' = [peer EXCEPT ![h].receiver = @ \/ video]
    /\ post_event(h, "media_ready")
    /\ UNCHANGED <<rtc, call, module, frame, crashed>>

OnRemoveStream(h) ==
    /\ observed(h) /\ peer[h].receiver
    /\ peer' = [peer EXCEPT ![h] = drop_receiver(@)]
    /\ UNCHANGED <<rtc, call, module, posted, frame, crashed>>

OnIceCandidate(h) ==
    observed(h) /\ post_event(h, "candidate") /\ UNCHANGED <<peer, rtc, call, module, frame, crashed>>
OnIceGatheringChange(h) ==
    observed(h) /\ post_event(h, "gathering") /\ UNCHANGED <<peer, rtc, call, module, frame, crashed>>
OnIceConnectionChange(h) ==
    observed(h) /\ post_event(h, "connection") /\ UNCHANGED <<peer, rtc, call, module, frame, crashed>>

described(h) ==
    /\ peer[h].connection = "open" /\ rtc.threads /\ ~RemovesSink /\ peer[h].pending > 0
    /\ peer' = [peer EXCEPT ![h].pending = @ - 1]
    /\ UNCHANGED <<rtc, call, module, frame, crashed>>

OnSuccess(h) == described(h) /\ post_event(h, "sdp")

\* Faulty variant: a failure is not reported.
OnFailure_silent(h) == described(h) /\ UNCHANGED posted

OnFailure(h) == described(h) /\ post_event(h, "sdp")

-----------------------------------------------------------------------------
(* LuaWebrtcVideoSink::OnFrame, on a thread of WebRTC.  video_renderer_ is *)
(* read twice.                                                             *)

OnFrame(h) ==
    /\ frame = None /\ peer[h].receiver /\ peer[h].renderer /\ rtc.threads
    /\ frame' = h
    /\ UNCHANGED <<peer, rtc, call, module, posted, crashed>>

render ==
    /\ frame # None
    /\ crashed' = ~peer[frame].renderer
    /\ frame' = None
    /\ UNCHANGED <<peer, rtc, call, module, posted>>

-----------------------------------------------------------------------------
(* The functions of the module, on the io thread.                          *)

ready(h) == call = NoCall /\ module = "running" /\ peer[h].obj

\* Every function that goes through Invoke first checks service and thread.
invokes(h, op) ==
    /\ ready(h) /\ peer[h].service /\ rtc.threads
    /\ call' = [NoCall EXCEPT !.op = op, !.h = h]
    /\ UNCHANGED <<peer, rtc, module, posted, frame, crashed>>

\* The first callback that is missing ends the loop that installs them, and
\* only a missing first one is recognised as missing.
installed(callbacks) == IF "candidate" \in callbacks THEN callbacks ELSE {}

lua_open(h, callbacks) ==
    /\ call = NoCall /\ module = "running" /\ rtc.threads /\ peer[h] = new_peer
    /\ peer' = [peer EXCEPT ![h].callbacks = installed(callbacks)]
    /\ call' = [NoCall EXCEPT !.op = "open", !.h = h]
    /\ UNCHANGED <<rtc, module, posted, frame, crashed>>

lua_create_offer(h, video) ==
    /\ ready(h) /\ peer[h].service /\ rtc.threads /\ peer[h].asked < MaxAsks
    /\ call' = [NoCall EXCEPT !.op = "create_offer", !.h = h, !.video = video]
    /\ UNCHANGED <<peer, rtc, module, posted, frame, crashed>>

lua_create_answer(h) == peer[h].asked < MaxAsks /\ invokes(h, "create_answer")
lua_set_remote_dec(h) == invokes(h, "set_remote_desc")
lua_get_stats(h) == invokes(h, "get_stats")
lua_set_video_source(h) == invokes(h, "set_video_source")
lua_set_audio_source(h) == invokes(h, "set_audio_source")
lua_get_audio_input_level(h) == invokes(h, "get_audio_input_level")
lua_get_audio_output_level(h) == invokes(h, "get_audio_output_level")

\* close: without a signaling thread only closed_ is set.
close_peer(h, p) ==
    /\ peer' = [peer EXCEPT ![h] = [p EXCEPT !.closed = TRUE]]
    /\ call' = IF p.service /\ rtc.threads THEN [NoCall EXCEPT !.op = "close", !.h = h] ELSE NoCall
    /\ UNCHANGED <<rtc, posted, frame, crashed>>

lua_close_peer(h) == ready(h) /\ close_peer(h, [peer[h] EXCEPT !.obj = FALSE]) /\ UNCHANGED module

\* The receiver is checked, then used.
lua_start_video_renderer(h) ==
    /\ ready(h) /\ peer[h].receiver
    /\ call' = [NoCall EXCEPT !.op = "start_renderer", !.h = h]
    /\ UNCHANGED <<peer, rtc, module, posted, frame, crashed>>

lua_stop_video_renderer(h) ==
    /\ ready(h) /\ peer[h].receiver
    /\ call' = [NoCall EXCEPT !.op = "stop_renderer", !.h = h]
    /\ UNCHANGED <<peer, rtc, module, posted, frame, crashed>>

start_video_render(p) == [p EXCEPT !.renderer = TRUE]
stop_video_render(p) == [p EXCEPT !.renderer = FALSE]

use_receiver ==
    /\ call.op \in {"start_renderer", "stop_renderer"}
    /\ IF peer[call.h].receiver
       THEN /\ peer' = [peer EXCEPT ![call.h] =
                    IF call.op = "start_renderer" THEN start_video_render(@) ELSE stop_video_render(@)]
            /\ UNCHANGED crashed
       ELSE crashed' = TRUE /\ UNCHANGED peer
    /\ call' = NoCall
    /\ UNCHANGED <<rtc, module, posted, frame>>

\* Invoke returns and the function goes on.
create_offer(p, ret) ==
    IF ret = "Success" THEN [p EXCEPT !.sdp = TRUE, !.asked = @ + 1] ELSE p
create_answer(p, ret) ==
    IF ret = "Success" THEN [p EXCEPT !.sdp = TRUE, !.asked = @ + 1] ELSE p
closed_peer(p) == [p EXCEPT !.service = FALSE]
open_answered(p, ret) == IF ret = "Success" THEN [p EXCEPT !.obj = TRUE] ELSE new_peer

returned ==
    /\ call.ret # None
    /\ peer' = [peer EXCEPT ![call.h] =
            CASE call.op = "open" -> open_answered(@, call.ret)
              [] call.op = "create_offer" -> create_offer(@, call.ret)
              [] call.op = "create_answer" -> create_answer(@, call.ret)
              [] call.op = "close" -> closed_peer(@)
              [] OTHER -> @]
    /\ IF call.op = "create_offer" /\ call.ret = "Success"
       THEN post_event(call.h, "media_ready") ELSE UNCHANGED posted
    /\ call' = NoCall
    /\ UNCHANGED <<rtc, module, frame, crashed>>

\* The Lua state is closed: on_close_module closes every connection.
begin_close_module ==
    /\ call = NoCall /\ module = "running"
    /\ module' = "closing"
    /\ UNCHANGED <<peer, rtc, call, posted, frame, crashed>>

on_close_module ==
    /\ call = NoCall /\ module = "closing"
    /\ \/ \E h \in Peer : peer[h].obj /\ close_peer(h, [peer[h] EXCEPT !.obj = FALSE]) /\ UNCHANGED module
       \/ /\ \A h \in Peer : ~peer[h].obj
          /\ module' = "closed"
          /\ UNCHANGED <<peer, rtc, call, posted, frame, crashed>>

-----------------------------------------------------------------------------
(* What was posted runs on the io thread.                                  *)

on_get_sdp(p) == IF p.closed \/ ~p.sdp THEN p ELSE [p EXCEPT !.sdps = @ + 1]

\* Faulty variant: closed_ is not looked at.
report_late(p, what) == IF what \notin p.callbacks THEN p ELSE [p EXCEPT !.called = @ \cup {what}]

report_event(p, what) ==
    IF p.closed \/ what \notin p.callbacks THEN p ELSE [p EXCEPT !.called = @ \cup {what}]

on_local_ice_candidate(p) == report_event(p, "candidate")
on_local_ice_gathering_changed(p) == report_event(p, "gathering")
on_local_ice_connection_changed(p) == report_event(p, "connection")
on_media_ready(p) == report_event(p, "media_ready")

run_posted ==
    /\ call = NoCall /\ posted # <<>>
    /\ peer' = [peer EXCEPT ![Head(posted).h] =
            CASE Head(posted).what = "sdp" -> on_get_sdp(@)
              [] Head(posted).what = "candidate" -> on_local_ice_candidate(@)
              [] Head(posted).what = "gathering" -> on_local_ice_gathering_changed(@)
              [] Head(posted).what = "connection" -> on_local_ice_connection_changed(@)
              [] Head(posted).what = "media_ready" -> on_media_ready(@)]
    /\ posted' = Tail(posted)
    /\ UNCHANGED <<rtc, call, module, frame, crashed>>

-----------------------------------------------------------------------------

RtcScript ==
    \/ \E h \in Peer :
        \/ \E callbacks \in CallbackSets : lua_open(h, callbacks)
        \/ \E video \in BOOLEAN : lua_create_offer(h, video)
        \/ lua_create_answer(h) \/ lua_set_remote_dec(h) \/ lua_get_stats(h)
        \/ lua_set_video_source(h) \/ lua_set_audio_source(h)
        \/ lua_get_audio_input_level(h) \/ lua_get_audio_output_level(h)
        \/ lua_close_peer(h) \/ lua_start_video_renderer(h) \/ lua_stop_video_renderer(h)
    \/ begin_close_module

RtcIo == use_receiver \/ returned \/ on_close_module \/ run_posted

RtcObserver ==
    \E h \in Peer :
        \/ \E video \in BOOLEAN : OnAddStream(h, video)
        \/ OnRemoveStream(h)
        \/ OnIceCandidate(h) \/ OnIceGatheringChange(h) \/ OnIceConnectionChange(h)

RtcInvoked == stop_sink \/ \E ok \in BOOLEAN : invoked(ok)
RtcDescribed(h) == OnSuccess(h) \/ OnFailure(h)

RtcNext ==
    /\ ~crashed
    /\ \/ RtcScript \/ RtcIo \/ RtcObserver \/ RtcInvoked
       \/ \E h \in Peer : RtcDescribed(h) \/ OnFrame(h)
       \/ render \/ init_service \/ uninit_service

RtcSpec == rtc_init /\ [][RtcNext]_rtcVars

\* The threads run; the io_service runs its handlers, the script's calls
\* among them, in the order they were posted; WebRTC answers what it is asked
\* to describe.
RtcFairness ==
    /\ WF_rtcVars(~crashed /\ (use_receiver \/ returned \/ on_close_module))
    /\ SF_rtcVars(~crashed /\ run_posted)
    /\ WF_rtcVars(~crashed /\ RtcInvoked)
    /\ WF_rtcVars(~crashed /\ render)
    /\ \A h \in Peer : WF_rtcVars(~crashed /\ RtcDescribed(h))

-----------------------------------------------------------------------------
(* Properties.                                                             *)

\* Once a connection is closed nothing that was posted before calls into the
\* script, whatever the signaling thread was doing meanwhile.
RtcQuiet ==
    [][\A h \in Peer : peer[h].closed =>
        UNCHANGED <<peer[h].sdps, peer[h].called>>]_rtcVars

\* Every offer and answer that was accepted is answered to the script, unless
\* the connection is closed or the process stops; the callback is registered
\* before the description can arrive.
SdpAnswered ==
    \A h \in Peer, n \in 1 .. MaxAsks :
        (peer[h].asked = n)
            ~> (peer[h].sdps >= n \/ peer[h].closed \/ ~rtc.threads \/ crashed)
=============================================================================
