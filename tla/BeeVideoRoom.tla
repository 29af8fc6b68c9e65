---------------------------- MODULE BeeVideoRoom ----------------------------
(***************************************************************************)
(* The video room of an application: BeeVideoRoom over BeeSDK and          *)
(* BeeSDKService on iOS, WinVideoRoom on Windows (src/src/api/bee).        *)
(*                                                                         *)
(* On iOS every call is a block of the serial queue of BeeSDK, what comes  *)
(* from the service (on the io thread) is dispatched to it, and the audio  *)
(* session is changed by blocks of the main queue.  On Windows calls run   *)
(* on the caller's thread and the sink is called on the io thread.  The    *)
(* script that executes the commands is external.                          *)
(***************************************************************************)
EXTENDS Integers, Sequences, FiniteSets

CONSTANTS
    Uid,        \* remote members
    MediaTypes, \* what is pushed: sets of "audio", "video"
    MaxCalls,   \* bound on the application's calls
    MaxQueue    \* bound on the blocks of the queue

ASSUME RoomAssumption ==
    /\ MediaTypes \subseteq SUBSET {"audio", "video"}
    /\ MaxCalls \in Nat /\ MaxQueue \in Nat

VARIABLES
    platform,  \* ios or win
    bee,       \* BeeSDK: initialized, session handle
    room,      \* the room object
    q,         \* the queue of BeeSDK
    mainq,     \* the audio session's blocks of the main queue
    audio,     \* isAudioEnabled
    told,      \* what the sink was told last, and whether it was told of an error
    glitch,    \* the audio thread has taken the sink to tell it of a glitch
    calls

roomVars == <<platform, bee, room, q, mainq, audio, told, glitch, calls>>

\* last: what became of the last join or leave that was run.
new_room ==
    [registered |-> FALSE, sink |-> TRUE, last |-> "none", media |-> {}, video |-> "none",
     audio |-> "none", asked |-> {}]

room_init ==
    /\ platform \in {"ios", "win"}
    /\ bee = [initialized |-> FALSE, session |-> FALSE]
    /\ room = new_room /\ q = <<>> /\ mainq = <<>> /\ audio = FALSE
    /\ told = [what |-> "none", ok |-> TRUE] /\ glitch = FALSE /\ calls = 0

block(op, uid, media, ec) == [op |-> op, uid |-> uid, media |-> media, ec |-> ec]

-----------------------------------------------------------------------------
(* BeeSDK and BeeSDKService.                                               *)

initializeInternal(b, ok) == IF b.initialized THEN b ELSE [b EXCEPT !.initialized = ok]
uninitializeInternal(b) == [initialized |-> FALSE, session |-> FALSE]
openSessionInternal(b, ok) == [b EXCEPT !.session = @ \/ (b.initialized /\ ok)]
closeSessionInternal(b) == [b EXCEPT !.session = FALSE]

\* Register: the session must be open and the service accepted.
Register(r, ok) == [r EXCEPT !.registered = bee.session /\ ok]
unRegister(r) == [r EXCEPT !.registered = FALSE]
execute(r, ok) == r.registered /\ bee.session /\ ok

\* A command that cannot be serialized is not sent, and that is no error.
sends(r, sent, ok) == r.registered /\ (sent => execute(r, ok))

-----------------------------------------------------------------------------
(* BeeVideoRoom on its queue.  Each gives the room, whether the command    *)
(* was accepted, and what the main queue is handed.                        *)

enableAudioSession == <<TRUE>>
disableAudioSession == <<FALSE>>

Did(r, ok, blocks) == [room |-> r, ok |-> ok, blocks |-> blocks]

\* A source is opened once; "failed" is one that could not be.
open_source(src, ok) == IF src = "open" THEN "open" ELSE IF ok THEN "open" ELSE "failed"

setupPushStreamInternal(r, media, ok) ==
    LET video == IF "video" \in media THEN open_source("none", ok) ELSE "none" IN
    Did([r EXCEPT !.media = media, !.video = video,
                  !.audio = IF "audio" \in media /\ video # "failed" THEN open_source("none", ok) ELSE "none"],
        TRUE, <<>>)

\* What becomes of a join: refused before or by the engine, not sent, or sent.
joined(x, valid, sent, ok) ==
    IF ~valid \/ ~sends(x, sent, ok) THEN "refused" ELSE IF sent THEN "sent" ELSE "unsent"

to_join(r, valid, ok) == IF ~valid \/ r.registered THEN r ELSE Register(r, ok)

\* Faulty variant: a join that is refused leaves the audio session on.
joinInternal_hot(r, valid, sent, ok) ==
    LET x == to_join(r, valid, ok)
        how == joined(x, valid, sent, ok)
    IN  Did([x EXCEPT !.last = how], how # "refused", enableAudioSession)

joinInternal(r, valid, sent, ok) ==
    LET x == to_join(r, valid, ok)
        how == joined(x, valid, sent, ok)
    IN  Did([x EXCEPT !.last = how], how # "refused",
            IF how = "refused" THEN enableAudioSession \o disableAudioSession ELSE enableAudioSession)

\* Faulty variant: the sink is kept.
leaveInternal_told(r, sent, ok) ==
    Did([unRegister(r) EXCEPT !.last = "left"], sends(r, sent, ok), disableAudioSession)

leaveInternal(r, sent, ok) ==
    Did([unRegister(r) EXCEPT !.last = "left", !.sink = FALSE], sends(r, sent, ok),
        IF r.registered /\ sent THEN disableAudioSession \o disableAudioSession ELSE disableAudioSession)

connectInternal(r, sent, ok) == Did(r, sends(r, sent, ok), <<>>)
disconnectInternal(r, sent, ok) == Did(r, sends(r, sent, ok), <<>>)
getAudioInputLevelInternal(r, sent, ok) == Did(r, sends(r, sent, ok), <<>>)

\* The command names the local uid, whatever uid was asked for.
getAudioOutputLevelInternal(r, uid, sent, ok) ==
    Did([r EXCEPT !.asked = IF sent /\ execute(r, ok) THEN @ \cup {<<uid, "local">>} ELSE @],
        sends(r, sent, ok), <<>>)

switchCameraInternal(r) == Did(r, TRUE, <<>>)

ran(b, sent, ok) ==
    CASE b.op = "join" -> joinInternal(room, b.uid # "nil", sent, ok)
      [] b.op = "leave" -> leaveInternal(room, sent, ok)
      [] b.op = "connect" -> connectInternal(room, sent, ok)
      [] b.op = "disconnect" -> disconnectInternal(room, sent, ok)
      [] b.op = "setup" -> setupPushStreamInternal(room, b.media, ok)
      [] b.op = "input_level" -> getAudioInputLevelInternal(room, sent, ok)
      [] b.op = "output_level" -> getAudioOutputLevelInternal(room, b.uid, sent, ok)
      [] b.op = "camera" -> switchCameraInternal(room)
      [] OTHER -> Did(room, TRUE, <<>>)

\* The sink is told of what failed and of the notifications, while there is one.
tell(what, ok) == IF room.sink THEN [what |-> what, ok |-> ok] ELSE told

\* The error of what is notified, which onDisconnect is not told.
notified(b) == b.op = "on_disconnect" \/ b.ec = 0

Notifications == {"on_join", "on_connect", "on_leave", "on_disconnect", "on_members", "on_input", "on_output"}

run_queue(sent, ok) ==
    /\ q # <<>>
    /\ LET b == Head(q)
           d == ran(b, sent, ok)
       IN /\ room' = d.room
          /\ mainq' = mainq \o d.blocks
          /\ bee' = CASE b.op = "initialize" -> initializeInternal(bee, ok)
                      [] b.op = "uninitialize" -> uninitializeInternal(bee)
                      [] b.op = "open" -> openSessionInternal(bee, ok)
                      [] b.op = "close" -> closeSessionInternal(bee)
                      [] OTHER -> bee
          /\ told' = CASE b.op \in Notifications -> tell(b.op, notified(b))
                       [] b.op = "leave" -> tell(b.op, d.ok)
                       [] OTHER -> IF d.ok THEN told ELSE tell(b.op, FALSE)
    /\ q' = Tail(q)
    /\ UNCHANGED <<platform, audio, glitch, calls>>

run_main ==
    /\ mainq # <<>>
    /\ audio' = Head(mainq) /\ mainq' = Tail(mainq)
    /\ UNCHANGED <<platform, bee, room, q, told, glitch, calls>>

\* A glitch of the audio is told to the sink by the thread of the audio, which
\* waits for neither queue: the sink it has taken may be one that has left.
audioSession_didDetectPlayoutGlitch ==
    /\ \/ ~glitch /\ audio /\ room.sink /\ glitch' = TRUE
       \/ glitch /\ glitch' = FALSE
    /\ UNCHANGED <<platform, bee, room, q, mainq, audio, told, calls>>

-----------------------------------------------------------------------------
(* The calls of an iOS application.                                        *)

dispatch(b) ==
    /\ platform = "ios" /\ Len(q) < MaxQueue /\ calls < MaxCalls
    /\ q' = Append(q, b) /\ calls' = calls + 1
    /\ UNCHANGED <<platform, bee, room, mainq, audio, told, glitch>>

initialize == dispatch(block("initialize", "nil", {}, 0))
uninitialize == dispatch(block("uninitialize", "nil", {}, 0))
openSession == dispatch(block("open", "nil", {}, 0))
closeSession == dispatch(block("close", "nil", {}, 0))
join(uid) == dispatch(block("join", uid, {}, 0))
leave == dispatch(block("leave", "nil", {}, 0))
connect(uid) == dispatch(block("connect", uid, {}, 0))
disconnect(uid) == dispatch(block("disconnect", uid, {}, 0))
setupPushStream(media) == dispatch(block("setup", "nil", media, 0))
getAudioInputLevel == dispatch(block("input_level", "nil", {}, 0))
getAudioOutputLevel(uid) == dispatch(block("output_level", uid, {}, 0))
switchCamera == dispatch(block("camera", "nil", {}, 0))

\* handleData: a message without a known type, or with an unknown error code,
\* is dropped; the rest is dispatched, to be told and nothing else: a join that
\* is answered with an error, or a room the server has ended, changes nothing
\* of the room and of the audio session.
Not_Compatible == -1
toMessageType(type) == IF type \in 0 .. 6 THEN type ELSE 7
toBeeErrorCode(ec) == IF ec \in 0 .. 1 THEN ec ELSE Not_Compatible

handlers == <<"on_join", "on_connect", "on_leave", "on_disconnect", "on_members", "on_input", "on_output">>

handleData(type, ec) ==
    /\ platform = "ios" /\ room.registered /\ Len(q) < MaxQueue
    /\ toMessageType(type) # 7 /\ toBeeErrorCode(ec) # Not_Compatible
    /\ q' = Append(q, block(handlers[type + 1], "nil", {}, ec))
    /\ UNCHANGED <<platform, bee, room, mainq, audio, told, glitch, calls>>

-----------------------------------------------------------------------------
(* WinVideoRoom.  leave does not unregister the service.                   *)

win_call(r) ==
    /\ platform = "win" /\ calls < MaxCalls
    /\ calls' = calls + 1 /\ room' = r
    /\ UNCHANGED <<platform, bee, q, mainq, audio, told, glitch>>

win_open(ok) ==
    /\ platform = "win" /\ calls < MaxCalls /\ calls' = calls + 1
    /\ bee' = openSessionInternal(initializeInternal(bee, ok), ok)
    /\ UNCHANGED <<platform, room, q, mainq, audio, told, glitch>>

win_init(ok) == ~room.registered /\ win_call(Register(room, ok))
win_join(ok) == win_call([room EXCEPT !.last = IF execute(room, ok) THEN "sent" ELSE "refused"])
win_leave == win_call([room EXCEPT !.last = "left"])
win_connect(ok) == win_call(room)
win_setup_push_stream(media, ok) == win_call(setupPushStreamInternal(room, media, ok).room)

win_handle_data(type, ec) ==
    /\ platform = "win" /\ room.registered
    /\ type \in 0 .. 6 /\ ec \in 0 .. 1
    /\ told' = tell(handlers[type + 1], ec = 0)
    /\ UNCHANGED <<platform, bee, room, q, mainq, audio, glitch, calls>>

-----------------------------------------------------------------------------

RoomNext ==
    \/ initialize \/ uninitialize \/ openSession \/ closeSession
    \/ \E uid \in Uid \cup {"nil"} : join(uid)
    \/ \E uid \in Uid : connect(uid) \/ disconnect(uid) \/ getAudioOutputLevel(uid)
    \/ leave \/ getAudioInputLevel \/ switchCamera
    \/ \E media \in MediaTypes : setupPushStream(media)
    \/ \E type \in 0 .. 7, ec \in 0 .. 2 : handleData(type, ec) \/ win_handle_data(type, ec)
    \/ \E ok \in BOOLEAN :
        \/ \E sent \in BOOLEAN : run_queue(sent, ok)
        \/ win_open(ok) \/ win_init(ok) \/ win_join(ok) \/ win_connect(ok)
        \/ \E media \in MediaTypes : win_setup_push_stream(media, ok)
    \/ win_leave \/ run_main \/ audioSession_didDetectPlayoutGlitch

RoomSpec == room_init /\ [][RoomNext]_roomVars

-----------------------------------------------------------------------------
(* Properties.                                                             *)

\* Once the main queue has run its blocks the audio session of the device is
\* on exactly when the last join or leave that was run is a join that was not
\* refused, whichever of the joins before it were refused, sent or could not be
\* serialized and however often the room was left: what two serial queues do
\* one after the other leaves neither the audio of a refused join on nor that
\* of an accepted one off.  The audio session follows the commands only: the
\* error that answers a join, and the end of the room, leave it on, as does
\* the join that could not be serialized.
AudioFollows ==
    platform = "ios" /\ mainq = <<>> => (audio <=> room.last \in {"sent", "unsent"})

\* After the application was told that it left the room nothing more is
\* reported to it by the queue, although notifications were waiting there.  (A
\* glitch whose thread has taken the sink before is.)
LeftQuiet == [][told.what = "leave" => told' = told]_roomVars
=============================================================================
