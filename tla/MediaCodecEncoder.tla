------------------------- MODULE MediaCodecEncoder -------------------------
(***************************************************************************)
(* The hardware video encoder of Android: MediaCodecVideoEncoder           *)
(* (src/src/platform/android/androidmediaencoder_jni.cc) with the Java     *)
(* class it drives.  Every call runs on the codec thread, where a frame    *)
(* is fed to the codec and remembered in input_frame_infos_ until a poll   *)
(* or the next call finds it encoded.  Any call of the codec may fail; the *)
(* encoder then asks for the software encoder, if WebRTC has one, or       *)
(* releases the codec and configures another.  Java stops a codec on a     *)
(* thread of its own and waits for it five seconds.                        *)
(*                                                                         *)
(* A handler is a step.  What it can end in is a set of encoders, or of    *)
(* outcomes: an encoder and whether the call succeeded.                    *)
(*                                                                         *)
(* The codec itself is Android's: it encodes the frames in the order they  *)
(* came and drops none; the configuration frames it makes stay in Java.    *)
(* Rates, time stamps, key frame requests and statistics are left out, and *)
(* so is an exception left pending in JNI when initEncode() throws.        *)
(* Textures come only to an encoder that has an EGL context.               *)
(***************************************************************************)
EXTENDS Naturals, Sequences, Functions

CONSTANTS
    Frame,
    Size,                              \* of a frame
    MAX_ENCODER_Q_SIZE,
    ENCODER_STALL_FRAMEDROP_THRESHOLD,
    SwEncoder,                         \* can WebRTC encode this codec itself?
    MaxTasks                           \* releases of a codec that may hang at a time

ASSUME EncoderAssumption ==
    /\ MAX_ENCODER_Q_SIZE \in Nat
    /\ ENCODER_STALL_FRAMEDROP_THRESHOLD \in Nat \ {0}
    /\ SwEncoder \subseteq BOOLEAN
    /\ MaxTasks \in Nat

VARIABLES
    enc,       \* the encoder, C++ and Java
    client     \* what the engine has called last: "closed", "open",
               \* "refused" (InitEncode has failed) or "deleted"

encVars == <<enc, client>>

\* mediaCodec.  A dead codec is not null and answers no more.
NoCodec == [state |-> "null", queued |-> <<>>, encoded |-> <<>>]
DeadCodec == [NoCodec EXCEPT !.state = "dead"]
LiveCodec == [NoCodec EXCEPT !.state = "live"]

\* The fields that are not set by the constructor are set by InitEncode before
\* they are used.
new_encoder(sw) ==
    [inited |-> FALSE, use_surface |-> FALSE, size |-> CHOOSE n \in Size : TRUE,
     sw_fallback_required |-> FALSE, sw_encoder |-> sw,
     input_frame_infos |-> <<>>, drop_next_input_frame |-> FALSE,
     full_queue_frame_drops |-> 0,
     poll |-> FALSE,                   \* is a message to this encoder posted?
     codec |-> NoCodec,
     held |-> FALSE,                   \* mediaCodecThread # null
     tasks |-> 0,                      \* of the executor, not yet at their end
     failed_check |-> FALSE]           \* an RTC_CHECK has failed: the process is gone

fine(e) == [enc |-> e, ok |-> TRUE]
failed(e) == [enc |-> e, ok |-> FALSE]

\* The encoders a call may leave, and those it leaves when it succeeds or not.
left(R) == {r.enc : r \in R}
succeeded(R) == left({r \in R : r.ok})
refused(R) == left({r \in R : ~r.ok})

\* After a call with the outcomes R, when it has succeeded, comes Op.
then(R, Op(_)) == {failed(e) : e \in refused(R)} \cup UNION {Op(e) : e \in succeeded(R)}

-----------------------------------------------------------------------------
(* Errors, releasing and configuring.                                      *)

\* ProcessHWErrorOnCodecThread(false).
fall_back(e) == [e EXCEPT !.sw_fallback_required = @ \/ e.sw_encoder]

\* Java's release().  It stops the codec in a task and waits for that for five
\* seconds.  The executor has one thread for its tasks, and the caller
\* goes on after five seconds whatever is left of them.  What release throws
\* after that comes from EGL.
release_outcomes(e) ==
    LET gone(n) == [e EXCEPT !.codec = NoCodec, !.held = FALSE, !.tasks = n]
        late == {n \in 0..e.tasks + 1 : n <= MaxTasks}
    IN IF ~e.held THEN {failed(e)}
       ELSE {fine(gone(n)) : n \in late}
            \cup {failed(gone(n)) : n \in {n \in late : e.use_surface}}

ReleaseOnCodecThread(e) ==
    LET outcomes == release_outcomes(e)
    IN IF ~e.inited THEN {fine(e)}
       ELSE {fine([f EXCEPT !.poll = FALSE, !.inited = FALSE, !.use_surface = FALSE]) :
                f \in succeeded(outcomes)}
            \cup {failed(fall_back(f)) : f \in refused(outcomes)}

\* Java's initEncode() and the input buffers.  There is a codec for byte
\* buffers, or the factory had made no encoder; one for textures may be
\* missing.  false leaves mediaCodecThread set.
init_outcomes(e) ==
    LET java(c) == [e EXCEPT !.held = TRUE, !.codec = c]
    IN IF e.held THEN {failed(e)}      \* "Forgot to release()?"
       ELSE {failed(java(NoCodec)), failed(java(DeadCodec)), fine(java(LiveCodec))}
            \cup {IF e.use_surface THEN failed(e) ELSE failed(java(LiveCodec))}

\* Faulty variant: the frames of the codec before are still remembered.
Init_keeps_infos(e, size, use_surface) ==
    LET fresh == [e EXCEPT !.size = size, !.full_queue_frame_drops = 0,
                           !.drop_next_input_frame = FALSE, !.use_surface = use_surface]
        outcomes == init_outcomes(fresh)
    IN IF e.sw_fallback_required THEN {fine(e)}
       ELSE {fine([f EXCEPT !.inited = TRUE]) : f \in succeeded(outcomes)}
            \cup {failed(fall_back(f)) : f \in refused(outcomes)}

InitEncodeOnCodecThread(e, size, use_surface) ==
    LET fresh == [e EXCEPT !.size = size, !.full_queue_frame_drops = 0, !.input_frame_infos = <<>>,
                           !.drop_next_input_frame = FALSE, !.use_surface = use_surface]
        outcomes == init_outcomes(fresh)
    IN IF e.sw_fallback_required THEN {fine(e)}
       ELSE {fine([f EXCEPT !.inited = TRUE]) : f \in succeeded(outcomes)}
            \cup {failed(fall_back(f)) : f \in refused(outcomes)}

ResetCodecOnCodecThread(e) ==
    LET again(f) == InitEncodeOnCodecThread(f, f.size, FALSE)
    IN then(ReleaseOnCodecThread(e), again)

\* ProcessHWErrorOnCodecThread(true).
ProcessHWError(e) == IF e.sw_encoder THEN {failed(fall_back(e))} ELSE ResetCodecOnCodecThread(e)

\* What an error leaves of the encoders in S.
after_error(S) == left(UNION {ProcessHWError(e) : e \in S})

-----------------------------------------------------------------------------
(* Outputs.                                                                *)

\* n outputs have been dequeued, each matched with the oldest input left.
dequeued(e, n) ==
    LET rest(q) == SubSeq(q, n + 1, Len(q))
    IN [e EXCEPT !.codec.encoded = rest(@), !.input_frame_infos = rest(@)]

\* The encoder after n outputs that went well: a callback may have asked for
\* the next frame to be dropped.
delivered(e, n) ==
    {[dequeued(e, n) EXCEPT !.drop_next_input_frame = @ \/ drop] :
        drop \in IF n = 0 THEN {FALSE} ELSE BOOLEAN}

\* Faulty variant: an error is left to the caller, and the poll ignores it.
Deliver_leaves_error(e) ==
    IF e.codec.state = "live" THEN {fine(f) : f \in delivered(e, Len(e.codec.encoded))}
    ELSE {failed(e)}

\* An exception of Java ends the loop with WEBRTC_VIDEO_CODEC_ERROR, which is
\* not zero and so true; an answer of Java that tells of an error, with false.
DeliverPendingOutputs(e) ==
    LET outputs == Len(e.codec.encoded)
        between == UNION {delivered(e, n) : n \in 0..outputs}
        within == {dequeued(f, 1) : f \in UNION {delivered(e, n) : n \in 0..outputs - 1}}
        stopped == after_error(between \cup within)
    IN CASE e.codec.state = "null" -> {fine(f) : f \in after_error({e})}
         [] e.codec.state = "dead" -> {failed(f) : f \in after_error({e})}
         [] OTHER -> {fine(f) : f \in delivered(e, outputs) \cup stopped}
                     \cup {failed(f) : f \in stopped}

\* The poll: it goes on for as long as the encoder is initialised.
OnMessage ==
    /\ enc.poll /\ ~enc.failed_check
    /\ IF ~enc.inited THEN enc' = [enc EXCEPT !.poll = FALSE]
       ELSE \E r \in DeliverPendingOutputs([enc EXCEPT !.poll = FALSE]) :
               enc' = [r.enc EXCEPT !.poll = TRUE]
    /\ UNCHANGED client

-----------------------------------------------------------------------------
(* Inputs.                                                                 *)

\* The frame has been taken by the codec.
fed(e, f) ==
    [e EXCEPT !.codec.queued = Append(@, f), !.input_frame_infos = Append(@, f), !.poll = TRUE]

\* The encoders after the frame was fed and what is ready delivered.
after_feeding(e, f) ==
    LET outcomes == DeliverPendingOutputs(fed(e, f))
    IN succeeded(outcomes) \cup after_error(refused(outcomes))

failed_check(e) == [e EXCEPT !.failed_check = TRUE]

\* dequeueInputBuffer() and EncodeByteBufferOnCodecThread.  What an encoder that
\* is not initialised reads past the end of input_buffers_ may be taken or not.
EncodeByteBuffer(e, f) ==
    LET broken == after_error({e})
    IN CASE e.codec.state # "live" -> broken
         [] e.codec.state = "live" /\ e.use_surface -> {e, failed_check(e)} \cup broken
         [] OTHER -> {e} \cup broken \cup after_error(broken) \cup after_feeding(e, f)

\* EncodeTextureOnCodecThread.  checkOnMediaCodecThread throws outside the try.
EncodeTexture(e, f) ==
    LET broken == after_error({e})
    IN CASE ~e.use_surface -> {failed_check(e)}
         [] e.use_surface /\ ~e.held -> after_error(broken)
         [] e.use_surface /\ e.held /\ e.codec.state # "live" -> broken
         [] OTHER -> broken \cup after_feeding(e, f)

\* MaybeReconfigureEncoderOnCodecThread: whether the release fails is not asked.
MaybeReconfigure(e, frame) ==
    IF frame.texture = e.use_surface /\ frame.size = e.size THEN {fine(e)}
    ELSE UNION {InitEncodeOnCodecThread(f, frame.size, frame.texture) :
                f \in left(ReleaseOnCodecThread([e EXCEPT !.size = frame.size]))}

\* A drop is counted no further than the threshold it is compared with.
count_drop(e) ==
    IF e.full_queue_frame_drops = ENCODER_STALL_FRAMEDROP_THRESHOLD THEN e
    ELSE [e EXCEPT !.full_queue_frame_drops = @ + 1]

\* After the outputs, the encoders that go on either drop the frame, because a
\* callback asked for it or because too many are inside, or encode it.
EncodeOnCodecThread(e, frame) ==
    LET outputs == DeliverPendingOutputs(e)
        resets == UNION {ProcessHWError(f) : f \in refused(outputs)}
        going_on == succeeded(outputs) \cup succeeded(resets)
        told == {f \in going_on : f.drop_next_input_frame}
        full == {f \in going_on \ told : Len(f.input_frame_infos) > MAX_ENCODER_Q_SIZE}
        counted == {count_drop(f) : f \in full}
        stuck == {f \in counted : f.full_queue_frame_drops >= ENCODER_STALL_FRAMEDROP_THRESHOLD}
        ready == UNION {MaybeReconfigure([f EXCEPT !.full_queue_frame_drops = 0], frame) :
                        f \in going_on \ (told \cup full)}
    IN IF e.sw_fallback_required \/ ~e.inited THEN {e}
       ELSE refused(resets)
            \cup {[f EXCEPT !.drop_next_input_frame = FALSE] : f \in told}
            \cup (counted \ stuck) \cup after_error(stuck)
            \cup refused(ready)
            \cup UNION {IF frame.texture THEN EncodeTexture(f, frame.id)
                        ELSE EncodeByteBuffer(f, frame.id) : f \in succeeded(ready)}

-----------------------------------------------------------------------------
(* The calls of the engine, each run by the codec thread.  The engine      *)
(* releases an encoder before it initialises it again, sends frames and    *)
(* rates in between, and deletes an encoder it has done with.              *)

engine_calls(from, encoders) ==
    /\ client \in from /\ ~enc.failed_check
    /\ enc' \in encoders

InitEncode(size, use_surface) ==
    /\ client = "closed" /\ ~enc.failed_check
    /\ \E r \in InitEncodeOnCodecThread(enc, size, use_surface) :
          enc' = r.enc /\ client' = IF r.ok THEN "open" ELSE "refused"

\* One frame that is not inside is as good as another.
Encode(size, texture) ==
    LET inside == Range(enc.input_frame_infos) \cup Range(enc.codec.queued \o enc.codec.encoded)
        id == CHOOSE f \in Frame : f \notin inside
    IN /\ Frame \ inside # {}
       /\ engine_calls({"open"}, EncodeOnCodecThread(enc, [id |-> id, size |-> size, texture |-> texture]))
       /\ UNCHANGED client

\* SetRatesOnCodecThread, with rates other than the last.
SetRateAllocation ==
    /\ ~enc.sw_fallback_required
    /\ engine_calls({"open"}, after_error({enc}) \cup IF enc.codec.state = "live" THEN {enc} ELSE {})
    /\ UNCHANGED client

Release ==
    /\ engine_calls({"open", "refused"}, left(ReleaseOnCodecThread(enc)))
    /\ client' = "closed"

\* The destructor: Release, and the codec thread is stopped.
Delete ==
    /\ engine_calls({"closed", "open", "refused"}, {[e EXCEPT !.poll = FALSE] : e \in left(ReleaseOnCodecThread(enc))})
    /\ client' = "deleted"

-----------------------------------------------------------------------------
(* The codec and the thread that stops it.                                 *)

CodecEncodes ==
    /\ enc.codec.queued # <<>>
    /\ enc' = [enc EXCEPT !.codec.queued = Tail(@),
                          !.codec.encoded = Append(@, Head(enc.codec.queued))]
    /\ UNCHANGED client

CodecDies ==
    /\ enc.codec.state = "live"
    /\ enc' = [enc EXCEPT !.codec = DeadCodec]
    /\ UNCHANGED client

\* A stop that has hung returns, and the task reads mediaCodec again to
\* release it; or a task that had to wait begins, and stops what it finds.
TaskEnds ==
    /\ enc.tasks > 0
    /\ enc' = [enc EXCEPT !.tasks = @ - 1, !.codec = IF @ = NoCodec THEN NoCodec ELSE DeadCodec]
    /\ UNCHANGED client

EncoderTypeOK ==
    /\ client \in {"closed", "open", "refused", "deleted"}
    /\ enc.codec.state \in {"null", "dead", "live"}
    /\ \A q \in {enc.input_frame_infos, enc.codec.queued, enc.codec.encoded} : q \in Seq(Frame)

-----------------------------------------------------------------------------

EncoderInit == enc \in {new_encoder(sw) : sw \in SwEncoder} /\ client = "closed"

EncoderNext ==
    \/ \E size \in Size, texture \in BOOLEAN : InitEncode(size, texture) \/ Encode(size, texture)
    \/ SetRateAllocation \/ Release \/ Delete
    \/ OnMessage \/ CodecEncodes \/ CodecDies \/ TaskEnds

EncoderFairness == WF_encVars(OnMessage) /\ WF_encVars(CodecEncodes)

EncoderSpec == EncoderInit /\ [][EncoderNext]_encVars /\ EncoderFairness

-----------------------------------------------------------------------------
(* Properties.                                                             *)

\* What the codec has of the frames is what input_frame_infos_ tells of them,
\* in the same order, so that each output gets the time stamp of its frame
\* through every reset and reconfiguration; an initialised encoder with
\* frames inside has a poll posted; and at most one frame more than
\* MAX_ENCODER_Q_SIZE is inside.
EncoderInv ==
    /\ EncoderTypeOK
    /\ enc.inited /\ enc.codec.state = "live" =>
         enc.codec.encoded \o enc.codec.queued = enc.input_frame_infos
    /\ enc.inited /\ enc.input_frame_infos # <<>> /\ client # "deleted" => enc.poll
    /\ Len(enc.input_frame_infos) <= MAX_ENCODER_Q_SIZE + 1

\* A frame the codec has taken leaves the encoder, encoded or with the codec
\* that is given up, without another call of the engine; unless the software
\* encoder takes over, the encoder was not initialised when it took the frame,
\* or EGL failed in a release (the codec is then gone and inited_ still true).
FrameLeaves ==
    \A f \in Frame :
        f \in Range(enc.input_frame_infos) ~>
            \/ f \notin Range(enc.input_frame_infos)
            \/ enc.sw_fallback_required \/ enc.failed_check
            \/ ~enc.inited \/ ~enc.held

\* No RTC_CHECK of the encoder fails: a frame is encoded only by an encoder
\* that is configured for it.
ChecksHold == ~enc.failed_check
=============================================================================
