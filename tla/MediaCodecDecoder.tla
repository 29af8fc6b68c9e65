------------------------- MODULE MediaCodecDecoder -------------------------
(***************************************************************************)
(* The hardware video decoder of Android: MediaCodecVideoDecoder           *)
(* (src/src/platform/android/androidmediadecoder_jni.cc) with the Java     *)
(* class it drives and the surface texture it decodes to.                  *)
(*                                                                         *)
(* Decode() checks a frame on the thread of its caller and has the codec   *)
(* thread decode it, which may poll for outputs in between, or meet an     *)
(* error.  A decoder too far behind is drained first, while the codec and  *)
(* the texture thread go on.  A frame decoded to the surface waits in a    *)
(* queue of Java, is rendered, and comes back as a texture that one frame  *)
(* at a time may use.                                                      *)
(*                                                                         *)
(* A step on the codec thread is a set of outcomes: a decoder and whether  *)
(* the call succeeded.  The codec itself is Android's: it decodes the      *)
(* frames in the order they came and drops none, and the surface announces *)
(* every image it is given.  The frames are counted: the queues of Java    *)
(* and of the codec are both in order, so that an output is given the time *)
(* stamps of its frame as long as they are of one length.  Sizes, picture  *)
(* formats, statistics and logs are left out.                              *)
(***************************************************************************)
EXTENDS Naturals

CONSTANTS
    CodecType,                         \* codecType_: a subset of "VP8", "VP9", "H264"
    kMaxPendingFrames,                 \* for each of them
    MAX_QUEUED_OUTPUTBUFFERS,          \* or the number of the output buffers, if less
    MaxReleases                        \* releases of a codec that may hang at a time

ASSUME DecoderAssumption ==
    /\ CodecType \subseteq {"VP8", "VP9", "H264"}
    /\ kMaxPendingFrames \in [CodecType -> Nat]
    /\ MAX_QUEUED_OUTPUTBUFFERS \in Nat \ {0}
    /\ MaxReleases \in Nat

VARIABLES
    dec,       \* the decoder, C++ and Java
    call,      \* of Decode(): "none", "resize", "key" (its checks still to be
               \* made), "posted" to the codec thread, or "draining" there
    owner      \* what the engine of WebRTC has called last: "closed", "open",
               \* "refused" (InitDecode has failed) or "deleted"

decVars == <<dec, call, owner>>

\* The surface texture with its listener.
NoTexture ==
    [bufferToRender |-> FALSE, renderedBuffer |-> FALSE,      \* # null
     images |-> 0,                     \* rendered, not yet announced
     hasPendingTexture |-> FALSE, isTextureInUse |-> FALSE,
     taken |-> FALSE]                  \* does a frame in C++ use the texture?

no_codec == [state |-> "null", queued |-> 0, decoded |-> 0]
dead_codec == [no_codec EXCEPT !.state = "dead"]
live_codec == [no_codec EXCEPT !.state = "live"]

new_decoder(codecType, use_surface) ==
    [codecType |-> codecType, use_surface |-> use_surface,
     inited |-> FALSE, sw_fallback_required |-> FALSE, key_frame_required |-> TRUE,
     behind |-> 0,                     \* frames_received_ - frames_decoded_
     poll |-> FALSE,                   \* is a message to this decoder posted?
     codec |-> no_codec,
     held |-> FALSE,                   \* mediaCodecThread # null
     releases |-> 0,                   \* of the executor, not yet at their end
     decodeStartTimeMs |-> 0,          \* the lengths of two queues
     dequeuedSurfaceOutputBuffers |-> 0,
     texture |-> NoTexture,
     thrown |-> FALSE]                 \* an RTC_CHECK or a listener has failed

works(d) == [dec |-> d, ok |-> TRUE]
fails(d) == [dec |-> d, ok |-> FALSE]

\* The decoders after a call that worked, and after one that failed.
worked(R) == {r.dec : r \in {r \in R : r.ok}}
broken(R) == {r.dec : r \in {r \in R : ~r.ok}}

\* After a call with the outcomes R, when it has worked, comes Op.
and_then(R, Op(_)) == {fails(d) : d \in broken(R)} \cup UNION {Op(d) : d \in worked(R)}

live(d) == d.held /\ d.codec.state = "live"
max_pending_frames(d) == kMaxPendingFrames[d.codecType]

-----------------------------------------------------------------------------
(* Releasing, configuring and resetting.                                   *)

\* Java stops the codec on a thread of its own, which it waits for five
\* seconds.  What it throws comes from the surface, released after that.
release_decoder(d) ==
    LET gone(n) == [d EXCEPT !.codec = no_codec, !.held = FALSE, !.releases = n, !.texture = NoTexture]
        late == {n \in 0..d.releases + 1 : n <= MaxReleases}
    IN {works(gone(n)) : n \in late} \cup {fails(gone(n)) : n \in {n \in late : d.use_surface}}

\* No message to the decoder is left.
stopped(d) == [d EXCEPT !.inited = FALSE, !.poll = FALSE]

ReleaseDecodeOnCodecThread(d) ==
    IF ~d.inited THEN {works(d)}
    ELSE {[r EXCEPT !.dec = stopped(@)] : r \in release_decoder(d)}

sw_fallback(d) == [d EXCEPT !.sw_fallback_required = TRUE]

ResetVariables(d) == [d EXCEPT !.key_frame_required = TRUE, !.behind = 0]

\* Java's initDecode().  false leaves mediaCodecThread set.
initDecode(d) ==
    LET java(c) == [d EXCEPT !.held = TRUE, !.codec = c]
        configured == [java(live_codec) EXCEPT !.decodeStartTimeMs = 0,
                           !.dequeuedSurfaceOutputBuffers = 0, !.texture = NoTexture]
    IN IF d.held THEN {fails(d)}       \* "Forgot to release()?"
       ELSE {fails(java(no_codec)), fails(java(dead_codec)), works(configured)}

\* Without memory for a reference to an input buffer, the decoder is left
\* initialised and has no poll.
InitDecodeOnCodecThread(d) ==
    LET released == ReleaseDecodeOnCodecThread(d)
        fresh == {ResetVariables(f) : f \in worked(released)}
        configured == UNION {initDecode(f) : f \in fresh}
        ready == {[f EXCEPT !.inited = TRUE] : f \in worked(configured)}
        no_surface == {f \in fresh : f.use_surface}
    IN {fails(sw_fallback(f)) : f \in broken(released) \cup no_surface \cup broken(configured) \cup ready}
       \cup {works([f EXCEPT !.poll = TRUE]) : f \in ready}

\* Java's reset().  The texture and its listener stay as they are.
java_reset(d) ==
    LET flushed == [d EXCEPT !.codec = live_codec, !.decodeStartTimeMs = 0, !.dequeuedSurfaceOutputBuffers = 0]
    IN {fails(d)} \cup IF live(d) THEN {works(flushed)} ELSE {}

ResetDecodeOnCodecThread(d) ==
    LET R == java_reset(ResetVariables(stopped(d)))
    IN {fails(sw_fallback(f)) : f \in broken(R)}
       \cup {works([f EXCEPT !.inited = TRUE, !.poll = TRUE]) : f \in worked(R)}

\* There is no software for H.264 to fall back to.  Whether the release failed
\* is not asked.
ProcessHWErrorOnCodecThread(d) ==
    LET released == ReleaseDecodeOnCodecThread(d)
        free == worked(released) \cup broken(released)
    IN IF d.codecType # "H264" THEN {sw_fallback(f) : f \in free}
       ELSE LET again == UNION {InitDecodeOnCodecThread(f) : f \in free}
            IN worked(again) \cup broken(again)

after_HWError(D) == UNION {ProcessHWErrorOnCodecThread(d) : d \in D}

-----------------------------------------------------------------------------
(* The texture.  Its thread is apart from the codec thread.                *)

\* tryDeliverTextureFrame, and onTextureFrameAvailable of the listener, which
\* throws while it holds a texture and when it waits for none.
tryDeliverTextureFrame(d) ==
    LET t == d.texture
    IN IF ~t.hasPendingTexture \/ t.isTextureInUse THEN d
       ELSE [d EXCEPT !.texture.hasPendingTexture = FALSE, !.texture.isTextureInUse = TRUE,
                      !.texture.bufferToRender = FALSE, !.texture.renderedBuffer = TRUE,
                      !.thrown = @ \/ t.renderedBuffer \/ ~t.bufferToRender]

announced(d) ==
    tryDeliverTextureFrame([d EXCEPT !.texture.images = @ - 1, !.texture.hasPendingTexture = TRUE])

\* The last reference to a frame is gone.
returned(d) ==
    tryDeliverTextureFrame([d EXCEPT !.texture.taken = FALSE, !.texture.isTextureInUse = FALSE])

\* What the thread of the texture may have made of d in the meantime.
meanwhile(d) ==
    LET arrived(f) == IF f.texture.images > 0 THEN {f, announced(f)} ELSE {f}
        freed(f) == IF f.texture.taken THEN {f, returned(f)} ELSE {f}
    IN UNION ({arrived(f) : f \in freed(d)} \cup {freed(f) : f \in arrived(d)})

\* Faulty variant: a buffer is rendered while another waits for its texture.
MaybeRender_at_once(d) ==
    LET given == [d EXCEPT !.dequeuedSurfaceOutputBuffers = @ - 1, !.texture.bufferToRender = TRUE]
    IN CASE d.dequeuedSurfaceOutputBuffers = 0 -> {works(d)}
         [] d.dequeuedSurfaceOutputBuffers > 0 /\ ~live(d) -> {fails(given)}
         [] OTHER -> {fails(given), works([given EXCEPT !.texture.images = @ + 1])}

\* The first buffer of the queue is rendered, unless one waits for its texture.
MaybeRenderDecodedTextureBuffer(d) ==
    LET given == [d EXCEPT !.dequeuedSurfaceOutputBuffers = @ - 1, !.texture.bufferToRender = TRUE]
        waits == d.dequeuedSurfaceOutputBuffers = 0 \/ d.texture.bufferToRender
    IN CASE waits -> {works(d)}
         [] ~waits /\ ~live(d) -> {fails(given)}
         [] OTHER -> {fails(given), works([given EXCEPT !.texture.images = @ + 1])}

-----------------------------------------------------------------------------
(* Outputs.                                                                *)

\* An output is given to Out.  A format the decoder does not know is an error.
dequeueOutputBuffer(d, Out(_)) ==
    CASE ~d.held -> {fails(d)}
      [] d.held /\ d.decodeStartTimeMs = 0 -> {works(d)}
      [] d.held /\ d.decodeStartTimeMs > 0 /\ d.codec.state # "live" -> {fails(d)}
      [] OTHER -> {fails(d)}
            \cup IF d.codec.decoded = 0 THEN {works(d)}
                 ELSE Out([d EXCEPT !.codec.decoded = @ - 1, !.decodeStartTimeMs = @ - 1])

\* frames_decoded_ is counted for a frame dropped in Java as well.
decoded_one(d) == [d EXCEPT !.behind = @ - 1]

\* A buffer that is too small, or cannot be returned, is an error.
byte_output(d) ==
    LET copied(f) == {works(decoded_one(f)), fails(f)}
    IN dequeueOutputBuffer(d, copied)

\* The texture that is ready, or else the frame that has to be dropped.
take_texture(d, timeout) ==
    LET free == [d EXCEPT !.texture.renderedBuffer = FALSE]
        use(f) == {works([decoded_one(f) EXCEPT !.texture.taken = TRUE])}
        full == \/ d.dequeuedSurfaceOutputBuffers >= MAX_QUEUED_OUTPUTBUFFERS
                \/ timeout /\ d.dequeuedSurfaceOutputBuffers > 0
        dropped == [decoded_one(d) EXCEPT !.dequeuedSurfaceOutputBuffers = @ - 1]
    IN CASE d.texture.renderedBuffer -> and_then(MaybeRenderDecodedTextureBuffer(free), use)
         [] ~d.texture.renderedBuffer /\ full -> {fails(d)} \cup IF live(d) THEN {works(dropped)} ELSE {}
         [] OTHER -> {works(d)}

\* dequeueTextureBuffer: with a timeout, it waits for the texture thread.
texture_output(d, timeout) ==
    LET queue(f) == {works([f EXCEPT !.dequeuedSurfaceOutputBuffers = @ + 1])}
        look(f) == UNION {take_texture(g, timeout) : g \in IF timeout THEN meanwhile(f) ELSE {f}}
    IN and_then(and_then(dequeueOutputBuffer(d, queue), MaybeRenderDecodedTextureBuffer), look)

dec_DeliverPendingOutputs(d, timeout) ==
    CASE d.behind = 0 -> {works(d)}
      [] d.behind > 0 /\ d.use_surface -> texture_output(d, timeout)
      [] OTHER -> byte_output(d)

\* The poll: it goes on for as long as the decoder is initialised.
dec_OnMessage ==
    /\ dec.poll /\ call # "draining" /\ ~dec.thrown
    /\ LET next == [dec EXCEPT !.poll = FALSE]
           R == dec_DeliverPendingOutputs(next, FALSE)
       IN dec' \in IF ~dec.inited THEN {next}
                   ELSE {[d EXCEPT !.poll = TRUE] : d \in worked(R)} \cup after_HWError(broken(R))
    /\ UNCHANGED <<call, owner>>

-----------------------------------------------------------------------------
(* Inputs.  The engine decodes frames after it has initialised a decoder,  *)
(* and releases it before it initialises it again or deletes it.           *)

InitDecode ==
    /\ owner = "closed" /\ ~dec.thrown
    /\ \E r \in IF dec.sw_fallback_required THEN {works(dec)} ELSE InitDecodeOnCodecThread(dec) :
          dec' = r.dec /\ owner' = IF r.ok THEN "open" ELSE "refused"
    /\ UNCHANGED call

\* Decode() on the thread of the engine, up to the first call of the codec
\* thread: the frame may have another size than the last.
Decode ==
    /\ owner = "open" /\ call = "none" /\ ~dec.thrown
    /\ ~dec.sw_fallback_required /\ dec.inited
    /\ call' \in {"resize", "key"}
    /\ UNCHANGED <<dec, owner>>

\* The codec is flushed, or released and configured again.
Resize ==
    /\ call = "resize" /\ ~dec.thrown
    /\ \E r \in CASE dec.use_surface /\ dec.codecType # "VP9" -> ResetDecodeOnCodecThread(dec)
                  [] dec.sw_fallback_required -> {works(dec)}
                  [] OTHER -> InitDecodeOnCodecThread(dec) :
          /\ dec' = IF r.ok THEN r.dec ELSE sw_fallback(r.dec)
          /\ call' = IF r.ok THEN "key" ELSE "none"
    /\ UNCHANGED owner

\* A frame may be a complete key frame, and it may be empty.
CheckKeyFrame(key, empty) ==
    /\ call = "key" /\ ~dec.thrown
    /\ dec' = [dec EXCEPT !.key_frame_required = @ /\ ~key]
    /\ call' = IF empty \/ (dec.key_frame_required /\ ~key) THEN "none" ELSE "posted"
    /\ UNCHANGED owner

behind_too_far == dec.behind > max_pending_frames(dec)

\* One round of the loop that drains the decoder, or its timeout.
Drain ==
    /\ call \in {"posted", "draining"} /\ behind_too_far /\ ~dec.thrown
    /\ LET R == dec_DeliverPendingOutputs(dec, TRUE)
       IN \/ dec' \in worked(R) /\ call' = "draining"
          \/ dec' \in after_HWError(broken(R) \cup {dec}) /\ call' = "none"
    /\ UNCHANGED owner

\* The frame is copied and queued, and what is ready is delivered.  The input
\* buffers of a decoder that has failed to refer to them are null.
feed(d) ==
    LET counted == [d EXCEPT !.behind = @ + 1]
        stamped == [counted EXCEPT !.decodeStartTimeMs = @ + 1]
        R == dec_DeliverPendingOutputs([stamped EXCEPT !.codec.queued = @ + 1], FALSE)
    IN after_HWError({d, stamped}) \cup worked(R) \cup after_HWError(broken(R))
       \cup IF d.sw_fallback_required THEN {[d EXCEPT !.thrown = TRUE]} ELSE {}

\* Without an input buffer, what is ready is delivered and it is tried again.
DecodeOnCodecThread ==
    /\ call \in {"posted", "draining"} /\ ~behind_too_far /\ ~dec.thrown
    /\ LET R == dec_DeliverPendingOutputs(dec, TRUE)
           fed == {d \in {dec} \cup worked(R) : live(d)}
       IN dec' \in after_HWError(worked(R) \cup broken(R)) \cup UNION {feed(d) : d \in fed}
    /\ call' = "none"
    /\ UNCHANGED owner

ReleaseDecode ==
    /\ owner \in {"open", "refused"} /\ call = "none" /\ ~dec.thrown
    /\ \E r \in ReleaseDecodeOnCodecThread(dec) : dec' = r.dec
    /\ owner' = "closed"
    /\ UNCHANGED call

\* The destructor: Release, and the codec thread is stopped.
DeleteDecoder ==
    /\ owner \in {"closed", "open", "refused"} /\ call = "none" /\ ~dec.thrown
    /\ \E r \in ReleaseDecodeOnCodecThread(dec) : dec' = [r.dec EXCEPT !.poll = FALSE]
    /\ owner' = "deleted"
    /\ UNCHANGED call

-----------------------------------------------------------------------------
(* The codec, the thread that stops it and the thread of the texture.      *)

outside(d) == dec' = d /\ UNCHANGED <<call, owner>>

CodecDecodes ==
    /\ dec.codec.queued > 0
    /\ outside([dec EXCEPT !.codec.queued = @ - 1, !.codec.decoded = @ + 1])

DecoderDies ==
    /\ dec.codec.state = "live"
    /\ outside([dec EXCEPT !.codec = dead_codec])

\* A stop that has hung returns, and the task reads mediaCodec again to release
\* it; or a task that had to wait begins, and stops what it finds.
ReleaseEnds ==
    /\ dec.releases > 0
    /\ outside([dec EXCEPT !.releases = @ - 1, !.codec = IF @.state = "null" THEN @ ELSE dead_codec])

FrameAvailable == dec.texture.images > 0 /\ ~dec.thrown /\ outside(announced(dec))
ReturnTextureFrame == dec.texture.taken /\ ~dec.thrown /\ outside(returned(dec))

-----------------------------------------------------------------------------

DecoderInit ==
    /\ dec \in {new_decoder(t, s) : t \in CodecType, s \in BOOLEAN}
    /\ call = "none" /\ owner = "closed"

DecoderNext ==
    \/ InitDecode \/ Decode \/ Resize \/ Drain \/ DecodeOnCodecThread
    \/ \E key, empty \in BOOLEAN : CheckKeyFrame(key, empty)
    \/ ReleaseDecode \/ DeleteDecoder
    \/ dec_OnMessage \/ CodecDecodes \/ DecoderDies \/ ReleaseEnds
    \/ FrameAvailable \/ ReturnTextureFrame

DecoderSpec == DecoderInit /\ [][DecoderNext]_decVars

-----------------------------------------------------------------------------
(* Properties.                                                             *)

Texture ==
    [bufferToRender : BOOLEAN, renderedBuffer : BOOLEAN, images : Nat,
     hasPendingTexture : BOOLEAN, isTextureInUse : BOOLEAN, taken : BOOLEAN]

Decoder ==
    [codecType : CodecType, use_surface : BOOLEAN, inited : BOOLEAN,
     sw_fallback_required : BOOLEAN, key_frame_required : BOOLEAN,
     behind : Nat, poll : BOOLEAN, held : BOOLEAN, releases : 0..MaxReleases,
     codec : [state : {"null", "dead", "live"}, queued : Nat, decoded : Nat],
     decodeStartTimeMs : Nat, dequeuedSurfaceOutputBuffers : Nat,
     texture : Texture, thrown : BOOLEAN]

DecoderTypeOK ==
    /\ dec \in Decoder
    /\ call \in {"none", "resize", "key", "posted", "draining"}
    /\ owner \in {"closed", "open", "refused", "deleted"}

\* The frames of a decoder: in the codec, in the queue of Java, on their way to
\* the texture and waiting there.
inside(d) ==
    d.decodeStartTimeMs + d.dequeuedSurfaceOutputBuffers
        + (IF d.texture.bufferToRender THEN 1 ELSE 0) + (IF d.texture.renderedBuffer THEN 1 ELSE 0)

\* The frames inside are those the decoder counts, but for one that was on its
\* way to the texture when the codec was flushed, and each frame in the codec
\* has its time stamps.
Counted(d) ==
    /\ d.codec.state = "live" => d.decodeStartTimeMs = d.codec.queued + d.codec.decoded
    /\ d.behind <= inside(d) /\ inside(d) <= d.behind + 1

\* One frame at a time uses the texture, either one that waits in Java or one
\* that C++ has taken; and a buffer waits for the texture exactly when an image
\* is on its way.
Owned(t) ==
    /\ t.isTextureInUse <=> (t.renderedBuffer \/ t.taken)
    /\ ~(t.renderedBuffer /\ t.taken)
    /\ t.images <= 1 /\ ~(t.images = 1 /\ t.hasPendingTexture)
    /\ t.bufferToRender <=> (t.images = 1 \/ t.hasPendingTexture)

\* Whatever fails, is reset or runs late on the two threads, an initialised
\* decoder knows of the frames inside and has a codec and a poll that will look
\* for them (or asks for the software decoder); it is never more than one frame
\* above the limit behind, its queue leaves room for a buffer, a frame is not
\* rendered before the one in front of it was taken, and the listener of the
\* texture throws nothing.
DecoderInv ==
    /\ DecoderTypeOK
    /\ dec.inited =>
         /\ dec.held /\ dec.codec.state # "null"
         /\ Counted(dec) /\ Owned(dec.texture)
         /\ ~(dec.texture.bufferToRender /\ dec.texture.renderedBuffer)
         /\ dec.dequeuedSurfaceOutputBuffers < MAX_QUEUED_OUTPUTBUFFERS
         /\ dec.behind <= max_pending_frames(dec) + 1
         /\ dec.poll \/ dec.sw_fallback_required
    /\ dec.thrown => dec.sw_fallback_required
=============================================================================
