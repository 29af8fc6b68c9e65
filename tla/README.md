# A verification project for the bee SDK

The bee SDK (`src/src`) is a C++ library for live video.  An application
initializes it, opens sessions, registers services with them and sends commands
that a Lua script inside the session executes; the SDK talks to a certification
server, a status server and HTTP, websocket and WebRTC peers.  This directory
holds TLA+ models of its core, the TLC configurations that check them and proofs
for TLAPS.

Run TLC in this directory with `tlc -config X.cfg MODULE`, and the proofs of each
module named `..._proof`, and of `DataLemmas`, with `tlapm MODULE.tla`.

## 1. Inventory

### Threads

* **Application threads** call the facades `Bee` and `BeeService`.  Each
  synchronous call posts a handler to an `io_service` and blocks on a
  `BeePromise`.
* **The io thread** (`IOService::run_service`) executes the posted handlers, timer
  callbacks and socket completions one at a time.
* **The thread inside `uninitialize`** (or inside an `initialize` that fails) runs
  `force_stop` itself, *while the io thread is still running*.
* Lua's websocket service, the log writer and WebRTC have threads of their own.

### Components

| Component | State | Operations | Hard about it | What makes it correct |
|---|---|---|---|---|
| `SimpleStateMachine` | table, current state | `switch_state` | a current state outside the table is an out-of-bounds read | an input without a transition is refused |
| `BeeSession` | state, engine, live session id, services, capabilities | `open`, `close`, `execute`, `reg_svc`, `unreg_svc` | checks and uses separated in time; failed open | nothing of the last user is left when it is handed out |
| `SessionManager` | all/idle/busy tables | `init`, `uninit`, `open_idle_session`, `close_busy_session`, `get_busy_session` | the last idle session | the two tables split the sessions |
| `BeeEntrance` | its state, manager, io service, current live session id | `start`, `stop`, `sync_*`, `do_*`, `force_stop` | interleaved callers, timeouts, stop against the io thread | no session lost or owned twice; every call returns |
| `BeePromise` | `honored_`, timer | `honor`, `wait`, `handle_timeout` | timeout races the handler | honored once; the waiter is released |
| `IOService` | service, thread | `start`, `stop` | `stop` drops what is posted | nobody waits on what is dropped |
| `TcpStateMachine` | resolved endpoints, index, counters, timer, socket | resolve, connect, handshake, send, receive | total and per-endpoint timeouts against completions of replaced sockets | every endpoint gets its try; a stale completion has no effect; the connect ends |
| `HttpSession` | request, response, redirects | `request`, `redirect`, headers, body | the states are reused for a redirection | the exchange is with the host that was named |
| `AsyncStateMachine`, `State` | current state, output event, router | `install`, `invoke`, `done` | output events are reused | a result reaches the router once |
| `StatusdClient` | login, `sid_`, write queue | `open`, `set_live_sid`, `handle_write`, `close` | id set while the login is under way; write error; reconnect | the server learns the current id |
| `CAClient` | states, the server's key, md5 | `request_core`, the ten states | a replaced client lives on and answers; nothing bounds a receive | the script kept is not older than the md5 it is compared by; `start` returns |
| `AsyncWaitTimer`, `LuaTimer` | running, cancel flag, count | `async_wait`, `cancel`, `on_timer` | a cancelled wait still calls its handler | no call of the script after close; as many calls as asked for |
| Lua HTTP session, reader | request, buffers, waiting coroutine | `get`, `read`, `close` | what a read returns is more or less than asked for; coroutines resumed inside handlers | every get is answered, with the whole body |
| Lua websocket service | `wsi_table_`, queues | `open`, `connect`, `write`, `close`, callbacks of the service's thread | table, flags and queue shared with the service's thread | no call after close; no message stuck in a queue |
| `comLib::Thread`, `SafeQueue` | running flag, token queues | `SynStart`, `SynStop` | tokens pushed while a queue is cleared; destruction after stop | nothing is destroyed under the thread |
| Video cache, data promises | ring, counters, one promise | `WriteData`, `SyncReadData`, `Scanf`, `WaitUntil` | honoring resumes a coroutine that makes the next promise | bytes in order; no wakeup lost |
| IOBuffer of a script | buffer, read and write positions | `resize`, `reset`, `consume`, `produce`, `read` | growing and aligning move the data | bytes stay where they were put |
| WebRTC peer connections | connection, callbacks | `create`, `create_offer`, `set_remote_desc`, `close` | the io, signaling and frame threads | every description answered; quiet after close |
| Lua engine | Lua state, coroutines, capabilities | `open`, `execute`, `sdk_SvcNotify`, `close` | the stack discipline of reading tables; coroutines that yield past close | what open reads is what the script says |
| Logger | file, volumes, posted lines | `Open`, `Append`, `Close`, rolling | a crash between two renames | nothing but the oldest volume is lost |
| White board (iOS) | pages, layers, undo stacks, users | drawing, paging, undo, redo, messages | two queues, touches interrupted by remote commands | what is seen can be undone; lines end in the room |
| Video room (iOS, Windows) | room, streams, audio session | `join`, `leave`, notifications | three queues; joins that fail | audio is off outside a room; quiet after leave |
| HTTP messages | URL, fields in a list and a map | `set_header`, `set_range`, `serialize_to_string`, parsing | the two copies of every field | what is written is read back |
| Media encoder (Android) | codec, frames inside, poll, fallback | `InitEncode`, `Encode`, `OnMessage`, `Release` | every call of the codec may fail halfway; a stop that hangs | each output is matched with its frame; every frame leaves |
| Media decoder (Android) | codec, frames inside, surface texture, poll, fallback | `InitDecode`, `Decode`, `OnMessage`, `Release` | checks on one thread, decoding on another, textures announced on a third; a flush that forgets half of the queues | the frames inside are those that are counted; one frame at a time has the texture |
| Media API, Android adapters, utilities | — | wrappers and conversions | — | — |

`PROJECT.json` lists each with its files, whether it is modelled, and the hazards
each is exposed to, with the line where they bite.

### How they interact

`Bee`/`BeeService` → `BeeEntrance` (post + promise) → io thread →
`SessionManager` → `BeeSession` → `SimpleStateMachine` and the Lua engine.
`BeeEntrance` hands the live session id to `StatusdClient`, which like `CAClient`
and `HttpSession` is an `AsyncStateMachine` whose first two states are
`TcpResolveState` and `TcpConnectState`.

## 2. Modules

### `SimpleStateMachine`, `BeeSession`, `SessionManager`

Definitions without behaviour of their own: the table-driven machine, one session
as a record with its operations as sets of records they may lead to, and the pool
as actions over `session`, `idle_sessions` and `busy_sessions`.

`switch_state` refuses an entry only when it is `kInvalidSimpleState` (-1).  The
session's table is filled with `kBeeSessionState_Invalid` instead, which is 5.  The
model keeps this: an input without a transition moves a session to `"Invalid"`, and
the next input of such a session, which the code looks up beyond the end of its
vector, may lead anywhere (`switch_state(..., any, ...)`).

The Lua engine is abstracted to its presence; whether the script opens, and which
capabilities it reports, are inputs.  `generate_live_session_id` draws 32 random
characters: the model lets it draw any id no session holds (`FreshSids`).

### `BeeEntrance`

Composes them with the callers, the promises and the io thread.

| Model | Code |
|---|---|
| `current_state`, `svc_table` | `current_state_`, `init_state_machine` |
| `manager`, `ios` | `session_mgr_ != NULL`, `check_ios()` |
| `queue`, `running` | handlers posted to the `io_service`; the `do_execute` it is inside of |
| `thread[t]` | where an application thread is: away, in `BeePromise::wait`, about to return |
| `honored` in a task | `honored_` of its promise |
| `own[t]`, `handle[s]` | handles the application holds; `handle_` of a `BeeService` |
| `stopping`, `to_close`, `closing` | where `force_stop` is |

A handler is one action, because handlers do not interleave with each other.  The
exception is `do_execute`, which is three (find the session, test, run): after a
timeout its caller is gone and may call `uninitialize`, so that `force_stop` runs on
another thread in the middle of it.  The other calls have no timeout: their
callers are blocked until the handler has ended, and `bee.h:113` forbids calls
concurrent with `uninitialize`, so that `force_stop` cannot meet them.  `Quiescent`
is that demand.  `Initialize` also stands for an `initialize` whose script cannot be
read followed by nothing: it undoes what it did.

`sid` in a task is no state of the code; it records the live session a command was
meant for, to state `LateExecuteStaysInSession`.

### `SessionPool`

What the SDK promises: `open` hands out a session nobody holds, or fails for want of
one (only when all are held) or of a script; `close` gives it back; each
takes effect at one instant between call and return.  No queue, threads, tables or
state machines.  `MCBeeEntrance` gives the refinement mapping: a session's holder is
the thread its only claim belongs to, a thread's call is read off `thread[t]`.

### `TcpConnect`

`TcpResolveState` and `TcpConnectState`, with the redirection of `HttpSession` that
runs them again.  A socket operation ends in a completion, which waits in `ready`
until its handler runs; replacing the socket turns the pending one into an
`aborted` completion and marks the waiting ones `old`.  Time is counted in periods of
the check timer (200 ms).

With a `connect_timeout` above `endpoint_timeout_` (10 s), when the last endpoint has
timed out and is tried again, the aborted completion of the replaced socket carries the
current index and is taken for the result of the new one.  `ExchangeHasSocket` and
`SuccessIsFinal` exclude that configuration, which only a caller of
`CAClient::async_request_core` could ask for.  After a redirection `tried_count_` is not
reset either, so that `AllEndpointsTried` is stated of the first round.

### `StatusdClient`

The client of the status server with the send buffer of `TcpStateMachine`
(`cwiobuff_`, `qwiobuff_`), `TcpSendState`, and the parts of `BeeEntrance` that use the
client: the periodic timer that replaces a client which is not logged in, `set_sid`
from `do_open_session` and `do_close_session`, and `write_net_log` on the logger's
thread.  Clients are numbered; an old one lives on while handlers posted for it
wait.  `queue` is the io thread's; a timer or a session handler may run between any
two of its entries, because it may have been posted at any earlier time.  Resolving
and connecting only end here, well or not (`TcpConnect` has them in detail).
`submitted` and `received` record what was given to `write` and what reached the
server.

`Settled` is an assumption about time: the timer's period is 10000 s
(`bee_entrance.h:49`, passed to `set_wait_seconds`), so that a connect or login has
ended when it fires.  The comment there says `//10S`; with such a period `stop`, which
does nothing for a client that is not connected, would leave the old client to log in
beside the new one.

### `CAClient`

The ten states of the client with what each accepts, and the part of `BeeEntrance`
around it: the update timer that makes a client per period, `check_lua_md5`,
`handle_ca_data`, `close_ca_client`, and `start`, which waits on `init_promise_`.  It
is the start of a build without `FORCE_LOCAL_LUA`.  A script is a version number which
stands for its md5 too; a message that cannot be decrypted is one that does not
`open`.  `honor` is two steps, the value and then `honored_`, because `start_failed`
on the application's thread honors the same promise: in between, the value is set
twice, `std::promise` throws, and the model ends (`"crashed"`).  Also seen in the model:
a posted `close_ca_client` may stop the next client, and a failed connect reports
Timeout a second time.

### `LuaHttp`

The framework of states (`install`, `invoke`, `done`, `switch_to_next`, the router and
its reused output events), `HttpSession` with its states on it, and the session and
reader of the Lua module.  A session is one record `h`; each function of the code is an
operator from sessions to sessions, a handler of the io thread is one action.  The
stream a server sends is a sequence of tokens, and a read returns any number of them
that may have arrived.  `Modes` are the ways a script makes a session: synchronous or
not, reading by itself or not, one-off or not.

Connecting is an operation that may be repeated for the next endpoint, beside the timer
that checks it (`check`); the detail is in `TcpConnect`.  Only a connect that succeeds
stops the timer.  After `Connect_Fail` it goes on and reports `Timeout` too, and after a
`Timeout` the pending attempt may still succeed or fail.  A coroutine hears the first of
these and nothing more; the callback of `async_get` hears each.  `timeouts` counts the
Timeouts apart from `answers`, and `GetAnswered` says how many there may be: one for each
connect.  Two ways end the process (`crash`): a callback set with `set_callback` that
closes its own session leaves `main_` NULL for the `lua_pop` that follows
(`lua_http_session.cpp:225`), and a machine that was stopped after a redirection was
posted finds neither io service nor socket in its next resolve or connect.

Two answers are kept out of the run because a `get` is never answered then: a
chunked response without a chunk, and a redirection without a `Location`.  Further
behaviours in the model: the callback of an asynchronous get is called twice when the
script's body callback refuses the body; `load` does nothing for a body that is not
chunked, so that a reader waits.

### `LuaLws` and `LuaTimer`

`LuaLws` has the io thread (the calls of the script, the posted events, the connect
timer, `close_all` and `SynStop`) against the thread of the service, whose callbacks
hold `mutex_`.  libwebsockets is external: a connection is connecting, open, closing,
destroyed and gone, and each of its callbacks is an action.  `close` is two steps
(`begin_close`, `end_close`) since the service's thread may see `closing_` before the
service is told.  `close_connection` and `set_closed` are the two writes of
`lua_lws_service.cpp:331`: between them (`torn`) the mutex is held, but the io thread
reads the flags without it, and what is in its queue, or a timer, may run.
`wait_for` reads `close_promise_` without the mutex; when it is gone the model ends.
A connect has a timer if its timeout is positive (`timed`); `ios_`, the other condition,
is never NULL in a session that a script has made.

`Quiet` states what holds and the two gaps that are left.  An event handled between the
two writes reaches the script of a closed session.  And `connect` forgets the timer of an
earlier attempt without cancelling it, while `handle_connect_timeout` looks at neither
flag, so that the first timer may call the script after `close`.  `ReadsWhole` and
`ConnectAnswered` are stated with the same care: fragments read through the first gap are
not in order with the rest, and a connect without a timeout on a silent network is never
answered.
`LuaTimer` is `AsyncWaitTimer` with the timers of a script.

### `LuaWebrtc`

The module, the peer connections, the frame sink and the service over three
threads.  A call of the script blocks the io thread in `rtc::Thread::Invoke` (`call`)
until the signaling thread has run the inner function; observations are posted back.
WebRTC is external.  A sink is stopped before `RemoveSink` waits for the frame it renders
(`stop_sink`, `RemovesSink`): `OnFrame`, which reads `video_renderer_` twice, may find it
gone and end the process.

### `LuaEngine`

Opening a session's script, `SetSysInfo`, `get_capability` with Lua's stack discipline
abstracted to the order of the keys of each entry, coroutines that yield and are
resumed later, `sdk_SvcNotify`, and closing.  `script` is what the script holds.  The
code compares keys by their first letters (`strncmp` with `svc`, 3 and `desc`, 4), so that
a key of the model is a class of strings, of which an entry may have several: the later
one replaces the earlier.  An entry may be no table, a description no string, a key of any
type.  A number for a key is turned into a string under `lua_next`, which raises an error
outside a protected call: `panic`.  A table that has both the number and its text as keys
is left out: `lua_next` then goes on, from the wrong place.
A script without `SetSysInfo` is refused: `lua_getglobal` always pushes a value, so that
the test of `lua_engine.cpp:232`, whose comment says that the function is not mandatory,
never holds.

### `VideoCache`, `IOBuffer`, `LuaIOBuffer`

The ring of the player's cache: free-running unsigned counters (`Width` values instead
of 2^32) modulo a size that may change, and the promise of data the waiting coroutine
holds.  A coroutine that is resumed runs inside the call that resumed it and may read
again: `again`.  A read of a full ring which does not begin at index 0 runs past the
end of the ring; `misread` excludes it.  `GivenUpReads` are the reads a coroutine makes
when `Scanf` or `WaitUntil` gives its promise up at once: with any, the promise made in
between is dropped, so that the run has none.  `LuaIOBuffer` is the buffer module of
the scripts over `IOBuffer`.

### `Logger`

Writers format a line and post it to the logger's own thread, which appends it.  A
rolling is as many steps as it renames files, so that a crash may come between any
two (`Crash`), after which the logger is opened on what is there.  `log_volume_size` and the names by second are
there; the volumes keep their lines, `VolumesContiguous` compares them with
everything ever written.

### `ServiceThread`

`comLib::Thread` with its two queues of tokens, as `LuaLwsService` uses them: a
`SafeQueue` is two semaphores and a mutex, and `Clear`, `Push` and `Pop` are several
steps each.  `delayed` is a thread held up longer than the ten seconds a wait lasts;
the properties are of the others.

### `WhiteBoard`, `WhiteBoardView`, `BeeVideoRoom`

The services an application uses on iOS (and the room on Windows).  Blocks wait in two
serial queues, one of the SDK and one of the main thread, and the io thread only
dispatches to them.  `WhiteBoardView` has the pages, layers and undo stacks as operators
on the record of what the main thread keeps; a layer is a number.

The white board does not keep its promises everywhere, and its properties name where.
`bee_white_board_view.mm` handles touches that begin, move and end, but not one that the
system cancels (`touchesCancelled`, which does nothing): the line that was sent is never
ended, and its layer is seen but cannot be undone (`lost`).  A message may fail to be
serialized or sent, and the view goes on (`sendDataInternal`).  A layer that redo brought
back stays on the screen when another page is turned to (`stray`).  And when a page is
asked for while another is loading, the load that ends last is shown, which need not be
the one asked for last (`late`).

In the room `last` is what the application knows of its last join: it was refused, it
could not be serialized (`unsent`: the code answers Success and the room is never
joined), it was sent, and `left` after the leave that followed.  An answer that carries an
error, and a room that the server ends, leave the audio session on: `handleData` looks at
neither.  `AudioFollows` therefore ties the audio to the last command and not to being in
the room.  The playout glitch of the audio session reads `_sink` off the queue.

### `HttpMessage`

Requests and responses as sequences of tokens.  A message keeps its fields twice, in
order and by name; the functions are operators on the record, and a behaviour is a
sequence of changes to a request.

### `MediaCodecEncoder`

The hardware encoder of Android, C++ and Java as one record `enc`.  All its calls run on
the codec thread, so that a call is one action; `EncodeOnCodecThread` and what it calls
are operators that return every encoder the call may leave, since each call into Java
may throw, answer with an error or succeed.  `held` is `mediaCodecThread`, which Java's
check looks at, `inited` is what C++ looks at.  `tasks` are the releases of a codec that outlast the five seconds
Java waits.  `codec` is Android's `MediaCodec`, external: it encodes frames in order,
drops none and may die at any time.  `failed_check` is an `RTC_CHECK` that ended the
process.

`FrameLeaves` excepts an encoder whose release failed because of EGL: `inited_` is
still true then, and every reset fails at the release of a codec that is gone.  Two more
behaviours of the code are in the model and under no property.  A failed `initEncode`
leaves `held` true and `inited` false; `Release` then does nothing, and every later
`initEncode` throws "Forgot to release()?", unless the software encoder takes over.  And
the task that stops a codec reads the field `mediaCodec` again for its `release()`: after
a stop that took longer than five seconds this is the codec of the next
initialisation (`TaskEnds`), which dies under an initialised encoder; `EncoderInv` and
`FrameLeaves` hold through both.

### `MediaCodecDecoder`

The hardware decoder of Android, C++ and Java as one record `dec`, and `call`, where
`Decode` is.  A step on the codec thread is a set of outcomes, as in the encoder, but
`Decode` is several actions: its tests run on the caller's thread, the frame is decoded
on the codec thread, and in between, as while a decoder that is too far behind is
drained, the codec and the thread of the surface texture go on (`CodecDecodes`,
`FrameAvailable`), and outside the draining the poll does too.

| Model | Code |
|---|---|
| `behind` | `frames_received_ - frames_decoded_` |
| `decodeStartTimeMs`, `dequeuedSurfaceOutputBuffers` | the lengths of the queues of that name |
| `held`, `codec` | `mediaCodecThread`, `mediaCodec` |
| `texture` | `TextureListener` and `SurfaceTextureHelper`; `taken`: a frame in C++ uses the texture |
| `poll` | a message to the decoder is posted |
| `releases` | codecs whose stop outlasts the five seconds Java waits for it |

The codec is external: it decodes in order and drops nothing; the surface announces
every image it was given; `callback_` is registered before the first frame.  Frames are
counted, not named: the queues of Java and of the codec are both in order, so that an
output is given the time stamps of its frame as long as they are of one length.

Two behaviours of the code are in the model and under no property.  `reset` flushes the
codec, but the frame on its way to the texture stays; it is counted as one of the new
frames when it is delivered, and from then on there is one frame more inside than the
decoder knows of, so that every frame comes out one input late (`Counted` allows for
it).  And "Always start with a complete key frame" (`androidmediadecoder_jni.cc:557`) is
tested before the frame goes to the codec thread, which may have a new configuration by
then; an empty key frame passes the test and clears `key_frame_required_` as well.

### How they are composed

`BeeEntrance` composes sessions, the pool, the promises and the io thread.  `CAClient`
and `StatusdClient` are composed with the parts of `BeeEntrance` that own them,
`LuaEngine` with the session that owns it, `LuaHttp` with the state framework.  The
modules `MCConnect`, `MCScript`, `MCModules` and `MCParts` only put side by side
parts that share nothing (`ScriptBuffers` joins the two kinds of buffers of a script):
each behaviour explores one of them (`part`) while the
others stay in their initial state, so that the state space is the sum and not the
product of theirs, and a property of one part is trivially true while another is
explored.

## 3. Runs

| Run | Question | Instance |
|---|---|---|
| `entrance` | Is the pool consistent; is a session lost or owned twice; does every waiter have its task; does a late command stay in its session; is the reported id ever stale; does the entrance implement `SessionPool`? | 2 threads, 2 sessions, 1 service, 3 ids, 3 posted handlers |
| `entrance_live` | Does every call return, and `uninitialize` too? | 2 threads, 1 session |
| `connect` | Are all endpoints tried before giving up; does a connect end even if the peer never answers; does the exchange find a connected, secured socket; is success final?  Does each packet of the status client leave once and in order although four sources share the buffer; does anything get stuck; does the server learn the live session id; is a client that is not logged in replaced?  Is an HTTP message read as it was written? | 3 endpoints, start index 1, with and without TLS, timeouts 2 and 5 over 2, 2 redirections; 2 clients, 2 sessions, 2 posted handlers; 3 changes of a request |
| `script` | Is the script kept ever older than the md5 it is compared by; does `start` succeed only with a script; does it return?  Is a closed peer connection quiet; is every description answered? | 2 clients, 2 published scripts, 1 backup address; 1 peer connection |
| `modules` | Is every get answered, with the whole body; is a one-off session closed?  Is a closed socket or timer quiet; is a connect reported once and a message read whole; does a queued message leave, a connect get an answer, a timer fire as often as asked? | 8 kinds of answer, 8 modes; 1 socket, 2 messages, 2 fragments; 2 timers |
| `parts` | Does the white board show its page, can what is seen be undone, does every line end; does the audio follow the last join or leave, is a left room quiet; does the cache keep its bytes and lose no wakeup; do the logger's volumes keep everything but the oldest; does the service outlive its thread; does the engine read the script right; does a decoder know of the frames inside, with a poll that looks for them, and has its texture one owner? | see the constants in `MCParts.cfg` |
| `encoder` | Does an output get the time stamp of its frame through every reset and reconfiguration; is the queue bounded; does every frame leave, without another call? | 3 frames, 2 sizes, queue 1 (the code: 2), stalled after 2 drops (60), with and without a software encoder, 1 late release |
| `session_state` | *violated*: is a session's state always one of its table? | 1 thread, 1 session |
| `unreg` | *violated*: does a service receive nothing after `unreg`? | 1 thread, 2 sessions |
| `redirect_host` | *violated*: does a redirection reach its host? | 1 endpoint per host |
| `statusd_socket` | *violated*: does a write always find its socket? | 2 clients, no session |
| `encoder_checks` | *violated*: is a frame encoded only by an encoder configured for it? | as `encoder` |

### Bounds

* *Two threads* suffice for a caller to interfere with another's call, timeout or
  session, *two sessions* for an idle one beside a busy one and for the pool to be
  exhausted; *three ids* are one more than the sessions, so that a fresh one always
  exists.  Three posted handlers are more than the two threads' pending calls: a
  timed-out command stays behind while its caller posts the next.  A caller may
  leave several timed-out commands behind; beyond `MaxQueue` it does not post.
* Three endpoints from start index 1 make the index wrap around.  With timeouts of 5 and
  2 periods two endpoints time out before the total does, with 2 and 2 both at once.
* `MaxRedirects = 2`: one redirection on fresh state, one on state already reused.
* Two CA clients are one replaced and one current; a third version is published while
  either is anywhere in its exchange.  Which of several backup addresses has answered
  touches nothing the properties are about: there is one.
* One web socket with one connect, timed or not: the table holds one entry, and the hazards
  are between the two threads.  Two messages make the second wait for the first.
* Bodies of at most three bytes, `MaxContentLength = 3`: an empty body, one of the
  maximal length, one and two chunks, cut by reads of one or two tokens.
* In `parts`: rings of 2 and 4 with counters of 8 values wrap both ring and counters;
  0, 1 and 3 volumes cover each branch of the rolling, with 5 lines of which two fill a
  volume; three layers and three pages with six inputs undo, redo and turn pages in
  both directions; three openings of the engine outlive a coroutine.  The decoder has
  the limits of the code, 1 pending frame for VP8 and VP9, 4 for H.264, and 3 queued
  outputs, and two releases that hang.
* In `encoder` a queue of 1 holds two frames, one encoded and one not, and a third finds
  it full; two sizes and both kinds of frame make every reconfiguration happen.  A
  second late release would do again what the first does.
* The set `Threads`, `Handles`, `Sids` and `Svcs` are symmetric in `entrance`, which
  checks no liveness.
* Two clients are one replaced and one current.  `MaxPackets = 2` bounds heartbeats and
  log lines only: with the ids of two sessions up to four packets share the buffer,
  so that one is on the socket and two wait.

Deadlock is not checked: every part stops when its bounds are used up or its machine
has reported.

### Fairness

`entrance_live` assumes weak fairness of the io thread and of the thread inside
`force_stop`, which the operating system schedules: both loop without waiting on
anything but their queue and each other.  Nothing is assumed of the callers or of
promise timers, so that `CallReturns` does not rest on a timeout.  `connect`
assumes that the resolver answers (its own timeouts see to it) and that the check
timer fires; nothing is assumed of the peer.  Of the status client it assumes that the
io thread serves its queue, that a connect and a write end one way or the other (TCP
gives up in the end) and that the periodic timer fires.  `script` assumes of the client
of the CA the io thread, the promise's timer and the thread in `start`, and nothing of
the server.  Of the peer connections it assumes that the signaling thread runs what it is
asked and that WebRTC answers a description it has accepted, well or not.  Their
fairness of the posted handlers is strong: the io thread is blocked in `Invoke`
again and again, and each time gets back to its queue, from which it takes the handlers
in order.  `modules` assumes the io thread, the service's thread, expiring timers and that
libwebsockets ends a connection it is closing; the script and the network owe nothing.
`encoder` assumes the codec thread, which runs the poll, and a codec that encodes what
it was fed or dies, in the end.

### What the violated runs show

* **`session_state`** — `init_state_machine` fills the session's table with 5 and not
  -1, so the test `Invalid_State` at `bee_session.cpp:90` never fires.  A command
  times out, its caller calls `uninitialize`, `force_stop` closes the session while the
  late `do_execute` is inside, and the session's state becomes 5, which indexes the
  vector outside its bounds at the next input.
* **`unreg`** — `BeeService::reg` overwrites `handle_`.  A service registered with two
  sessions stays registered with the first after `unreg` has returned Success,
  against `bee_service.h:42`.
* **`redirect_host`** — `handle_resolve` appends to the endpoints of the first
  host, so that the redirected request goes to the host that answered with the
  redirection.
* **`statusd_socket`** — `write_log` tests `logined_` on the logger's thread and posts
  `inner_write_log`, which tests nothing.  When a write fails and the timer stops the
  client in between, `async_write` finds no socket, against the assertion at
  `tcp_state_machine.h:274`.
* **`encoder_checks`** — `DeliverPendingOutputs` returns `WEBRTC_VIDEO_CODEC_ERROR` from
  a `bool` function when Java throws, which is true.  `Encode` goes on with an encoder
  that has fallen back to software; a texture makes it reconfigure, which does nothing
  after a fallback, and `RTC_CHECK(use_surface_)` ends the process.

Further behaviours met on the way, which have no run of their own, are named with their modules above and in the notes of the
hazards.

## 4. Proofs

Every theorem is of the form `Spec => []Inv`, `Spec => Property` for a property about
steps, or the refinement of `SessionPool`, and holds for every value of the constants
that meets the `ASSUME` of the modules; TLC evaluates those in the runs.

`BeeEntrance_proof` proves, for every set of threads, sessions, services, codes and
ids, every assignment of codes to services and every queue bound:

* `TypeCorrect`: `Spec => []TypeOK`.  Not inductive by itself: `Return` adds to `own`
  the handle a thread returns with, which may be `NoHandle` as far as the types say.
  `Answers` is the strengthening: an `open` that answers Success answers with a
  session, and the io thread is never inside anything but a `do_execute`.
* `PoolConsistency`: `Spec => []PoolConsistent`, the most important invariant of the
  pool.
* `SidFreshness`: `Spec => []SidNotStale`.

The two last rest on one inductive invariant, the conjunction of
`PoolConsistent`, `SidNotStale` and

* `Phases`: outside `initialize` and `uninitialize` the entrance is wholly up or wholly
  down, and the manager is gone before the io thread is joined.  Without it,
  `Initialize` could find a handler still running or an id still published.
* `ExecuteInBusy`: while the SDK serves, a `do_execute` under way has found a session
  that is still busy.  Without it, the last step of `do_execute` could switch the
  state of an idle session.

The argument per session is in `OpenUsable`, `OpenFailedReusable`, `CloseReusable`
and `ServeUsable`: opening a reusable session makes it usable, closing a usable one
makes it reusable, serving changes neither.  These need that the input always has a
transition: the wrong filler of the session's table does no harm *while the SDK
serves*, which is why `session_state` needs `force_stop` to be violated.

The assumptions are `SvcAssumption`, `HandleAssumption` and `QueueAssumption`: every
service has a code, the absent values are none of the real ones, the bound on the
queue is a natural number.

Its second half is about what the calls of the application rely on, under the same
assumptions.  A step of the io thread is first reduced to what it does to the
queue and the threads (`HandlerShape`), a call to what it posts (`CallShape`).

* `WaitersServed`: `Spec => []WaiterHasTask`.  The inductive invariant is `Promises`:
  every promise that is not honored belongs to a thread that waits for it, no thread
  has two, and every waiting thread has one.  It also says what makes these survive
  a timeout and a stop: only a command is ever found honored in the queue, while the
  entrance stops nobody is inside a call, and nothing is posted once it is down.
* `NoSessionLost`: `Spec => []NoSessionLeak`.  `Ownership` states the same without
  counting, as the exclusion of any two claims, and for as long as there is a manager,
  which is longer than the SDK serves: `force_stop` closes the sessions one by one.
* `LateExecuteBound`: `Spec => []LateExecuteStaysInSession`.  A handler changes a live
  session id only by opening a session that is idle, to which no queued command is
  bound, or by closing one; `Bound` adds that no close of a command's session is ahead
  of the command in the queue.  That is where the order of one thread's calls comes in.

Last, it proves `ImplementsPool`: `Spec => PoolSpec`.  The refinement mapping
reads the holder of a session off its claim.  `HolderClaims` shows, from `Ownership`,
that the holder is then the one claimant (`HolderIsClaimant`), which turns what a step does to the
claims into what it does to the holders.  Each kind of step has a lemma: a call posted
is the abstract call, `do_open_session` and `do_close_session` are the instants at
which the abstract operation takes effect, a return is a return, `initialize` and the
step of `force_stop` that drops the manager are the abstract `Restart`, and the rest
of a stop, timeouts and the handlers of services and commands are stutters.  One
assumption more, `NoThreadAssumption`: the holder of a free session is no thread.

`CAClient_proof` proves, for every number of clients and versions, every length of a
signature and every number of backup addresses:

* `ScriptCurrent`: `CASpec => []ScriptNotBehindMd5`.
* `StartedWithScript`: `CASpec => []StartHasScript`.

Both rest on `IInv`.  Beside the two invariants it says that the md5 a client was told
is that of a version published by then (`Told`), so that the script downloaded later is
at least as new; and that, until a start has failed, a promise that was set with
Success has a script behind it (`PromiseInv`): `start_failed` sets the promise
without one.  `Accepted` is where the protocol comes in: the body of a message that was
accepted in a state is what the server sends in that state.  The assumption is
`CAAssumption`: versions begin at 2, the local script is 1.

The module goes on to what such a script finds and makes:

* `EngineReads`: `EngineSpec => []EngineInv`, for any scripts, coroutines and session codes.
  The folds of `get_capability` are unrolled, entry after entry and pair after pair, with the
  recursion of `DataLemmas`.  `ScriptType` says which tables there are: any sequences of pairs
  of the kinds of keys, and entries that are no tables.
  The invariant, `IEngine`, adds that where the session is ready the script is loaded and its
  table bound, and where a coroutine waits the session is ready.
  The attempt showed that the model let a session become ready although the error that
  opened it had ended the process; `session_open` now leaves such a session as it was.
* `ClosedStaysQuiet`: `RtcSpec => RtcQuiet`, for any connections (`WebrtcAssumption`).
  `RtcInv` adds that a connection being opened was never closed: what a failed open resets
  had not been silenced.

Of the logger it proves, for any threads, levels, lengths, sizes and number of volumes, clock and
number of restarts:

* `LogHolds`: `LoggerSpec => []LogInv`, and `OldestIsLost`: `LoggerSpec => OnlyOldestLost`,
  from `LoggerOK` (`LoggerKept`).  `Phase` says what the io thread has before it when the logger
  is opening, open, closing or down, so that `Close` is posted behind the lines and nothing behind
  it.  `Stored` says what is on the disk as data: `Volumes` which files there may be, and
  `Contiguous` that each begins where the next older one ends, up to what was written.  A crash
  leaves the disk as the rolling had it, so that this must hold after each rename: `Rolls` says of
  the steps a rolling has left that the oldest volume goes first, the others move from the
  highest down and `bee.log` is created last (`Orderly`), that a rename never finds its target
  taken (`FreeAbove`), and what the index is meanwhile (`Indexed`).  `VolumesContiguous` is stated of the volumes sorted by name and joined; it
  follows from `Contiguous` through the recursion of `DataLemmas`.

`Connect_proof` proves, of the status client, for every number of clients (incarnations),
sessions and packets and every bound of the queue, under `StatusdAssumption` alone:

* `StatusdTypes`: `StatusdSpec => []StatusdTypeOK`.
* `PacketsSentOnce`: `StatusdSpec => []SentOnce`.
* `NothingIsStuck`: `StatusdSpec => []NothingStuck`.
* `SidIsTold`: `StatusdSpec => []SidReachesServer`.

The three last are about one client each, but clients share the io thread's queue, so
`IInv` has a part about the queue and one per client.  `QueueInv`: a handler that waits
fits the state of its client, and of each kind that must be unique (the connect, the
execute, the completion of a write) a client has one.  `ClientInv`: `Phase` says what
each phase of a client implies; `Buffer` says where the current packet is, on the
socket or with its completion waiting, and that a client whose connection broke keeps
it, which is what keeps everything else off the dead socket; `SidInv` says that the
last id told is the client's, or that the login or the pending reset will tell it.  It
needs the packets *written*, not those received: an id is told long before it arrives.
`SentOnce` alone is not inductive, it does not exclude a second completion that would
take a second packet out of the buffer.

Of resolving and connecting it proves, for any hosts, any number of endpoints, any start index
(valid or not) and any timeouts, under `ConnectAssumption` alone:

* `TcpTypes`: `TcpSpec => []TcpTypeOK`, strengthened by `Listed`: the index is never
  negative, and nothing is under way, timer included, before there is a list to index.
* `SocketReady`: `TcpSpec => []ExchangeHasSocket`, and `SuccessStays`:
  `TcpSpec => SuccessIsFinal`.  Both are about `connect_timeout <= endpoint_timeout_`, and
  `Spent` is why: an attempt is never older than the connect, so that the connect's
  timeout always comes before the endpoint's and no attempt is replaced before its
  completion ran.  `SocketInv` then says that there is one operation at a time
  (`OneOperation`), none outside the connect state (`Idle`), and that the completion
  that waits tells what the socket is (`Completed`).
* `EndpointsTried`: `TcpSpec => AllEndpointsTried`, for all timeouts.  `Tried` ties the
  count of attempts to the index, also when attempts are replaced by the timer and
  their completions arrive late: a late completion of an older index is ignored, one of
  the same index finds the list exhausted.  `AroundTheList` is the arithmetic: N
  consecutive indices modulo N, from wherever they start, meet every endpoint.

`Parts_proof` has six parts that share nothing.

* The service thread, `StartFindsStop`: `ThreadSpec => []ThreadInv`, for any threads and
  any size of the queues (`ServiceThreadAssumption`).  While no thread is held up,
  `Phases` says for each place of the caller where the one thread can be and which
  queue holds the one token; `Nobody`, who holds a free lock, is no thread.  No wait can
  then end by its timeout: the caller waits only while a thread moves or the token is
  there.  What happens once a thread was held up is left to the run.
* The video room, `AudioFollowsLast`: `RoomSpec => []AudioFollows`, and `StaysQuiet`:
  `RoomSpec => LeftQuiet`.  `AudioFollows` looks only at empty queues; the invariant,
  `RoomInvariant`, says what the audio session will *settle* to when the blocks of the
  main queue have run, whatever was queued before: on iOS to what the last command asked for.
* The encoder, `FramesStayMatched`: `EncoderSpec => []EncoderInv`, for any frames, sizes,
  length of the queue and threshold (`EncoderAssumption`).  Every handler is a set of
  outcomes made from those of the handlers it calls, so there is a lemma for each that
  says: from an encoder that `Fits` a bound on its frames come encoders that fit it.
  `Encodes` alone raises the bound by one, and `EncodesOnCodecThread` reaches it only
  with no more than `MAX_ENCODER_Q_SIZE` inside.  `EncoderInv` lacks two things to be
  inductive: a live codec is held by its Java thread, and an encoder that is closed, or
  about to be initialised, is `Loose`, so that an initialisation never finds, and
  forgets the frames of, a codec that goes on.
* The decoder, `FramesAreCounted`: `DecoderSpec => []DecoderInv`, for any codec types, limits
  of pending frames, length of the queue of Java and number of releases that hang
  (`DecoderAssumption`).  Again each handler has a lemma about its outcomes.
  `DecoderInvariant` says that an initialised decoder is at `Rest` and `Watched`, or that
  it is `Dormant`: its flush has failed, it has asked for the software decoder, and what is
  left of its texture is nobody's.  Only a decoder that no call is made of may be dormant,
  which is why `call` is in the invariant.  During a call less holds: `Sane` lets the queue
  be full and a buffer be rendered behind an image not yet taken, and the lemmas say which
  step of a delivery restores `Rest`.  The limit is kept because `Decode` feeds a frame only
  to a decoder that has drained to it (`Watched` has the one frame more).
* The buffers of a script, `BytesStay`: `BufferSpec => []BufferIntact`, for any bytes and
  capacities.  `Matches` relates a buffer to what the script expects in it, and there is a
  lemma for each function of `IOBuffer`; those that move bytes (`align`, `resize`) cite
  `MovedBytes`, which says what an overlapping copy leaves where.  The invariant `ObjInv` has
  it of every buffer a script holds.
* The video cache, `CacheServes`: `CacheSpec => [](ReadsInOrder /\ NoWakeupLost)`, for any
  sizes of the ring that divide the width of its counters (`VideoCacheAssumption`; both are
  powers of two in the code).  `RingOK` says that the bytes between the two counters are those
  that were written and not read; `Advance` and `Moved` are the arithmetic, that wrapping a
  counter does not disturb the position in the ring.  `Looks` is where the full ring is
  different: its bytes are looked for in their place or behind the end, so that a read of it
  may copy others, but never takes away bytes that remain.  `Honors` and `Delivers` follow a
  delivery through the coroutine it resumes: what it makes next is a promise that is not
  fulfilled.  `WaiterKept`: `CacheSpec => []CacheInv` if no coroutine reads at once when its
  promise is given up (`GivenUpReads = {NoRead}`, as the run has it): `Held` then says that
  there is a promise whenever someone waits.  `BuffersServe` joins the two for `BuffersInv`.

`Board_proof` is about the white board, for any members, boards, drawing modes and bounds
(`ViewAssumption`, `BoardAssumption`; the modes and boards that are inputs are modes and
boards).

* `SeenIsUndoable`: `BoardSpec => []Undoable`, and `SendsWhole`: `BoardSpec => []SentWhole`.
* `BoardHolds`: `BoardSpec => []BoardInv`, with `PageShown` for pages turned at any speed.

All rest on `IInv` (`BoardKept`).  `Good` is about the view alone: every layer of a page is
a layer of that page, and what is on the screen but on no undo stack (`Open`) is a line of
the current page that its drawer still draws, or whose drawer left, or whose touch the system
took away; what the lists of the view do not have, redo brought back (`Held`).  Lines, members and
messages go through the two queues, so that what a step needs is what the blocks before it
will have done: `Roster` says that in the queue of the SDK a member's joining and leaving
take turns, beginning with what fits `users`; `Alternate` says the same of the beginnings
and ends of a member's lines in the main queue; `Sending` that a local line is closed in the
queue once the finger is up.  All three are `Paired` and `Closed` of `DataLemmas`, two
predicates on a queue and a bit with lemmas for what a push and a pop do to them.
`Loading`, the part for `BoardHolds`, says that at most one page is turned or loading, and
that it is the one the index names; it is given up when a page is asked for while another is
on its way (`late`), and holds again from the next page that is asked for when none is.

`DataLemmas` has the facts about data `Board_proof` cites.  Beside the queues, they are
induction over the naturals stated of a set (`NatInd`, `UpTo`), and that a recursion over
sets of numbers, from the greatest element down, which is what `FoldLeft` is made of,
exists and is computed one number after the other (`RecursionExists`, `RecursionSteps`).
The library's theorems take an operator and cannot be instantiated; these take sets and
functions.  With them the two folds of the view are unrolled: the items of a page that is
loaded are drawn one by one (`LoadsStack`), and cached one by one.

`LuaModules_proof` is about the web sockets and the timers of a script, for any sessions,
connections, timers, intervals, counts and bounds.

* `ClosedIsQuiet`: `Spec => ModulesQuiet`.  That an event is ignored after `close` follows
  from the flags, outside the gap between their two writes: a session that was closed is
  closing or closed.  That the connect timer of a session that connected once calls nothing
  needs more (`SessionOK`): `close` does nothing, and cancels nothing, when the session
  is closed already, which it is after its connection ended.  It is quiet then because a
  connection that ended was answered before, and this is a fact about three places at
  once: `EventsOK` says that in the queue of the io thread the end of a connection is
  behind its answer, `TableOK` that a connection libwebsockets has established or given up
  is answered by then (`Told`), and both outlive the posts of the service's thread and the
  steps of the io thread.  For a timer, `TimerOK`: one that is closed is cancelled, and one
  with a count that waits has calls left.
* `ToldOnce`: `Spec => []ReportedOnce`, for any number of attempts, timed or not: `CallsOK`
  ties what the script was told to the flags `connected_`, `connect_reported` and `closed_`.

`LuaHttp_proof` is about the http exchange of a script, for any options of `get`, verdicts of
the callbacks, sizes of reads, bound on the redirections and maximal length, and for any set of
well-formed responses (`WellFormed`: a redirection has its `Location`, a chunked body has at
least one chunk and only the last, which is not counted, is of size 0).  The hypothesis is
not the code's: section 2 says what happens to `get` without it.  The responses of the run meet it.

* `GetIsAnswered`: `Spec => []GetAnswered`, and `BodyIsIntact`: `Spec => []BodyIntact`, both
  from one inductive invariant, `HttpInv` (`HttpIsOK`).

`HttpInv` says where a session is.  One that has not answered (`Unanswered`) has exactly one
thing under way, a task or an operation of the socket, whatever closes are posted beside it
(`Closes`, `Among`), and it is at a stage where that can run
(`TaskStage`, `OpStage`): `At` counts the tokens of the stream that were consumed, `AtChunk`
and `InChunk` say that what has been cached is the body up to this chunk.  One that has answered
(`Answered`) has nothing left but posted closes, or belongs to a script that reads a chunked body
itself (`Manual`), with one read at a time: `LuaChunk`, `LuaBody` and `LuaInside` are the places
before a size, before a chunk and inside a chunk that was read ahead; `Stuck` is the reader
whose stream broke off or came to its end, where every further size it finds is 0.
The timer of a connect runs beside all of this, also when the connect has failed or the session
has answered: `Checked` has it that there is one for each connect, `Spare` and `Due` that a
connect still to come has its Timeout before it, and `Heard` that a coroutine, which is resumed
once, heard either of a Timeout or of the answer.
The lemmas follow the code: one for each function from sessions to sessions (`DoneFails`,
`NextWorks`, `StepWorks`, `HeaderWorks`, ..., `RunOneWorks`, `TimeoutWorks`), then the network (`CompleteWorks`,
`FailWorks`) and the script (`GetWorks`, `ReadWorks`, `LuaCloseWorks`).  `Stream` and `Body` are made
with the folds of the community modules, which `SumSteps`, `BeforeSteps` and `Flattened` unroll;
`ChunkedStream` says which token is where, and `FollowsConsumed`, `Arrived` and `FollowsCut` that
consuming, receiving and losing tokens keep the place in the stream.  The attempt showed that in
the model a resolve, a connect or a write could not fail, since the guard meant for reads
excluded it; `Fail` now applies it to reads alone.

### Only model-checked

Liveness (`CallReturns`, `StopEnds`, `ConnectReports`, `ClientReplaced`, `StartReturns`,
`ModulesAnswer`, `OneOffCloses`, `SdpAnswered`, `FrameLeaves`) is out of the prover's reach.
Not proved, and checked by the runs only: `ReadsWhole` of a web socket (and with it the whole
of `LwsInv`) and `MessageInv`.  They are about what folds and recursive functions
compute from data; folds can be unrolled, as those of the white board, the engine, the logger
and the stream of a response are, but for these that is not done.

## 5. Not modelled, and the plan

Left out for good:

* the media wrappers and, except for the encoder and the decoder, the Android sources, most
  of which are WebRTC's own;
* the vendored JSON libraries, OpenSSL, libwebsockets, WebRTC and Lua themselves;
* geometry, colours, video and documents of the white board, rendering of the room;
* code nobody calls: `async_open_session`, the asynchronous promises,
  `LuaDefaultHttpSession`, the buffer pool, `SafeDeque`, `SafeList`, `SafeMap`, `SafeSet`,
  `SingleEvent`, `BlockPush` and `BlockPop`, `reset` and the setters of a response;
* garbage collection of a coroutine (`lua_newthread` leaves it unanchored);
* a synchronous call made from `handle_data` on the io thread, which blocks the only
  thread that could honor its promise: nothing in the repository makes or forbids one.

To prove: `ReadsWhole`, with the recursion of `DataLemmas`.
