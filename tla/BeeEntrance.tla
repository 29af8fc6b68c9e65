---------------------------- MODULE BeeEntrance ----------------------------
(***************************************************************************)
(* The service entrance, src/src/service/bee_entrance.cpp, with the Bee    *)
(* and BeeService facades (src/src/api/bee/base) that call it, the         *)
(* promises (bee_promise.cpp) its callers wait on and the io_service       *)
(* thread (network/io_service.cpp) that runs the posted handlers.          *)
(*                                                                         *)
(* Application threads post a handler and block on its promise; the io     *)
(* thread takes the handlers one by one, in the order of their posting.    *)
(* A promise lives in the task that carries it: `honored' is honored_,     *)
(* and honoring it releases the thread that waits.                         *)
(*                                                                         *)
(* bee.h demands that no other call runs while initialize or uninitialize  *)
(* does; the guards Quiescent and `stopping = "no"' are that demand.       *)
(***************************************************************************)
EXTENDS SessionManager, Naturals, Sequences, FiniteSets

CONSTANTS
    Threads,    \* application threads
    MaxQueue    \* bound on the handlers posted and not yet started

ASSUME QueueAssumption == MaxQueue \in Nat

VARIABLES
    current_state,           \* current_state_ of the entrance
    manager,                 \* session_mgr_ != NULL
    ios,                     \* check_ios()
    queue,                   \* posted handlers, oldest first
    running,                 \* the do_execute the io thread is inside of
    thread,                  \* what each application thread does
    own,                     \* handles a thread opened and has not closed
    handle,                  \* handle_ of each service
    current_live_session_id,
    stopping,                \* progress of force_stop
    to_close,                \* busy sessions SessionManager::uninit has left
    closing                  \* the one whose close it is inside of

entranceVars == <<current_state, manager, ios>>
stopVars == <<stopping, to_close, closing>>
vars == <<session, idle_sessions, busy_sessions, current_state, manager, ios,
          queue, running, thread, own, handle, current_live_session_id,
          stopping, to_close, closing>>

-----------------------------------------------------------------------------
SvcState == {"Idle", "Initializing", "Initializd", "Getting_Core", "Ready", "Unitializing"}
SvcInput == {"DoInit", "InitDone", "Get_Core", "Got_Core", "Execute", "DoUninit", "UninitDone"}

\* init_state_machine of the entrance.
svc_table ==
    [s \in SvcState |-> [i \in SvcInput |->
        CASE s = "Idle"         /\ i = "DoInit"     -> "Initializing"
          [] s = "Initializing" /\ i = "InitDone"   -> "Initializd"
          [] s = "Initializd"   /\ i = "Get_Core"   -> "Getting_Core"
          [] s = "Getting_Core" /\ i = "Got_Core"   -> "Ready"
          [] s = "Ready"        /\ i = "Execute"    -> "Ready"
          [] s = "Ready"        /\ i = "Got_Core"   -> "Ready"
          [] s \in {"Initializing", "Initializd", "Getting_Core", "Ready"}
               /\ i = "DoUninit"                    -> "Unitializing"
          [] s = "Unitializing" /\ i = "UninitDone" -> "Idle"
          [] OTHER                                  -> kInvalidSimpleState]]

\* A handler with its promise.  sid is the live session the command was
\* meant for, kept to state LateExecuteStaysInSession.
Op == {"open", "close", "exec", "reg", "unreg"}
Task == [op      : Op,
         thread  : Threads,
         h       : Handles \cup {NoHandle},
         svc     : Svcs \cup {NoSvc},
         timed   : BOOLEAN,
         honored : BOOLEAN,
         sid     : Sids \cup {NoSid}]

Ec == {"Success", "Invalid_State", "Null_Pointer", "Insufficient_Session",
       "Engine_Error", "Invalid_Session", "Session_Not_Opened",
       "Service_Not_Registered", "Service_Not_Supported", "Not_Found",
       "Timeout", "Service_Not_Started", "Invalid_Param", "none"}

\* A thread is outside the SDK, blocked in BeePromise::wait, or about to
\* return from it with the error code (and, from open, the handle).
Thread == [pc : {"idle", "wait", "ret"}, op : Op \cup {"none"},
           h : Handles \cup {NoHandle}, ec : Ec]
Away == [pc |-> "idle", op |-> "none", h |-> NoHandle, ec |-> "none"]
Waiting(o, h) == [pc |-> "wait", op |-> o, h |-> h, ec |-> "none"]
Returning(o, h, e) == [pc |-> "ret", op |-> o, h |-> h, ec |-> e]

NoTask == [step |-> "none"]

Init ==
    /\ session = [h \in Handles |-> new_session]
    /\ idle_sessions = {} /\ busy_sessions = {}
    /\ current_state = "Idle" /\ manager = FALSE /\ ios = FALSE
    /\ queue = <<>> /\ running = NoTask
    /\ thread = [t \in Threads |-> Away]
    /\ own = [t \in Threads |-> {}]
    /\ handle = [s \in Svcs |-> NoHandle]
    /\ current_live_session_id = NoSid
    /\ stopping = "no" /\ to_close = {} /\ closing = NoHandle

-----------------------------------------------------------------------------
(* initialize and uninitialize.                                            *)

Quiescent == \A t \in Threads : thread[t] = Away

\* Bee::initialize on a fresh entrance whose script file can be read: start
\* runs through DoInit, InitDone, Get_Core and Got_Core.  When it cannot be
\* read, force_stop and destroy_instance undo everything start did.
Initialize ==
    /\ Quiescent /\ stopping = "no" /\ current_state = "Idle"
    /\ init
    /\ current_state' = "Ready" /\ manager' = TRUE /\ ios' = TRUE
    /\ UNCHANGED <<queue, running, thread, own, handle, current_live_session_id>>
    /\ UNCHANGED stopVars

\* Bee::uninitialize: stop() switches on DoUninit, then force_stop.
Uninitialize ==
    /\ Quiescent /\ stopping = "no"
    /\ ~refused(svc_table, current_state, "DoUninit")
    /\ current_state' = svc_table[current_state]["DoUninit"]
    /\ stopping' = "closing" /\ to_close' = busy_sessions /\ closing' = NoHandle
    /\ UNCHANGED poolVars
    /\ UNCHANGED <<manager, ios, queue, running, thread, own, handle, current_live_session_id>>

\* Bee::initialize while the SDK runs: start() refuses DoInit, and
\* initialize answers any failure of start with force_stop.
InitializeAgain ==
    /\ Quiescent /\ stopping = "no"
    /\ current_state # "Idle" /\ refused(svc_table, current_state, "DoInit")
    /\ stopping' = "closing" /\ to_close' = busy_sessions /\ closing' = NoHandle
    /\ UNCHANGED poolVars
    /\ UNCHANGED <<current_state, manager, ios, queue, running, thread, own, handle, current_live_session_id>>

\* force_stop, on the application's thread while the io thread still runs:
\* SessionManager::uninit closes the busy sessions one after the other ...
UninitCloseBegin(h) ==
    /\ stopping = "closing" /\ closing = NoHandle /\ h \in to_close
    /\ \E r \in close_begin(session[h]) : session' = [session EXCEPT ![h] = r]
    /\ closing' = h
    /\ UNCHANGED <<idle_sessions, busy_sessions, queue, running, thread, own, handle,
                   current_live_session_id, stopping, to_close>>
    /\ UNCHANGED entranceVars

\* (faulty variant of what follows: the loop does not advance)
UninitCloseEnd_again(h) ==
    /\ closing = h
    /\ \E r \in close_end(session[h]) : session' = [session EXCEPT ![h] = r]
    /\ closing' = NoHandle
    /\ UNCHANGED <<idle_sessions, busy_sessions, queue, running, thread, own, handle,
                   current_live_session_id, stopping, to_close>>
    /\ UNCHANGED entranceVars

UninitCloseEnd(h) ==
    /\ closing = h
    /\ \E r \in close_end(session[h]) : session' = [session EXCEPT ![h] = r]
    /\ closing' = NoHandle /\ to_close' = to_close \ {h}
    /\ UNCHANGED <<idle_sessions, busy_sessions, queue, running, thread, own, handle,
                   current_live_session_id, stopping>>
    /\ UNCHANGED entranceVars

\* ... and drops them with the manager;
UninitClear ==
    /\ stopping = "closing" /\ closing = NoHandle /\ to_close = {}
    /\ uninit_clear
    /\ manager' = FALSE /\ stopping' = "join"
    /\ UNCHANGED <<current_state, ios, queue, running, thread, own, handle,
                   current_live_session_id, to_close, closing>>

\* IOService::stop drops what is still posted and joins the io thread once
\* it has left its handler; reset() and destroy_instance end the instance.
StopJoin ==
    /\ stopping = "join" /\ running = NoTask
    /\ queue' = <<>> /\ ios' = FALSE
    /\ current_state' = "Idle"
    /\ current_live_session_id' = NoSid
    /\ own' = [t \in Threads |-> {}]
    /\ stopping' = "no"
    /\ UNCHANGED poolVars
    /\ UNCHANGED <<manager, running, thread, handle, to_close, closing>>

-----------------------------------------------------------------------------
(* The calls of the application threads.                                   *)

MayCall(t) == thread[t] = Away /\ stopping = "no"

\* The early returns that post nothing: no io_service, or a parameter that
\* is refused (empty command, negative handle).
CallRefused(t) ==
    /\ MayCall(t)
    /\ \E e \in IF ios THEN {"Invalid_Param"} ELSE {"Service_Not_Started"} :
          thread' = [thread EXCEPT ![t] = Returning("none", NoHandle, e)]
    /\ UNCHANGED poolVars
    /\ UNCHANGED entranceVars
    /\ UNCHANGED stopVars
    /\ UNCHANGED <<queue, running, own, handle, current_live_session_id>>

NewTask(o, t, h, s, timed, sid) ==
    [op |-> o, thread |-> t, h |-> h, svc |-> s, timed |-> timed, honored |-> FALSE, sid |-> sid]

\* Faulty variant of Post: the handler overtakes those already posted.
Post_overtaking(task) ==
    /\ ios /\ Len(queue) < MaxQueue
    /\ queue' = <<task>> \o queue
    /\ thread' = [thread EXCEPT ![task.thread] = Waiting(task.op, task.h)]
    /\ UNCHANGED poolVars
    /\ UNCHANGED entranceVars
    /\ UNCHANGED stopVars
    /\ UNCHANGED <<running, current_live_session_id>>

\* Every call that posts ends in io_service post and BeePromise::wait.
Post(task) ==
    /\ ios /\ Len(queue) < MaxQueue
    /\ queue' = Append(queue, task)
    /\ thread' = [thread EXCEPT ![task.thread] = Waiting(task.op, task.h)]
    /\ UNCHANGED poolVars
    /\ UNCHANGED entranceVars
    /\ UNCHANGED stopVars
    /\ UNCHANGED <<running, current_live_session_id>>

\* Faulty variant of sync_open_session: the promise has a timeout.
sync_open_session_timed(t) ==
    /\ MayCall(t)
    /\ Post(NewTask("open", t, NoHandle, NoSvc, TRUE, NoSid))
    /\ UNCHANGED <<own, handle>>

\* sync_open_session: the promise has no timeout.
sync_open_session(t) ==
    /\ MayCall(t)
    /\ Post(NewTask("open", t, NoHandle, NoSvc, FALSE, NoSid))
    /\ UNCHANGED <<own, handle>>

\* close_session by the thread that opened h, or with a handle that names
\* no session.
close_session(t) ==
    /\ MayCall(t)
    /\ \E h \in own[t] \cup {NoHandle} :
          /\ Post(NewTask("close", t, h, NoSvc, FALSE, NoSid))
          /\ own' = [own EXCEPT ![t] = @ \ {h}]
    /\ UNCHANGED handle

\* BeeService::execute with a command, with or without a timeout.
sync_execute(t, s) ==
    /\ MayCall(t)
    /\ \E timed \in BOOLEAN :
          Post(NewTask("exec", t, handle[s], s, timed,
                       IF handle[s] \in own[t] THEN session[handle[s]].live_session_id ELSE NoSid))
    /\ UNCHANGED <<own, handle>>

\* BeeService::reg sets handle_ on the calling thread, then posts.
reg(t, s) ==
    /\ MayCall(t)
    /\ \E h \in own[t] :
          /\ handle' = [handle EXCEPT ![s] = h]
          /\ Post(NewTask("reg", t, h, s, FALSE, NoSid))
    /\ UNCHANGED own

unreg(t, s) ==
    /\ MayCall(t)
    /\ Post(NewTask("unreg", t, handle[s], s, FALSE, NoSid))
    /\ UNCHANGED <<own, handle>>

\* The thread leaves wait(): from here on the application knows the handle.
Return(t) ==
    /\ thread[t].pc = "ret"
    /\ thread' = [thread EXCEPT ![t] = Away]
    /\ own' = IF thread[t].op = "open" /\ thread[t].ec = "Success"
              THEN [own EXCEPT ![t] = @ \cup {thread[t].h}] ELSE own
    /\ UNCHANGED poolVars
    /\ UNCHANGED entranceVars
    /\ UNCHANGED stopVars
    /\ UNCHANGED <<queue, running, handle, current_live_session_id>>

-----------------------------------------------------------------------------
(* The handlers, on the io thread.                                         *)

\* The io thread is free to start the oldest handler, which is one of op.
Starts(o) == ios /\ running = NoTask /\ queue # <<>> /\ Head(queue).op = o

\* Faulty variant of honor: honored_ is not tested.
honor_again(task, h, e) ==
    thread' = [thread EXCEPT ![task.thread] = Returning(task.op, h, e)]

\* BeePromise::honor of a synchronous promise: only the first one counts.
honor(task, h, e) ==
    thread' = IF task.honored THEN thread
              ELSE [thread EXCEPT ![task.thread] = Returning(task.op, h, e)]

\* What the do_... handlers test before they touch a session.
entrance_check ==
    CASE refused(svc_table, current_state, "Execute") -> "Invalid_State"
      [] ~refused(svc_table, current_state, "Execute") /\ ~manager -> "Null_Pointer"
      [] OTHER -> "Success"

HandlerFrame == UNCHANGED <<manager, ios, own, handle, current_state, running>> /\ UNCHANGED stopVars

\* Faulty variant of do_open_session_refused: the last idle session is never
\* handed out.
do_open_session_refused_early ==
    /\ Starts("open")
    /\ entrance_check # "Success" \/ Cardinality(idle_sessions) <= 1
    /\ honor(Head(queue), NoHandle,
             IF entrance_check # "Success" THEN entrance_check ELSE "Insufficient_Session")
    /\ queue' = Tail(queue)
    /\ UNCHANGED poolVars /\ UNCHANGED current_live_session_id
    /\ HandlerFrame

\* do_open_session when it fails before a session is touched ...
do_open_session_refused ==
    LET task == Head(queue)
        e == IF entrance_check # "Success" THEN entrance_check ELSE "Insufficient_Session"
    IN  /\ Starts("open")
        /\ entrance_check # "Success" \/ idle_sessions = {}
        /\ honor(task, NoHandle, e)
        /\ queue' = Tail(queue)
        /\ UNCHANGED poolVars /\ UNCHANGED current_live_session_id
        /\ HandlerFrame

\* ... when the script does not open in the session ...
do_open_session_failed ==
    /\ Starts("open") /\ entrance_check = "Success"
    /\ \E h \in idle_sessions, sid \in FreshSids : open_idle_session_failed(h, sid)
    /\ honor(Head(queue), NoHandle, "Engine_Error")
    /\ queue' = Tail(queue)
    /\ UNCHANGED current_live_session_id
    /\ HandlerFrame

\* ... and when it does.
do_open_session ==
    /\ Starts("open") /\ entrance_check = "Success"
    /\ \E h \in idle_sessions, sid \in FreshSids, caps \in (SUBSET Codes) \ {{}} :
          /\ open_idle_session(h, sid, caps)
          /\ current_live_session_id' = sid
          /\ honor(Head(queue), h, "Success")
    /\ queue' = Tail(queue)
    /\ HandlerFrame

\* Faulty variants of do_close_session: the live session id stays set; a
\* handle that is not busy is posted again.
do_close_session_sid_kept ==
    LET task == Head(queue) IN
    /\ Starts("close")
    /\ IF entrance_check = "Success" THEN close_busy_session(task.h) ELSE UNCHANGED poolVars
    /\ honor(task, task.h, entrance_check)
    /\ queue' = Tail(queue)
    /\ UNCHANGED current_live_session_id
    /\ HandlerFrame

do_close_session_retried ==
    LET task == Head(queue) IN
    /\ Starts("close")
    /\ IF task.h \in busy_sessions
       THEN /\ close_busy_session(task.h) /\ honor(task, task.h, "Success")
            /\ queue' = Tail(queue)
       ELSE /\ queue' = Append(Tail(queue), task)
            /\ UNCHANGED poolVars /\ UNCHANGED thread
    /\ current_live_session_id' = NoSid
    /\ HandlerFrame

\* do_close_session: what close_busy_session returns is not looked at, and
\* the current live session id is cleared whichever session was closed.
do_close_session ==
    LET task == Head(queue) IN
    /\ Starts("close")
    /\ IF entrance_check = "Success"
       THEN close_busy_session(task.h) /\ current_live_session_id' = NoSid
       ELSE UNCHANGED poolVars /\ UNCHANGED current_live_session_id
    /\ honor(task, task.h, entrance_check)
    /\ queue' = Tail(queue)
    /\ HandlerFrame

\* do_reg_svc and do_unreg_svc read handle_ when they run, not when the
\* call was made, and look at neither the state nor session_mgr_.
do_reg_svc ==
    LET task == Head(queue)
        h == get_busy_session(handle[task.svc])
    IN  /\ Starts("reg")
        /\ IF h = NoHandle
           THEN UNCHANGED poolVars /\ honor(task, task.h, "Invalid_Session")
           ELSE /\ session' = [session EXCEPT ![h] = reg_svc(@, task.svc)]
                /\ UNCHANGED <<idle_sessions, busy_sessions>>
                /\ honor(task, task.h, reg_svc_check(session[h], task.svc))
        /\ queue' = Tail(queue)
        /\ UNCHANGED current_live_session_id
        /\ HandlerFrame

do_unreg_svc ==
    LET task == Head(queue)
        h == get_busy_session(handle[task.svc])
    IN  /\ Starts("unreg")
        /\ IF h = NoHandle
           THEN UNCHANGED poolVars /\ honor(task, task.h, "Invalid_Session")
           ELSE /\ session' = [session EXCEPT ![h] = unreg_svc(@, task.svc)]
                /\ UNCHANGED <<idle_sessions, busy_sessions>>
                /\ honor(task, task.h, unreg_svc_check(session[h], task.svc))
        /\ queue' = Tail(queue)
        /\ UNCHANGED current_live_session_id
        /\ HandlerFrame

\* do_execute can outlive its caller (see Timeout), so that it meets
\* force_stop of another thread: it is split where the two can interleave.
\* It finds the session ...
do_execute_find ==
    /\ Starts("exec")
    /\ queue' = Tail(queue)
    /\ running' = [step |-> "found", task |-> Head(queue),
                   ec   |-> IF entrance_check # "Success" THEN entrance_check
                            ELSE IF get_busy_session(Head(queue).h) = NoHandle
                            THEN "Invalid_Session" ELSE "Success"]
    /\ UNCHANGED poolVars
    /\ UNCHANGED entranceVars
    /\ UNCHANGED stopVars
    /\ UNCHANGED <<thread, own, handle, current_live_session_id>>

\* ... BeeSession::execute makes its tests ...
do_execute_check ==
    /\ running.step = "found" /\ running.ec = "Success"
    /\ running' = [running EXCEPT !.step = "checked",
                      !.ec = execute_check(session[running.task.h], SvcCode[running.task.svc])]
    /\ UNCHANGED poolVars
    /\ UNCHANGED entranceVars
    /\ UNCHANGED stopVars
    /\ UNCHANGED <<queue, thread, own, handle, current_live_session_id>>

\* ... and, when they succeed, switches the state and runs the command.
do_execute_run ==
    /\ running.step = "checked" /\ running.ec = "Success"
    /\ \E r \in execute(session[running.task.h]) :
          session' = [session EXCEPT ![running.task.h] = r]
    /\ \E e \in {"Success", "Engine_Error"} : honor(running.task, running.task.h, e)
    /\ running' = NoTask
    /\ UNCHANGED <<idle_sessions, busy_sessions, queue, own, handle, current_live_session_id>>
    /\ UNCHANGED entranceVars
    /\ UNCHANGED stopVars

do_execute_fail ==
    /\ running.step # "none" /\ running.ec # "Success"
    /\ honor(running.task, running.task.h, running.ec)
    /\ running' = NoTask
    /\ UNCHANGED poolVars
    /\ UNCHANGED entranceVars
    /\ UNCHANGED stopVars
    /\ UNCHANGED <<queue, own, handle, current_live_session_id>>

\* handle_timeout of the promise of a handler that has not started: the
\* caller returns, the handler stays posted.  The timer's handler runs on
\* the io thread too, so never inside another one.
Timeout(i) ==
    /\ ios /\ running = NoTask
    /\ queue[i].timed /\ ~queue[i].honored
    /\ honor(queue[i], queue[i].h, "Timeout")
    /\ queue' = [queue EXCEPT ![i].honored = TRUE]
    /\ UNCHANGED poolVars
    /\ UNCHANGED entranceVars
    /\ UNCHANGED stopVars
    /\ UNCHANGED <<running, own, handle, current_live_session_id>>

-----------------------------------------------------------------------------
StopProgress ==
    \/ \E h \in Handles : UninitCloseBegin(h) \/ UninitCloseEnd(h)
    \/ UninitClear \/ StopJoin

Lifecycle ==
    Initialize \/ Uninitialize \/ InitializeAgain \/ StopProgress

Call(t) ==
    \/ CallRefused(t) \/ sync_open_session(t) \/ close_session(t)
    \/ \E s \in Svcs : sync_execute(t, s) \/ reg(t, s) \/ unreg(t, s)

do_execute == do_execute_find \/ do_execute_check \/ do_execute_run \/ do_execute_fail

IoThread ==
    \/ do_open_session_refused \/ do_open_session_failed \/ do_open_session
    \/ do_close_session \/ do_reg_svc \/ do_unreg_svc \/ do_execute

Next ==
    \/ Lifecycle
    \/ \E t \in Threads : Call(t) \/ Return(t)
    \/ IoThread
    \/ \E i \in DOMAIN queue : Timeout(i)

Spec == Init /\ [][Next]_vars

\* The io thread serves its queue and the thread inside uninitialize runs on:
\* both are threads the system schedules.  Nothing is asked of the callers
\* or of the timers.
FairSpec ==
    /\ Spec
    /\ WF_vars(IoThread)
    /\ WF_vars(StopProgress)

-----------------------------------------------------------------------------
(* Properties.                                                             *)

TypeOK ==
    /\ session \in [Handles -> Session]
    /\ idle_sessions \in SUBSET Handles /\ busy_sessions \in SUBSET Handles
    /\ current_state \in SvcState /\ manager \in BOOLEAN /\ ios \in BOOLEAN
    /\ queue \in Seq(Task) /\ Len(queue) <= MaxQueue
    /\ running = NoTask \/ running \in [step : {"found", "checked"}, task : Task, ec : Ec]
    /\ thread \in [Threads -> Thread]
    /\ own \in [Threads -> SUBSET Handles]
    /\ handle \in [Svcs -> Handles \cup {NoHandle}]
    /\ current_live_session_id \in Sids \cup {NoSid}
    /\ stopping \in {"no", "closing", "join"}
    /\ to_close \in SUBSET Handles /\ closing \in Handles \cup {NoHandle}

\* A session a client can use: Ready, with an engine, and offering only what
\* its script reported.
Usable(r) ==
    /\ r.state = "Ready" /\ r.lua_engine /\ r.ios
    /\ r.live_session_id # NoSid /\ r.capabilities # {}
    /\ \A c \in Codes : r.services[c] # NoSvc =>
          c \in r.capabilities /\ SvcCode[r.services[c]] = c

\* A session the pool can hand out: nothing of its last user is left that a
\* new one could reach.
Reusable(r) ==
    r.state = "Idle" /\ ~r.ios /\ r.services = NoServices /\ r.capabilities = {}

Serving == manager /\ stopping = "no"

\* Between any two handlers the two tables of SessionManager split the
\* sessions, the busy ones are usable, the idle ones reusable, and no two
\* busy ones carry one live session id.
PoolConsistent ==
    Serving =>
        /\ idle_sessions \cup busy_sessions = Handles
        /\ idle_sessions \cap busy_sessions = {}
        /\ \A h \in busy_sessions : Usable(session[h])
        /\ \A h \in idle_sessions : Reusable(session[h])
        /\ \A g, h \in busy_sessions :
              session[g].live_session_id = session[h].live_session_id => g = h

\* Who can still close the session h: a thread that owns it, one that is
\* about to learn of it, a posted do_close_session.
Claims(h) ==
    {<<"own", t>> : t \in {u \in Threads : h \in own[u]}}
    \cup {<<"opened", t>> : t \in {u \in Threads : thread[u] = Returning("open", h, "Success")}}
    \cup {<<"close", i>> : i \in {j \in DOMAIN queue : queue[j].op = "close" /\ queue[j].h = h}}

\* No session is lost and none has two owners: each busy session has exactly
\* one claim and an idle one has none.  (open_session has no timeout: with
\* one, a session opened too late would belong to nobody.)
NoSessionLeak ==
    Serving => \A h \in Handles :
        Cardinality(Claims(h)) = IF h \in busy_sessions THEN 1 ELSE 0

\* The tasks whose promise thread t waits on.
Pending(t) ==
    {i \in DOMAIN queue : queue[i].thread = t /\ ~queue[i].honored}
    \cup {0 : x \in {y \in {running} : y # NoTask /\ y.task.thread = t /\ ~y.task.honored}}

\* A blocked thread has exactly one unhonored promise on its way, and a
\* thread that is not blocked has none: stopping the io_service never drops
\* a handler somebody waits for.
WaiterHasTask ==
    \A t \in Threads : Cardinality(Pending(t)) = IF thread[t].pc = "wait" THEN 1 ELSE 0

\* A command its caller gave up on (timeout) is still bound to the live
\* session it was meant for: the handle cannot have been closed and handed
\* out again before the handler runs.
Meant(task) == task.op = "exec" /\ task.sid # NoSid =>
    task.h \in busy_sessions /\ session[task.h].live_session_id = task.sid

LateExecuteStaysInSession ==
    Serving => /\ \A i \in DOMAIN queue : Meant(queue[i])
               /\ running # NoTask => Meant(running.task)

\* The live session id reported to the status server is empty or that of a
\* session that is open.
SidNotStale ==
    Serving => \/ current_live_session_id = NoSid
               \/ \E h \in busy_sessions : session[h].live_session_id = current_live_session_id

\* Every blocked call returns.
CallReturns == \A t \in Threads : thread[t].pc = "wait" ~> thread[t].pc # "wait"

\* uninitialize returns.
StopEnds == stopping # "no" ~> stopping = "no"

\* BeeSession refuses an input its state has no transition for, so that its
\* current state stays one of the table's.
SessionStateInTable == \A h \in Handles : session[h].state \in SessionTable

\* After unreg has returned Success the service receives no data: no session
\* dispatches to it any more.
UnregStopsData ==
    [][\A s \in Svcs : do_unreg_svc /\ Head(queue).svc = s /\ thread'[Head(queue).thread].ec = "Success"
          => \A h \in busy_sessions' : session'[h].services[SvcCode[s]] # s]_vars
=============================================================================
