------------------------- MODULE BeeEntrance_proof -------------------------
(***************************************************************************)
(* Proofs about BeeEntrance, for any number of threads, sessions, services *)
(* and codes, and any bound on the queue.  First the io thread: the pool   *)
(* stays consistent.  Then the calls: a blocked caller has exactly one     *)
(* promise under way, a session has exactly one claimant, and a command    *)
(* that runs late still runs in the session it was meant for.  Last, that  *)
(* the entrance implements SessionPool: every step of it is, seen through  *)
(* Holder and CallOf, one step of the abstract pool or none.               *)
(***************************************************************************)
EXTENDS MCBeeEntrance, FiniteSetTheorems, TLAPS

-----------------------------------------------------------------------------
(* The operations of a session.                                            *)

\* The session's table leads from a state to a state.
LEMMA SwitchType ==
    ASSUME NEW cur \in SessionState, NEW ev \in SessionInput
    PROVE  session_switch(cur, ev) \in SUBSET SessionState
BY DEF session_switch, switch_state, session_table, SessionState, SessionTable,
       SessionInput, kInvalidSimpleState

\* A session as the manager creates it is a session.
LEMMA NewSessionType == new_session \in Session
BY DEF new_session, Session, SessionState, SessionTable, NoServices

\* open leaves a session.
LEMMA OpenType ==
    ASSUME NEW r \in Session, NEW sid \in Sids, NEW caps \in SUBSET Codes
    PROVE  /\ open(r, sid, caps) \in SUBSET Session
           /\ open_failed(r, sid) \in Session
<1>1. session_switch(r.state, "Open") \in SUBSET SessionState
  BY SwitchType DEF Session, SessionInput
<1>2. \A m \in SessionState : session_switch(m, "Opened") \in SUBSET SessionState
  BY SwitchType DEF SessionInput
<1>3. UNION {session_switch(m, "Opened") : m \in session_switch(r.state, "Open")}
        \in SUBSET SessionState
  BY <1>1, <1>2
<1>4. open(r, sid, caps) \in SUBSET Session
  <2> DEFINE To(n) == [r EXCEPT !.state = n, !.lua_engine = TRUE, !.live_session_id = sid,
                                !.capabilities = caps, !.ios = TRUE]
  <2>1. ASSUME NEW n \in SessionState PROVE To(n) \in Session
    BY DEF Session
  <2> HIDE DEF To
  <2>2. {To(n) : n \in UNION {session_switch(m, "Opened") : m \in session_switch(r.state, "Open")}}
          \in SUBSET Session
    BY <1>3, <2>1
  <2> QED BY <2>2 DEF open, To
<1>5. open_failed(r, sid) \in Session
  BY DEF open_failed, Session, SessionState, SessionTable
<1> QED BY <1>4, <1>5

\* The two halves of close leave a session, and so does close.
LEMMA CloseType ==
    ASSUME NEW r \in Session
    PROVE  /\ close_begin(r) \in SUBSET Session
           /\ close_end(r) \in SUBSET Session
           /\ close(r) \in SUBSET Session
<1>1. ASSUME NEW x \in Session PROVE close_begin(x) \in SUBSET Session
  <2>1. session_switch(x.state, "Close") \in SUBSET SessionState
    BY SwitchType DEF Session, SessionInput
  <2> DEFINE To(n) == [x EXCEPT !.state = n, !.lua_engine = FALSE, !.ios = FALSE]
  <2>2. ASSUME NEW n \in SessionState PROVE To(n) \in Session
    BY DEF Session
  <2> HIDE DEF To
  <2>3. {To(n) : n \in session_switch(x.state, "Close")} \in SUBSET Session
    BY <2>1, <2>2
  <2> QED BY <2>3 DEF close_begin, To
<1>2. ASSUME NEW x \in Session PROVE close_end(x) \in SUBSET Session
  <2>1. session_switch(x.state, "Closed") \in SUBSET SessionState
    BY SwitchType DEF Session, SessionInput
  <2>2. NoServices \in [Codes -> Svcs \cup {NoSvc}]
    BY DEF NoServices
  <2> DEFINE To(n) == [x EXCEPT !.state = n, !.live_session_id = NoSid,
                                !.services = NoServices, !.capabilities = {}]
  <2>3. ASSUME NEW n \in SessionState PROVE To(n) \in Session
    BY <2>2 DEF Session
  <2> HIDE DEF To
  <2>4. {To(n) : n \in session_switch(x.state, "Closed")} \in SUBSET Session
    BY <2>1, <2>3
  <2> QED BY <2>4 DEF close_end, To
<1>3. close(r) \in SUBSET Session
  BY <1>1, <1>2 DEF close
<1> QED BY <1>1, <1>2, <1>3

\* execute, reg_svc and unreg_svc leave a session.
LEMMA ServeType ==
    ASSUME NEW r \in Session, NEW s \in Svcs \cup {NoSvc}
    PROVE  /\ execute(r) \in SUBSET Session
           /\ reg_svc(r, s) \in Session
           /\ unreg_svc(r, s) \in Session
<1>1. session_switch(r.state, "Execute") \in SUBSET SessionState
  BY SwitchType DEF Session, SessionInput
<1>2. execute(r) \in SUBSET Session
  BY <1>1 DEF execute, Session
<1>3. [r EXCEPT !.services[SvcCode[s]] = s] \in Session
  BY DEF Session
<1>4. unreg_svc(r, s) \in Session
  BY DEF unreg_svc, Session
<1> QED BY <1>2, <1>3, <1>4 DEF reg_svc

\* What the tests return is an error code.
LEMMA CheckType ==
    ASSUME NEW r, NEW c, NEW s
    PROVE  /\ execute_check(r, c) \in Ec
           /\ reg_svc_check(r, s) \in Ec
           /\ unreg_svc_check(r, s) \in Ec
           /\ entrance_check \in Ec
BY DEF execute_check, reg_svc_check, unreg_svc_check, entrance_check, Ec

-----------------------------------------------------------------------------
(* Type correctness.                                                       *)

\* Storing a session under a handle keeps the table of sessions.
LEMMA StoreType ==
    ASSUME NEW f \in [Handles -> Session], NEW h, NEW r \in Session
    PROVE  [f EXCEPT ![h] = r] \in [Handles -> Session]
OBVIOUS

\* TypeOK is not inductive: Return adds to own the handle the thread returns
\* with.  An open that succeeded returns with a handle, and the io thread is
\* never inside anything but a do_execute.
Answers ==
    /\ \A t \in Threads : thread[t].pc = "ret" /\ thread[t].op = "open" /\ thread[t].ec = "Success"
                             => thread[t].h \in Handles
    /\ running # NoTask => running.task.op = "exec"

\* The initial state has the types of TypeOK.
LEMMA InitTypeOK == Init => TypeOK
<1> SUFFICES ASSUME Init PROVE TypeOK
  OBVIOUS
<1>1. session \in [Handles -> Session]
  BY NewSessionType DEF Init
<1>2. queue \in Seq(Task) /\ Len(queue) <= MaxQueue
  BY QueueAssumption DEF Init
<1>3. thread \in [Threads -> Thread]
  BY DEF Init, Thread, Away, Ec
<1> QED BY <1>1, <1>2, <1>3 DEF Init, TypeOK, SvcState, NoTask

\* The pool's own steps keep the types of its variables.
LEMMA PoolStepType ==
    ASSUME TypeOK,
           \/ init
           \/ uninit_clear
           \/ \E h \in Handles, sid \in Sids, caps \in SUBSET Codes : open_idle_session(h, sid, caps)
           \/ \E h \in Handles, sid \in Sids : open_idle_session_failed(h, sid)
           \/ \E h : close_busy_session(h)
           \/ UNCHANGED poolVars
    PROVE  /\ session' \in [Handles -> Session]
           /\ idle_sessions' \in SUBSET Handles /\ busy_sessions' \in SUBSET Handles
<1> USE DEF TypeOK
<1>1. CASE init
  BY <1>1, NewSessionType DEF init
<1>2. CASE uninit_clear
  BY <1>2 DEF uninit_clear
<1>3. CASE \E h \in Handles, sid \in Sids, caps \in SUBSET Codes : open_idle_session(h, sid, caps)
  <2>1. PICK h \in Handles, sid \in Sids, caps \in SUBSET Codes : open_idle_session(h, sid, caps)
    BY <1>3
  <2>2. PICK r \in open(session[h], sid, caps) : session' = [session EXCEPT ![h] = r]
    BY <2>1 DEF open_idle_session
  <2>3. r \in Session
    BY OpenType, <2>2
  <2> QED BY <2>1, <2>2, <2>3, StoreType DEF open_idle_session
<1>4. CASE \E h \in Handles, sid \in Sids : open_idle_session_failed(h, sid)
  <2>1. PICK h \in Handles, sid \in Sids : open_idle_session_failed(h, sid)
    BY <1>4
  <2>2. open_failed(session[h], sid) \in Session
    BY OpenType
  <2> QED BY <2>1, <2>2, StoreType DEF open_idle_session_failed
<1>5. CASE \E h : close_busy_session(h)
  <2>1. PICK h : close_busy_session(h)
    BY <1>5
  <2>2. CASE h \in busy_sessions
    <3>1. PICK r \in close(session[h]) : session' = [session EXCEPT ![h] = r]
      BY <2>1, <2>2 DEF close_busy_session
    <3>2. r \in Session
      BY CloseType, <2>2, <3>1
    <3> QED BY <2>1, <2>2, <3>1, <3>2, StoreType DEF close_busy_session
  <2>3. CASE h \notin busy_sessions
    BY <2>1, <2>3 DEF close_busy_session, poolVars
  <2> QED BY <2>2, <2>3
<1>6. CASE UNCHANGED poolVars
  BY <1>6 DEF poolVars
<1> QED BY <1>1, <1>2, <1>3, <1>4, <1>5, <1>6

\* initialize, uninitialize and the steps of force_stop keep the types.
LEMMA LifecycleType == TypeOK /\ Lifecycle => TypeOK'
<1> SUFFICES ASSUME TypeOK, Lifecycle PROVE TypeOK'
  OBVIOUS
<1>1. CASE Initialize
  BY <1>1, PoolStepType DEF TypeOK, Initialize, SvcState, stopVars
<1>2. CASE Uninitialize
  <2>1. svc_table[current_state]["DoUninit"] \in SvcState
    BY <1>2 DEF Uninitialize, refused, svc_table, SvcState, SvcInput, kInvalidSimpleState, TypeOK
  <2> QED BY <1>2, <2>1 DEF TypeOK, Uninitialize, poolVars
<1>3. CASE InitializeAgain
  BY <1>3 DEF TypeOK, InitializeAgain, poolVars
<1>4. ASSUME NEW h \in Handles, UninitCloseBegin(h) PROVE TypeOK'
  <2>1. PICK r \in close_begin(session[h]) : session' = [session EXCEPT ![h] = r]
    BY <1>4 DEF UninitCloseBegin
  <2>2. session' \in [Handles -> Session]
    BY <2>1, CloseType, StoreType DEF TypeOK
  <2> QED BY <1>4, <2>2 DEF TypeOK, UninitCloseBegin, entranceVars
<1>5. ASSUME NEW h \in Handles, UninitCloseEnd(h) PROVE TypeOK'
  <2>1. PICK r \in close_end(session[h]) : session' = [session EXCEPT ![h] = r]
    BY <1>5 DEF UninitCloseEnd
  <2>2. session' \in [Handles -> Session]
    BY <2>1, CloseType, StoreType DEF TypeOK
  <2> QED BY <1>5, <2>2 DEF TypeOK, UninitCloseEnd, entranceVars
<1>6. CASE UninitClear
  BY <1>6 DEF TypeOK, UninitClear, uninit_clear, poolVars
<1>7. CASE StopJoin
  <2>1. queue' \in Seq(Task) /\ Len(queue') <= MaxQueue
    BY <1>7, QueueAssumption DEF StopJoin
  <2> QED BY <1>7, <2>1 DEF TypeOK, StopJoin, poolVars, SvcState
<1> QED BY <1>1, <1>2, <1>3, <1>4, <1>5, <1>6, <1>7 DEF Lifecycle, StopProgress

\* A task a call makes is a task, and posting it keeps the types.
LEMMA PostType ==
    ASSUME TypeOK, NEW task \in Task, Post(task),
           own' \in [Threads -> SUBSET Handles],
           handle' \in [Svcs -> Handles \cup {NoHandle}]
    PROVE  TypeOK'
<1>1. queue' \in Seq(Task) /\ Len(queue') <= MaxQueue
  BY QueueAssumption DEF TypeOK, Post
<1>2. thread' \in [Threads -> Thread]
  BY DEF TypeOK, Post, Task, Thread, Waiting, Ec
<1> QED BY <1>1, <1>2 DEF TypeOK, Post, poolVars, entranceVars, stopVars

\* The calls of the application threads and their returns keep the types.
LEMMA CallType ==
    ASSUME TypeOK, Answers, NEW t \in Threads, Call(t) \/ Return(t)
    PROVE  TypeOK'
<1>1. CASE CallRefused(t)
  <2>1. thread' \in [Threads -> Thread]
    BY <1>1 DEF TypeOK, CallRefused, Thread, Returning, Ec
  <2> QED BY <1>1, <2>1 DEF TypeOK, CallRefused, poolVars, entranceVars, stopVars
<1>2. CASE sync_open_session(t)
  <2>1. NewTask("open", t, NoHandle, NoSvc, FALSE, NoSid) \in Task
    BY DEF NewTask, Task, Op
  <2> QED BY <1>2, <2>1, PostType DEF sync_open_session, TypeOK
<1>3. CASE close_session(t)
  <2>1. PICK h \in own[t] \cup {NoHandle} :
           /\ Post(NewTask("close", t, h, NoSvc, FALSE, NoSid))
           /\ own' = [own EXCEPT ![t] = @ \ {h}]
    BY <1>3 DEF close_session
  <2>2. NewTask("close", t, h, NoSvc, FALSE, NoSid) \in Task
    BY DEF NewTask, Task, Op, TypeOK
  <2>3. own' \in [Threads -> SUBSET Handles]
    BY <2>1 DEF TypeOK
  <2> QED BY <1>3, <2>1, <2>2, <2>3, PostType DEF close_session, TypeOK
<1>4. ASSUME NEW s \in Svcs, sync_execute(t, s) PROVE TypeOK'
  <2> DEFINE sid == IF handle[s] \in own[t] THEN session[handle[s]].live_session_id ELSE NoSid
  <2>1. sid \in Sids \cup {NoSid}
    BY DEF TypeOK, Session
  <2>2. PICK timed \in BOOLEAN : Post(NewTask("exec", t, handle[s], s, timed, sid))
    BY <1>4 DEF sync_execute
  <2> HIDE DEF sid
  <2>3. NewTask("exec", t, handle[s], s, timed, sid) \in Task
    BY <2>1 DEF NewTask, Task, Op, TypeOK
  <2> QED BY <1>4, <2>2, <2>3, PostType DEF sync_execute, TypeOK
<1>5. ASSUME NEW s \in Svcs, reg(t, s) PROVE TypeOK'
  <2>1. PICK h \in own[t] : /\ handle' = [handle EXCEPT ![s] = h]
                            /\ Post(NewTask("reg", t, h, s, FALSE, NoSid))
    BY <1>5 DEF reg
  <2>2. NewTask("reg", t, h, s, FALSE, NoSid) \in Task
    BY DEF NewTask, Task, Op, TypeOK
  <2>3. handle' \in [Svcs -> Handles \cup {NoHandle}]
    BY <2>1 DEF TypeOK
  <2> QED BY <1>5, <2>1, <2>2, <2>3, PostType DEF reg, TypeOK
<1>6. ASSUME NEW s \in Svcs, unreg(t, s) PROVE TypeOK'
  <2>1. NewTask("unreg", t, handle[s], s, FALSE, NoSid) \in Task
    BY DEF NewTask, Task, Op, TypeOK
  <2> QED BY <1>6, <2>1, PostType DEF unreg, TypeOK
<1>7. CASE Return(t)
  <2>1. thread' \in [Threads -> Thread]
    BY <1>7 DEF TypeOK, Return, Thread, Away, Ec
  <2>2. own' \in [Threads -> SUBSET Handles]
    BY <1>7 DEF TypeOK, Answers, Return, Thread
  <2> QED BY <1>7, <2>1, <2>2 DEF TypeOK, Return, poolVars, entranceVars, stopVars
<1> QED BY <1>1, <1>2, <1>3, <1>4, <1>5, <1>6, <1>7 DEF Call

\* The state of a thread has the same type whoever's promise is honored.
LEMMA HonorType ==
    ASSUME TypeOK, NEW task \in Task, NEW h \in Handles \cup {NoHandle}, NEW e \in Ec,
           honor(task, h, e)
    PROVE  thread' \in [Threads -> Thread]
BY DEF TypeOK, honor, Thread, Returning, Task

\* Taking the oldest handler leaves a queue of tasks.
LEMMA QueueType ==
    ASSUME TypeOK, queue # <<>>
    PROVE  /\ Head(queue) \in Task
           /\ Tail(queue) \in Seq(Task) /\ Len(Tail(queue)) <= MaxQueue
BY QueueAssumption DEF TypeOK

\* The handlers keep the types.
LEMMA HandlerType ==
    ASSUME TypeOK, IoThread
    PROVE  TypeOK'
<1>1. CASE do_open_session_refused
  <2>1. Head(queue) \in Task /\ queue' \in Seq(Task) /\ Len(queue') <= MaxQueue
    BY <1>1, QueueType DEF do_open_session_refused, Starts
  <2>2. (IF entrance_check # "Success" THEN entrance_check ELSE "Insufficient_Session") \in Ec
    BY CheckType DEF Ec
  <2>3. thread' \in [Threads -> Thread]
    BY <1>1, <2>1, <2>2, HonorType DEF do_open_session_refused
  <2> QED BY <1>1, <2>1, <2>3 DEF TypeOK, do_open_session_refused, poolVars, HandlerFrame, stopVars
<1>2. CASE do_open_session_failed
  <2>1. Head(queue) \in Task /\ queue' \in Seq(Task) /\ Len(queue') <= MaxQueue
    BY <1>2, QueueType DEF do_open_session_failed, Starts
  <2>2. thread' \in [Threads -> Thread]
    BY <1>2, <2>1, HonorType DEF do_open_session_failed, Ec
  <2>3. \E h \in Handles, sid \in Sids : open_idle_session_failed(h, sid)
    BY <1>2 DEF do_open_session_failed, FreshSids, TypeOK
  <2>4. /\ session' \in [Handles -> Session]
        /\ idle_sessions' \in SUBSET Handles /\ busy_sessions' \in SUBSET Handles
    BY <2>3, PoolStepType
  <2> QED BY <1>2, <2>1, <2>2, <2>4 DEF TypeOK, do_open_session_failed, HandlerFrame, stopVars
<1>3. CASE do_open_session
  <2>1. Head(queue) \in Task /\ queue' \in Seq(Task) /\ Len(queue') <= MaxQueue
    BY <1>3, QueueType DEF do_open_session, Starts
  <2>2. PICK h \in idle_sessions, sid \in FreshSids, caps \in (SUBSET Codes) \ {{}} :
           /\ open_idle_session(h, sid, caps)
           /\ current_live_session_id' = sid
           /\ honor(Head(queue), h, "Success")
    BY <1>3 DEF do_open_session
  <2>3. h \in Handles /\ sid \in Sids /\ caps \in SUBSET Codes
    BY DEF TypeOK, FreshSids
  <2>4. thread' \in [Threads -> Thread]
    BY <2>1, <2>2, <2>3, HonorType DEF Ec
  <2>5. /\ session' \in [Handles -> Session]
        /\ idle_sessions' \in SUBSET Handles /\ busy_sessions' \in SUBSET Handles
    BY <2>2, <2>3, PoolStepType
  <2> QED BY <1>3, <2>1, <2>2, <2>3, <2>4, <2>5 DEF TypeOK, do_open_session, HandlerFrame, stopVars
<1>4. CASE do_close_session
  <2>1. Head(queue) \in Task /\ queue' \in Seq(Task) /\ Len(queue') <= MaxQueue
    BY <1>4, QueueType DEF do_close_session, Starts
  <2>2. thread' \in [Threads -> Thread]
    BY <1>4, <2>1, HonorType, CheckType DEF do_close_session, Task
  <2>3. (\E h : close_busy_session(h)) \/ UNCHANGED poolVars
    BY <1>4 DEF do_close_session
  <2>4. /\ session' \in [Handles -> Session]
        /\ idle_sessions' \in SUBSET Handles /\ busy_sessions' \in SUBSET Handles
    BY <2>3, PoolStepType
  <2>5. current_live_session_id' \in Sids \cup {NoSid}
    BY <1>4 DEF do_close_session, TypeOK
  <2> QED BY <1>4, <2>1, <2>2, <2>4, <2>5 DEF TypeOK, do_close_session, HandlerFrame, stopVars
<1>5. CASE do_reg_svc
  <2>1. Head(queue) \in Task /\ queue' \in Seq(Task) /\ Len(queue') <= MaxQueue
    BY <1>5, QueueType DEF do_reg_svc, Starts
  <2> DEFINE task == Head(queue)
             h == get_busy_session(handle[task.svc])
  <2>2. task.svc \in Svcs \cup {NoSvc} /\ task.h \in Handles \cup {NoHandle}
    BY <2>1 DEF Task
  <2> HIDE DEF h
  <2>3. CASE h = NoHandle
    <3>1. UNCHANGED poolVars /\ honor(task, task.h, "Invalid_Session")
      BY <1>5, <2>3 DEF do_reg_svc, h
    <3>2. thread' \in [Threads -> Thread]
      BY <2>1, <2>2, <3>1, HonorType DEF Ec
    <3> QED BY <1>5, <2>1, <3>1, <3>2 DEF TypeOK, do_reg_svc, HandlerFrame, stopVars, poolVars
  <2>4. CASE h # NoHandle
    <3>1. /\ session' = [session EXCEPT ![h] = reg_svc(@, task.svc)]
          /\ UNCHANGED <<idle_sessions, busy_sessions>>
          /\ honor(task, task.h, reg_svc_check(session[h], task.svc))
      BY <1>5, <2>4 DEF do_reg_svc, h
    <3>2. thread' \in [Threads -> Thread]
      BY <2>1, <2>2, <3>1, HonorType, CheckType
    <3>3. h \in Handles
      BY <2>4 DEF h, get_busy_session, TypeOK
    <3>4. reg_svc(session[h], task.svc) \in Session
      BY <2>2, <3>3, ServeType DEF TypeOK
    <3>5. session' \in [Handles -> Session]
      BY <3>1, <3>4, StoreType DEF TypeOK
    <3> QED BY <1>5, <2>1, <3>1, <3>2, <3>5 DEF TypeOK, do_reg_svc, HandlerFrame, stopVars
  <2> QED BY <2>3, <2>4
<1>6. CASE do_unreg_svc
  <2>1. Head(queue) \in Task /\ queue' \in Seq(Task) /\ Len(queue') <= MaxQueue
    BY <1>6, QueueType DEF do_unreg_svc, Starts
  <2> DEFINE task == Head(queue)
             h == get_busy_session(handle[task.svc])
  <2>2. task.svc \in Svcs \cup {NoSvc} /\ task.h \in Handles \cup {NoHandle}
    BY <2>1 DEF Task
  <2> HIDE DEF h
  <2>3. CASE h = NoHandle
    <3>1. UNCHANGED poolVars /\ honor(task, task.h, "Invalid_Session")
      BY <1>6, <2>3 DEF do_unreg_svc, h
    <3>2. thread' \in [Threads -> Thread]
      BY <2>1, <2>2, <3>1, HonorType DEF Ec
    <3> QED BY <1>6, <2>1, <3>1, <3>2 DEF TypeOK, do_unreg_svc, HandlerFrame, stopVars, poolVars
  <2>4. CASE h # NoHandle
    <3>1. /\ session' = [session EXCEPT ![h] = unreg_svc(@, task.svc)]
          /\ UNCHANGED <<idle_sessions, busy_sessions>>
          /\ honor(task, task.h, unreg_svc_check(session[h], task.svc))
      BY <1>6, <2>4 DEF do_unreg_svc, h
    <3>2. thread' \in [Threads -> Thread]
      BY <2>1, <2>2, <3>1, HonorType, CheckType
    <3>3. h \in Handles
      BY <2>4 DEF h, get_busy_session, TypeOK
    <3>4. unreg_svc(session[h], task.svc) \in Session
      BY <2>2, <3>3, ServeType DEF TypeOK
    <3>5. session' \in [Handles -> Session]
      BY <3>1, <3>4, StoreType DEF TypeOK
    <3> QED BY <1>6, <2>1, <3>1, <3>2, <3>5 DEF TypeOK, do_unreg_svc, HandlerFrame, stopVars
  <2> QED BY <2>3, <2>4
<1>7. CASE do_execute_find
  <2>1. Head(queue) \in Task /\ queue' \in Seq(Task) /\ Len(queue') <= MaxQueue
    BY <1>7, QueueType DEF do_execute_find, Starts
  <2>2. running' \in [step : {"found", "checked"}, task : Task, ec : Ec]
    BY <1>7, <2>1, CheckType DEF do_execute_find, Ec
  <2> QED BY <1>7, <2>1, <2>2 DEF TypeOK, do_execute_find, poolVars, entranceVars, stopVars
<1>8. CASE do_execute_check
  <2>1. running \in [step : {"found", "checked"}, task : Task, ec : Ec]
    BY <1>8 DEF do_execute_check, TypeOK, NoTask
  <2>2. running' \in [step : {"found", "checked"}, task : Task, ec : Ec]
    BY <1>8, <2>1, CheckType DEF do_execute_check
  <2> QED BY <1>8, <2>2 DEF TypeOK, do_execute_check, poolVars, entranceVars, stopVars
<1>9. CASE do_execute_run
  <2>1. running.task \in Task
    BY <1>9 DEF do_execute_run, TypeOK, NoTask
  <2>2. PICK e \in {"Success", "Engine_Error"} : honor(running.task, running.task.h, e)
    BY <1>9 DEF do_execute_run
  <2>3. thread' \in [Threads -> Thread]
    BY <2>1, <2>2, HonorType DEF Ec, Task
  <2>4. PICK r \in execute(session[running.task.h]) : session' = [session EXCEPT ![running.task.h] = r]
    BY <1>9 DEF do_execute_run
  <2>5. session' \in [Handles -> Session]
    <3>1. CASE running.task.h \in Handles
      <4>1. r \in Session
        BY <2>4, <3>1, ServeType DEF TypeOK
      <4> QED BY <2>4, <4>1, StoreType DEF TypeOK
    <3>2. CASE running.task.h \notin Handles
      BY <2>4, <3>2 DEF TypeOK
    <3> QED BY <3>1, <3>2
  <2> QED BY <1>9, <2>3, <2>5 DEF TypeOK, do_execute_run, entranceVars, stopVars
<1>10. CASE do_execute_fail
  <2>1. running.task \in Task /\ running.ec \in Ec
    BY <1>10 DEF do_execute_fail, TypeOK, NoTask
  <2>2. thread' \in [Threads -> Thread]
    BY <1>10, <2>1, HonorType DEF do_execute_fail, Task
  <2> QED BY <1>10, <2>2 DEF TypeOK, do_execute_fail, poolVars, entranceVars, stopVars
<1> QED BY <1>1, <1>2, <1>3, <1>4, <1>5, <1>6, <1>7, <1>8, <1>9, <1>10 DEF IoThread, do_execute

\* The timeout of a promise keeps the types.
LEMMA TimeoutType ==
    ASSUME TypeOK, NEW i \in DOMAIN queue, Timeout(i)
    PROVE  TypeOK'
<1>1. queue[i] \in Task
  BY DEF TypeOK
<1>2. queue' \in Seq(Task) /\ Len(queue') <= MaxQueue
  <2>1. [queue[i] EXCEPT !.honored = TRUE] \in Task
    BY <1>1 DEF Task
  <2>2. queue' = [queue EXCEPT ![i] = [queue[i] EXCEPT !.honored = TRUE]]
    BY DEF Timeout
  <2> QED BY <2>1, <2>2, QueueAssumption DEF TypeOK
<1>3. thread' \in [Threads -> Thread]
  BY <1>1, HonorType DEF Timeout, Ec, Task
<1> QED BY <1>2, <1>3 DEF TypeOK, Timeout, poolVars, entranceVars, stopVars

\* Honoring a promise changes only the thread that waits on it.
LEMMA HonorAnswers ==
    ASSUME TypeOK, NEW task \in Task, NEW h, NEW e, honor(task, h, e)
    PROVE  \A t \in Threads : \/ thread'[t] = thread[t]
                              \/ thread'[t] = Returning(task.op, h, e)
BY DEF TypeOK, honor, Task

\* Every step keeps Answers.
LEMMA AnswersStep ==
    ASSUME TypeOK, Answers, [Next]_vars
    PROVE  Answers'
<1> USE DEF Answers
<1>1. CASE Lifecycle
  BY <1>1 DEF Lifecycle, StopProgress, Initialize, Uninitialize, InitializeAgain, UninitCloseBegin,
              UninitCloseEnd, UninitClear, StopJoin
<1>2. ASSUME NEW u \in Threads, Call(u) \/ Return(u) PROVE Answers'
  <2>1. running' = running
    BY <1>2 DEF Call, Return, CallRefused, sync_open_session, close_session, sync_execute, reg, unreg, Post
  <2>2. \A t \in Threads : \/ thread'[t] = thread[t] \/ thread'[t].pc \in {"idle", "wait"}
                           \/ thread'[t].op = "none"
    <3>1. CASE CallRefused(u)
      BY <3>1 DEF CallRefused, Returning, TypeOK
    <3>2. CASE Return(u)
      BY <3>2 DEF Return, Away, TypeOK
    <3>3. ASSUME NEW task, task.thread = u, Post(task)
          PROVE  \A t \in Threads : thread'[t] = thread[t] \/ thread'[t].pc = "wait"
      BY <3>3 DEF Post, Waiting, TypeOK
    <3>4. \/ CallRefused(u) \/ Return(u)
          \/ \E task : task.thread = u /\ Post(task)
      BY <1>2 DEF Call, sync_open_session, close_session, sync_execute, reg, unreg, NewTask
    <3> QED BY <3>1, <3>2, <3>3, <3>4
  <2> QED BY <2>1, <2>2
<1>3. CASE IoThread
  <2>1. ASSUME NEW task \in Task, NEW h, NEW e, honor(task, h, e), running' = NoTask,
               task.op = "open" /\ e = "Success" => h \in Handles
        PROVE  Answers'
    <3>1. \A t \in Threads : thread'[t] = thread[t] \/ thread'[t] = Returning(task.op, h, e)
      BY <2>1, HonorAnswers
    <3> QED BY <2>1, <3>1 DEF Returning
  <2>2. CASE do_open_session_refused
    <3>1. Head(queue) \in Task /\ running' = NoTask
      BY <2>2, QueueType DEF do_open_session_refused, Starts, HandlerFrame
    <3> QED BY <2>1, <2>2, <3>1 DEF do_open_session_refused
  <2>3. CASE do_open_session_failed
    <3>1. Head(queue) \in Task /\ running' = NoTask
      BY <2>3, QueueType DEF do_open_session_failed, Starts, HandlerFrame
    <3> QED BY <2>1, <2>3, <3>1 DEF do_open_session_failed
  <2>4. CASE do_open_session
    <3>1. Head(queue) \in Task /\ running' = NoTask
      BY <2>4, QueueType DEF do_open_session, Starts, HandlerFrame
    <3>2. PICK h \in idle_sessions : honor(Head(queue), h, "Success")
      BY <2>4 DEF do_open_session
    <3>3. h \in Handles
      BY <3>2 DEF TypeOK
    <3> QED BY <2>1, <3>1, <3>2, <3>3
  <2>5. CASE do_close_session
    <3>1. Head(queue) \in Task /\ running' = NoTask /\ Head(queue).op = "close"
      BY <2>5, QueueType DEF do_close_session, Starts, HandlerFrame
    <3> QED BY <2>1, <2>5, <3>1 DEF do_close_session
  <2>6. CASE do_reg_svc
    <3>1. Head(queue) \in Task /\ running' = NoTask /\ Head(queue).op = "reg"
      BY <2>6, QueueType DEF do_reg_svc, Starts, HandlerFrame
    <3> QED BY <2>1, <2>6, <3>1 DEF do_reg_svc
  <2>7. CASE do_unreg_svc
    <3>1. Head(queue) \in Task /\ running' = NoTask /\ Head(queue).op = "unreg"
      BY <2>7, QueueType DEF do_unreg_svc, Starts, HandlerFrame
    <3> QED BY <2>1, <2>7, <3>1 DEF do_unreg_svc
  <2>8. CASE do_execute_find
    BY <2>8 DEF do_execute_find, Starts
  <2>9. CASE do_execute_check
    <3>1. running \in [step : {"found", "checked"}, task : Task, ec : Ec]
      BY <2>9 DEF do_execute_check, TypeOK, NoTask
    <3> QED BY <2>9, <3>1 DEF do_execute_check, NoTask
  <2>10. CASE do_execute_run
    <3>1. running.task \in Task /\ running.task.op = "exec" /\ running' = NoTask
      BY <2>10 DEF do_execute_run, TypeOK, NoTask
    <3> QED BY <2>1, <2>10, <3>1 DEF do_execute_run
  <2>11. CASE do_execute_fail
    <3>1. running.task \in Task /\ running.task.op = "exec" /\ running' = NoTask
      BY <2>11 DEF do_execute_fail, TypeOK, NoTask
    <3> QED BY <2>1, <2>11, <3>1 DEF do_execute_fail
  <2> QED BY <1>3, <2>2, <2>3, <2>4, <2>5, <2>6, <2>7, <2>8, <2>9, <2>10, <2>11
          DEF IoThread, do_execute
<1>4. ASSUME NEW i \in DOMAIN queue, Timeout(i) PROVE Answers'
  <2>1. queue[i] \in Task
    BY DEF TypeOK
  <2>2. \A t \in Threads : \/ thread'[t] = thread[t]
                           \/ thread'[t] = Returning(queue[i].op, queue[i].h, "Timeout")
    BY <1>4, <2>1, HonorAnswers DEF Timeout
  <2> QED BY <1>4, <2>2 DEF Timeout, Returning
<1>5. CASE UNCHANGED vars
  BY <1>5 DEF vars
<1> QED BY <1>1, <1>2, <1>3, <1>4, <1>5 DEF Next

\* Every state the entrance reaches has the types of TypeOK; in particular a
\* thread never owns anything but a session.
THEOREM TypeCorrect == Spec => []TypeOK
<1>1. Init => TypeOK /\ Answers
  BY InitTypeOK DEF Init, Answers, Away
<1>2. TypeOK /\ Answers /\ [Next]_vars => (TypeOK /\ Answers)'
  <2> SUFFICES ASSUME TypeOK, Answers, [Next]_vars PROVE TypeOK'
    BY AnswersStep
  <2>1. CASE Lifecycle
    BY <2>1, LifecycleType
  <2>2. CASE \E t \in Threads : Call(t) \/ Return(t)
    BY <2>2, CallType
  <2>3. CASE IoThread
    BY <2>3, HandlerType
  <2>4. CASE \E i \in DOMAIN queue : Timeout(i)
    BY <2>4, TimeoutType
  <2>5. CASE UNCHANGED vars
    BY <2>5 DEF TypeOK, vars
  <2> QED BY <2>1, <2>2, <2>3, <2>4, <2>5 DEF Next
<1> QED BY <1>1, <1>2, PTL DEF Spec

-----------------------------------------------------------------------------
(* The pool is consistent.                                                 *)

\* Opening a reusable session makes it usable, under the id that was drawn.
LEMMA OpenUsable ==
    ASSUME NEW r \in Session, Reusable(r), NEW sid \in Sids, NEW caps \in SUBSET Codes, caps # {},
           NEW x \in open(r, sid, caps)
    PROVE  Usable(x) /\ x.live_session_id = sid
<1>1. session_switch(r.state, "Open") = {"Opening"}
  BY DEF Reusable, session_switch, switch_state, session_table, SessionTable, SessionInput, kInvalidSimpleState
<1>2. session_switch("Opening", "Opened") = {"Ready"}
  BY DEF session_switch, switch_state, session_table, SessionTable, SessionInput, kInvalidSimpleState
<1>3. UNION {session_switch(m, "Opened") : m \in session_switch(r.state, "Open")} = {"Ready"}
  BY <1>1, <1>2
<1>4. x = [r EXCEPT !.state = "Ready", !.lua_engine = TRUE, !.live_session_id = sid,
                    !.capabilities = caps, !.ios = TRUE]
  BY <1>3 DEF open
<1>5. \A c \in Codes : x.services[c] = NoSvc
  BY <1>4 DEF Reusable, NoServices, Session
<1> QED BY <1>4, <1>5, SvcAssumption DEF Usable, Session

\* A session that failed to open is as reusable as before.
LEMMA OpenFailedReusable ==
    ASSUME NEW r \in Session, Reusable(r), NEW sid
    PROVE  Reusable(open_failed(r, sid))
BY DEF Reusable, open_failed, Session

\* Closing a usable session makes it reusable.
LEMMA CloseReusable ==
    ASSUME NEW r \in Session, Usable(r), NEW x \in close(r)
    PROVE  Reusable(x)
<1>1. session_switch(r.state, "Close") = {"Closing"}
  BY DEF Usable, session_switch, switch_state, session_table, SessionTable, SessionInput, kInvalidSimpleState
<1>2. PICK m \in close_begin(r) : x \in close_end(m)
  BY DEF close
<1>3. m = [r EXCEPT !.state = "Closing", !.lua_engine = FALSE, !.ios = FALSE]
  BY <1>1, <1>2 DEF close_begin
<1>4. session_switch("Closing", "Closed") = {"Idle"}
  BY DEF session_switch, switch_state, session_table, SessionTable, SessionInput, kInvalidSimpleState
<1>5. m.state = "Closing" /\ m \in Session /\ ~m.ios
  BY <1>3 DEF Session, SessionState, SessionTable
<1>6. x = [m EXCEPT !.state = "Idle", !.live_session_id = NoSid,
                    !.services = NoServices, !.capabilities = {}]
  BY <1>2, <1>4, <1>5 DEF close_end
<1> QED BY <1>5, <1>6 DEF Reusable, Session

\* A usable session stays usable, with its id, while it serves.
LEMMA ServeUsable ==
    ASSUME NEW r \in Session, Usable(r), NEW s \in Svcs \cup {NoSvc}
    PROVE  /\ \A x \in execute(r) : Usable(x) /\ x.live_session_id = r.live_session_id
           /\ Usable(reg_svc(r, s)) /\ reg_svc(r, s).live_session_id = r.live_session_id
           /\ Usable(unreg_svc(r, s)) /\ unreg_svc(r, s).live_session_id = r.live_session_id
<1>1. session_switch(r.state, "Execute") = {"Ready"}
  BY DEF Usable, session_switch, switch_state, session_table, SessionTable, SessionInput, kInvalidSimpleState
<1>2. \A x \in execute(r) : Usable(x) /\ x.live_session_id = r.live_session_id
  BY <1>1 DEF execute, Usable, Session
<1>3. Usable(reg_svc(r, s)) /\ reg_svc(r, s).live_session_id = r.live_session_id
  BY DEF reg_svc, reg_svc_check, Usable, Session
<1>4. Usable(unreg_svc(r, s)) /\ unreg_svc(r, s).live_session_id = r.live_session_id
  BY DEF unreg_svc, Usable, Session
<1> QED BY <1>2, <1>3, <1>4

\* Where the entrance is in its life: outside initialize and uninitialize it
\* is either wholly up or wholly down, and the manager is gone before the io
\* thread is joined.
Phases ==
    /\ stopping = "no" =>
          \/ /\ current_state = "Idle" /\ ~manager /\ ~ios
             /\ running = NoTask /\ current_live_session_id = NoSid
          \/ current_state = "Ready" /\ manager /\ ios
    /\ stopping = "join" => ~manager
    /\ closing # NoHandle => stopping = "closing"

\* The do_execute under way has found a session that is still busy.
ExecuteInBusy ==
    Serving /\ running # NoTask /\ running.ec = "Success" => running.task.h \in busy_sessions

\* A call or its return leaves everything but the queue, the threads and what
\* the application knows alone.
LEMMA CallFrame ==
    ASSUME NEW t \in Threads, Call(t) \/ Return(t)
    PROVE  UNCHANGED <<session, idle_sessions, busy_sessions, stopping, to_close, closing,
                       current_state, manager, ios, running, current_live_session_id>>
<1> USE DEF poolVars, entranceVars, stopVars
<1>1. CASE CallRefused(t)
  BY <1>1 DEF CallRefused
<1>2. CASE Return(t)
  BY <1>2 DEF Return
<1>3. CASE \E task : Post(task)
  BY <1>3 DEF Post
<1>4. CallRefused(t) \/ Return(t) \/ \E task : Post(task)
  BY DEF Call, sync_open_session, close_session, sync_execute, reg, unreg
<1> QED BY <1>1, <1>2, <1>3, <1>4

\* Every step keeps Phases.
LEMMA PhasesStep ==
    ASSUME TypeOK, Phases, [Next]_vars
    PROVE  Phases'
<1> USE DEF Phases
<1>1. CASE Lifecycle
  BY <1>1 DEF Lifecycle, StopProgress, Initialize, Uninitialize, InitializeAgain, UninitCloseBegin,
              UninitCloseEnd, UninitClear, StopJoin, entranceVars, stopVars
<1>2. ASSUME NEW t \in Threads, Call(t) \/ Return(t) PROVE Phases'
  <2>1. UNCHANGED <<stopping, current_state, manager, ios, running, current_live_session_id>>
    BY <1>2, CallFrame
  <2>2. closing' = closing
    BY <1>2, CallFrame
  <2> QED BY <2>1, <2>2
<1>3. CASE IoThread
  <2>1. /\ stopping' = stopping /\ closing' = closing
        /\ current_state' = current_state /\ manager' = manager /\ ios' = ios
    BY <1>3 DEF IoThread, do_execute, do_open_session_refused, do_open_session_failed, do_open_session,
                do_close_session, do_reg_svc, do_unreg_svc, do_execute_find, do_execute_check,
                do_execute_run, do_execute_fail, HandlerFrame, entranceVars, stopVars
  <2>2. ios \/ running # NoTask
    <3>1. CASE do_execute_check \/ do_execute_run \/ do_execute_fail
      BY <3>1 DEF do_execute_check, do_execute_run, do_execute_fail, NoTask
    <3>2. CASE ~(do_execute_check \/ do_execute_run \/ do_execute_fail)
      BY <1>3, <3>2 DEF IoThread, do_execute, do_open_session_refused, do_open_session_failed,
                        do_open_session, do_close_session, do_reg_svc, do_unreg_svc,
                        do_execute_find, Starts
    <3> QED BY <3>1, <3>2
  <2> QED BY <2>1, <2>2
<1>4. ASSUME NEW i \in DOMAIN queue, Timeout(i) PROVE Phases'
  BY <1>4 DEF Timeout, entranceVars, stopVars
<1>5. CASE UNCHANGED vars
  BY <1>5 DEF vars
<1> QED BY <1>1, <1>2, <1>3, <1>4, <1>5 DEF Next

\* While the entrance serves, a session that is busy can be replaced by a
\* usable one with the same id.
LEMMA ServeStep ==
    ASSUME TypeOK, PoolConsistent, SidNotStale, Serving, NEW h \in busy_sessions, NEW r,
           Usable(r), r.live_session_id = session[h].live_session_id,
           session' = [session EXCEPT ![h] = r],
           UNCHANGED <<idle_sessions, busy_sessions, manager, stopping, current_live_session_id>>
    PROVE  PoolConsistent' /\ SidNotStale'
<1> USE DEF Serving
<1>1. h \in Handles /\ h \notin idle_sessions
  BY DEF PoolConsistent, TypeOK
<1>2. \A g \in Handles : session'[g] = IF g = h THEN r ELSE session[g]
  BY <1>1 DEF TypeOK
<1>3. \A g \in Handles : session'[g].live_session_id = session[g].live_session_id
  BY <1>2
<1>4. PoolConsistent'
  <2>1. \A g \in busy_sessions' : Usable(session'[g])
    BY <1>2 DEF PoolConsistent
  <2>2. \A g \in idle_sessions' : Reusable(session'[g])
    BY <1>1, <1>2 DEF PoolConsistent
  <2>3. \A f, g \in busy_sessions' :
           session'[f].live_session_id = session'[g].live_session_id => f = g
    BY <1>3 DEF PoolConsistent
  <2> QED BY <2>1, <2>2, <2>3 DEF PoolConsistent
<1>5. SidNotStale'
  BY <1>3 DEF SidNotStale, TypeOK
<1> QED BY <1>4, <1>5

\* The steps of initialize and uninitialize keep the pool consistent.
LEMMA PoolLifecycle ==
    ASSUME TypeOK, Phases, Lifecycle
    PROVE  PoolConsistent' /\ SidNotStale' /\ ExecuteInBusy'
<1>1. CASE Initialize
  <2>1. /\ session' = [h \in Handles |-> new_session]
        /\ idle_sessions' = Handles /\ busy_sessions' = {}
    BY <1>1 DEF Initialize, init
  <2>2. Reusable(new_session)
    BY DEF Reusable, new_session
  <2>3. running' = NoTask /\ current_live_session_id' = NoSid
    BY <1>1 DEF Initialize, Phases
  <2>4. PoolConsistent'
    BY <2>1, <2>2 DEF PoolConsistent
  <2> QED BY <2>3, <2>4 DEF SidNotStale, ExecuteInBusy
<1>2. CASE ~Initialize
  <2>1. ~Serving'
    BY <1>2, HandleAssumption
       DEF Lifecycle, StopProgress, Uninitialize, InitializeAgain, UninitCloseBegin, UninitCloseEnd,
           UninitClear, StopJoin, Phases, Serving, entranceVars
  <2> QED BY <2>1 DEF PoolConsistent, SidNotStale, ExecuteInBusy
<1> QED BY <1>1, <1>2

\* So do the handlers of sessions.
LEMMA OpenStep ==
    ASSUME TypeOK, PoolConsistent, SidNotStale, Serving, NEW h \in idle_sessions,
           NEW sid \in FreshSids, NEW caps \in (SUBSET Codes) \ {{}}, open_idle_session(h, sid, caps),
           current_live_session_id' = sid, UNCHANGED <<manager, stopping>>
    PROVE  PoolConsistent' /\ SidNotStale'
<1> USE DEF Serving
<1>1. h \in Handles /\ session[h] \in Session /\ Reusable(session[h]) /\ h \notin busy_sessions
  BY DEF TypeOK, PoolConsistent
<1>2. PICK r \in open(session[h], sid, caps) : session' = [session EXCEPT ![h] = r]
  BY DEF open_idle_session
<1>3. Usable(r) /\ r.live_session_id = sid
  <2>1. sid \in Sids /\ caps \in SUBSET Codes /\ caps # {}
    BY DEF FreshSids
  <2> QED BY <1>1, <1>2, <2>1, OpenUsable
<1>4. \A g \in Handles : session'[g] = IF g = h THEN r ELSE session[g]
  BY <1>1, <1>2 DEF TypeOK
<1>5. \A g \in Handles : session[g].live_session_id # sid
  BY DEF FreshSids
<1>6. busy_sessions' = busy_sessions \cup {h} /\ idle_sessions' = idle_sessions \ {h}
  BY DEF open_idle_session
<1>7. busy_sessions \subseteq Handles /\ idle_sessions \subseteq Handles
  BY DEF TypeOK
<1>8. PoolConsistent'
  <2>1. idle_sessions' \cup busy_sessions' = Handles /\ idle_sessions' \cap busy_sessions' = {}
    BY <1>1, <1>6 DEF PoolConsistent
  <2>2. \A g \in busy_sessions' : Usable(session'[g])
    BY <1>1, <1>3, <1>4, <1>6, <1>7 DEF PoolConsistent
  <2>3. \A g \in idle_sessions' : Reusable(session'[g])
    BY <1>4, <1>6, <1>7 DEF PoolConsistent
  <2>4. ASSUME NEW f \in busy_sessions', NEW g \in busy_sessions',
               session'[f].live_session_id = session'[g].live_session_id
        PROVE  f = g
    BY <1>1, <1>3, <1>4, <1>5, <1>6, <1>7, <2>4 DEF PoolConsistent
  <2> QED BY <2>1, <2>2, <2>3, <2>4 DEF PoolConsistent
<1>9. SidNotStale'
  <2>1. h \in busy_sessions' /\ session'[h].live_session_id = current_live_session_id'
    BY <1>1, <1>3, <1>4, <1>6
  <2> QED BY <2>1 DEF SidNotStale
<1> QED BY <1>8, <1>9

\* An idle session can be replaced by a reusable one.
LEMMA OpenFailedStep ==
    ASSUME TypeOK, PoolConsistent, SidNotStale, Serving, NEW h \in idle_sessions,
           NEW sid, open_idle_session_failed(h, sid),
           UNCHANGED <<manager, stopping, current_live_session_id>>
    PROVE  PoolConsistent' /\ SidNotStale'
<1> USE DEF Serving
<1>1. h \in Handles /\ session[h] \in Session /\ Reusable(session[h]) /\ h \notin busy_sessions
  BY DEF TypeOK, PoolConsistent
<1>2. /\ session' = [session EXCEPT ![h] = open_failed(session[h], sid)]
      /\ UNCHANGED <<idle_sessions, busy_sessions>>
  BY DEF open_idle_session_failed
<1>3. \A g \in Handles : session'[g] = IF g = h THEN open_failed(session[h], sid) ELSE session[g]
  BY <1>1, <1>2 DEF TypeOK
<1>4. \A g \in busy_sessions : session'[g] = session[g]
  BY <1>1, <1>3 DEF TypeOK
<1>5. \A g \in idle_sessions : Reusable(session'[g])
  BY <1>1, <1>3, OpenFailedReusable DEF TypeOK, PoolConsistent
<1> QED BY <1>2, <1>4, <1>5 DEF PoolConsistent, SidNotStale

\* A busy session that is closed joins the idle ones.
LEMMA CloseStep ==
    ASSUME TypeOK, PoolConsistent, Serving, NEW h, close_busy_session(h),
           current_live_session_id' = NoSid, UNCHANGED <<manager, stopping>>
    PROVE  PoolConsistent' /\ SidNotStale'
<1> USE DEF Serving
<1>1. CASE h \notin busy_sessions
  BY <1>1 DEF close_busy_session, poolVars, PoolConsistent, SidNotStale
<1>2. CASE h \in busy_sessions
  <2>1. h \in Handles /\ session[h] \in Session /\ Usable(session[h]) /\ h \notin idle_sessions
    BY <1>2 DEF TypeOK, PoolConsistent
  <2>2. PICK r \in close(session[h]) : session' = [session EXCEPT ![h] = r]
    BY <1>2 DEF close_busy_session
  <2>3. Reusable(r)
    BY <2>1, <2>2, CloseReusable
  <2>4. idle_sessions' = idle_sessions \cup {h} /\ busy_sessions' = busy_sessions \ {h}
    BY <1>2 DEF close_busy_session
  <2>5. \A g \in Handles : session'[g] = IF g = h THEN r ELSE session[g]
    BY <2>1, <2>2 DEF TypeOK
  <2>6. busy_sessions \subseteq Handles /\ idle_sessions \subseteq Handles
    BY DEF TypeOK
  <2>7. idle_sessions' \cup busy_sessions' = Handles /\ idle_sessions' \cap busy_sessions' = {}
    BY <1>2, <2>4 DEF PoolConsistent
  <2>8. \A g \in busy_sessions' : session'[g] = session[g] /\ g \in busy_sessions
    BY <2>4, <2>5, <2>6
  <2>9. \A g \in idle_sessions' : Reusable(session'[g])
    <3>1. \A g \in idle_sessions : Reusable(session[g])
      BY DEF PoolConsistent
    <3>2. \A g \in idle_sessions' : g \in Handles /\ (g = h \/ g \in idle_sessions)
      BY <2>1, <2>4, <2>6
    <3> QED BY <2>3, <2>5, <3>1, <3>2
  <2> QED BY <2>7, <2>8, <2>9 DEF PoolConsistent, SidNotStale
<1> QED BY <1>1, <1>2

\* A handler leaves the manager, and the progress of force_stop, alone.
LEMMA HandlerKeeps ==
    ASSUME IoThread
    PROVE  manager' = manager /\ stopping' = stopping
BY DEF IoThread, do_execute, do_open_session_refused, do_open_session_failed, do_open_session,
       do_close_session, do_reg_svc, do_unreg_svc, do_execute_find, do_execute_check,
       do_execute_run, do_execute_fail, HandlerFrame, entranceVars, stopVars

\* The handlers of the io thread keep the pool consistent.
LEMMA PoolHandlers ==
    ASSUME TypeOK, PoolConsistent, SidNotStale, ExecuteInBusy, IoThread
    PROVE  PoolConsistent' /\ SidNotStale' /\ ExecuteInBusy'
<1>1. manager' = manager /\ stopping' = stopping
  BY HandlerKeeps
<1>2. CASE ~Serving
  <2>1. ~Serving'
    BY <1>1, <1>2 DEF Serving
  <2> QED BY <2>1 DEF PoolConsistent, SidNotStale, ExecuteInBusy
<1>3. CASE Serving
  <2>0. UNCHANGED <<poolVars, current_live_session_id>> => PoolConsistent' /\ SidNotStale'
    BY <1>1 DEF poolVars, PoolConsistent, SidNotStale, Serving
  <2>1. CASE do_open_session_refused
    <3>1. running' = NoTask /\ UNCHANGED <<poolVars, current_live_session_id>>
      BY <2>1 DEF do_open_session_refused, Starts, HandlerFrame
    <3> QED BY <2>0, <3>1 DEF ExecuteInBusy
  <2>2. CASE do_open_session_failed
    <3>1. running' = NoTask /\ current_live_session_id' = current_live_session_id
      BY <2>2 DEF do_open_session_failed, Starts, HandlerFrame
    <3>2. PICK h \in idle_sessions, sid \in FreshSids : open_idle_session_failed(h, sid)
      BY <2>2 DEF do_open_session_failed
    <3>3. PoolConsistent' /\ SidNotStale'
      BY <1>1, <1>3, <3>1, <3>2, OpenFailedStep
    <3> QED BY <3>1, <3>3 DEF ExecuteInBusy
  <2>3. CASE do_open_session
    <3>1. running' = NoTask
      BY <2>3 DEF do_open_session, Starts, HandlerFrame
    <3>2. PICK h \in idle_sessions, sid \in FreshSids, caps \in (SUBSET Codes) \ {{}} :
             open_idle_session(h, sid, caps) /\ current_live_session_id' = sid
      BY <2>3 DEF do_open_session
    <3>3. PoolConsistent' /\ SidNotStale'
      BY <1>1, <1>3, <3>2, OpenStep
    <3> QED BY <3>1, <3>3 DEF ExecuteInBusy
  <2>4. CASE do_close_session
    <3>1. running' = NoTask
      BY <2>4 DEF do_close_session, Starts, HandlerFrame
    <3>2. \/ close_busy_session(Head(queue).h) /\ current_live_session_id' = NoSid
          \/ UNCHANGED <<poolVars, current_live_session_id>>
      BY <2>4 DEF do_close_session
    <3>3. PoolConsistent' /\ SidNotStale'
      BY <1>1, <1>3, <2>0, <3>2, CloseStep
    <3> QED BY <3>1, <3>3 DEF ExecuteInBusy
  <2>5. CASE do_reg_svc
    <3> DEFINE s == Head(queue).svc
               h == get_busy_session(handle[s])
    <3>1. running' = NoTask /\ current_live_session_id' = current_live_session_id
      BY <2>5 DEF do_reg_svc, Starts, HandlerFrame
    <3>2. CASE h = NoHandle
      BY <2>0, <2>5, <3>1, <3>2 DEF do_reg_svc, ExecuteInBusy
    <3>3. CASE h # NoHandle
      <4>1. h \in busy_sessions
        BY <3>3 DEF get_busy_session
      <4>2. s \in Svcs \cup {NoSvc} /\ h \in Handles /\ session[h] \in Session /\ Usable(session[h])
        BY <1>3, <2>5, <4>1, QueueType DEF do_reg_svc, Starts, TypeOK, PoolConsistent, Task
      <4>3. /\ session' = [session EXCEPT ![h] = reg_svc(session[h], s)]
            /\ UNCHANGED <<idle_sessions, busy_sessions>>
        BY <2>5, <3>3 DEF do_reg_svc
      <4>4. /\ Usable(reg_svc(session[h], s))
            /\ reg_svc(session[h], s).live_session_id = session[h].live_session_id
        BY <4>2, ServeUsable
      <4> HIDE DEF h, s
      <4>5. PoolConsistent' /\ SidNotStale'
        BY <1>1, <1>3, <3>1, <4>1, <4>3, <4>4, ServeStep
      <4> QED BY <3>1, <4>5 DEF ExecuteInBusy
    <3> QED BY <3>2, <3>3
  <2>6. CASE do_unreg_svc
    <3> DEFINE s == Head(queue).svc
               h == get_busy_session(handle[s])
    <3>1. running' = NoTask /\ current_live_session_id' = current_live_session_id
      BY <2>6 DEF do_unreg_svc, Starts, HandlerFrame
    <3>2. CASE h = NoHandle
      BY <2>0, <2>6, <3>1, <3>2 DEF do_unreg_svc, ExecuteInBusy
    <3>3. CASE h # NoHandle
      <4>1. h \in busy_sessions
        BY <3>3 DEF get_busy_session
      <4>2. s \in Svcs \cup {NoSvc} /\ h \in Handles /\ session[h] \in Session /\ Usable(session[h])
        BY <1>3, <2>6, <4>1, QueueType DEF do_unreg_svc, Starts, TypeOK, PoolConsistent, Task
      <4>3. /\ session' = [session EXCEPT ![h] = unreg_svc(session[h], s)]
            /\ UNCHANGED <<idle_sessions, busy_sessions>>
        BY <2>6, <3>3 DEF do_unreg_svc
      <4>4. /\ Usable(unreg_svc(session[h], s))
            /\ unreg_svc(session[h], s).live_session_id = session[h].live_session_id
        BY <4>2, ServeUsable
      <4> HIDE DEF h, s
      <4>5. PoolConsistent' /\ SidNotStale'
        BY <1>1, <1>3, <3>1, <4>1, <4>3, <4>4, ServeStep
      <4> QED BY <3>1, <4>5 DEF ExecuteInBusy
    <3> QED BY <3>2, <3>3
  <2>7. CASE do_execute_find
    <3>1. UNCHANGED <<poolVars, current_live_session_id>>
      BY <2>7 DEF do_execute_find
    <3>2. running'.ec = "Success" => running'.task.h \in busy_sessions
      <4>1. running'.ec = "Success" => get_busy_session(Head(queue).h) # NoHandle
        BY <2>7 DEF do_execute_find
      <4>2. running'.task = Head(queue)
        BY <2>7 DEF do_execute_find
      <4> QED BY <4>1, <4>2 DEF get_busy_session
    <3> QED BY <2>0, <3>1, <3>2 DEF ExecuteInBusy, poolVars
  <2>8. CASE do_execute_check
    <3>1. UNCHANGED <<poolVars, current_live_session_id>>
      BY <2>8 DEF do_execute_check
    <3>2. running # NoTask /\ running.ec = "Success"
      BY <2>8 DEF do_execute_check, NoTask
    <3>3. running \in [step : {"found", "checked"}, task : Task, ec : Ec]
      BY <3>2 DEF TypeOK
    <3>4. running'.task = running.task
      BY <2>8, <3>3 DEF do_execute_check
    <3> QED BY <1>3, <2>0, <3>1, <3>2, <3>4 DEF ExecuteInBusy, poolVars
  <2>9. CASE do_execute_run
    <3> DEFINE h == running.task.h
    <3>1. /\ running' = NoTask /\ running # NoTask
          /\ UNCHANGED <<idle_sessions, busy_sessions, current_live_session_id>>
      BY <2>9 DEF do_execute_run, NoTask
    <3>2. h \in busy_sessions
      BY <1>3, <2>9, <3>1 DEF do_execute_run, ExecuteInBusy
    <3>3. PICK r \in execute(session[h]) : session' = [session EXCEPT ![h] = r]
      BY <2>9 DEF do_execute_run
    <3>4. session[h] \in Session /\ Usable(session[h])
      BY <1>3, <3>2 DEF TypeOK, PoolConsistent
    <3>5. Usable(r) /\ r.live_session_id = session[h].live_session_id
      BY <3>3, <3>4, ServeUsable
    <3> HIDE DEF h
    <3>6. PoolConsistent' /\ SidNotStale'
      BY <1>1, <1>3, <3>1, <3>2, <3>3, <3>5, ServeStep
    <3> QED BY <3>1, <3>6 DEF ExecuteInBusy
  <2>10. CASE do_execute_fail
    <3>1. running' = NoTask /\ UNCHANGED <<poolVars, current_live_session_id>>
      BY <2>10 DEF do_execute_fail
    <3> QED BY <2>0, <3>1 DEF ExecuteInBusy
  <2> QED BY <2>1, <2>2, <2>3, <2>4, <2>5, <2>6, <2>7, <2>8, <2>9, <2>10 DEF IoThread, do_execute
<1> QED BY <1>2, <1>3

\* Every step keeps the pool consistent.
LEMMA PoolStep ==
    ASSUME TypeOK, Phases, PoolConsistent, SidNotStale, ExecuteInBusy, [Next]_vars
    PROVE  PoolConsistent' /\ SidNotStale' /\ ExecuteInBusy'
<1>0. ASSUME UNCHANGED <<session, idle_sessions, busy_sessions, manager, stopping, running,
                         current_live_session_id>>
      PROVE  PoolConsistent' /\ SidNotStale' /\ ExecuteInBusy'
  BY <1>0 DEF PoolConsistent, SidNotStale, ExecuteInBusy, Serving
<1>1. CASE Lifecycle
  BY <1>1, PoolLifecycle
<1>2. ASSUME NEW t \in Threads, Call(t) \/ Return(t)
      PROVE  PoolConsistent' /\ SidNotStale' /\ ExecuteInBusy'
  BY <1>0, <1>2, CallFrame
<1>3. CASE IoThread
  BY <1>3, PoolHandlers
<1>4. ASSUME NEW i \in DOMAIN queue, Timeout(i)
      PROVE  PoolConsistent' /\ SidNotStale' /\ ExecuteInBusy'
  BY <1>0, <1>4 DEF Timeout, poolVars, entranceVars, stopVars
<1>5. CASE UNCHANGED vars
  BY <1>0, <1>5 DEF vars
<1> QED BY <1>1, <1>2, <1>3, <1>4, <1>5 DEF Next

\* What holds throughout: the inductive invariant behind the two theorems
\* that follow.
LEMMA PoolInvariant == Spec => [](PoolConsistent /\ SidNotStale /\ Phases /\ ExecuteInBusy)
<1>1. Init => PoolConsistent /\ SidNotStale /\ Phases /\ ExecuteInBusy
  BY HandleAssumption DEF Init, PoolConsistent, SidNotStale, Phases, ExecuteInBusy, Serving
<1>2. TypeOK /\ PoolConsistent /\ SidNotStale /\ Phases /\ ExecuteInBusy /\ [Next]_vars
         => (PoolConsistent /\ SidNotStale /\ Phases /\ ExecuteInBusy)'
  BY PhasesStep, PoolStep
<1> QED BY <1>1, <1>2, TypeCorrect, PTL DEF Spec

\* Whatever the numbers of threads, sessions and services and the order of
\* their calls, timeouts and restarts: between handlers the tables of
\* SessionManager split the sessions, busy ones are usable, idle ones are
\* reusable, and live session ids are distinct.
THEOREM PoolConsistency == Spec => []PoolConsistent
BY PoolInvariant, PTL

\* The live session id that do_open_session publishes and do_close_session
\* clears never names a session that is no longer open.
THEOREM SidFreshness == Spec => []SidNotStale
BY PoolInvariant, PTL

-----------------------------------------------------------------------------
(* What a step does to the queue, the task under way and the threads.      *)

\* The oldest handler has been taken from the queue and its promise honored.
Answered ==
    /\ ios /\ queue # <<>> /\ queue' = Tail(queue)
    /\ running = NoTask /\ running' = NoTask
    /\ \E h, e : honor(Head(queue), h, e)

\* The oldest handler is a do_execute and is under way.
Begun ==
    /\ ios /\ queue # <<>> /\ queue' = Tail(queue)
    /\ running = NoTask /\ running' # NoTask /\ running'.task = Head(queue)
    /\ thread' = thread

\* The do_execute under way goes on.
Continued ==
    /\ running # NoTask /\ running' # NoTask /\ running'.task = running.task
    /\ queue' = queue /\ thread' = thread

\* It has ended and its promise has been honored.
Finished ==
    /\ running # NoTask /\ running' = NoTask
    /\ queue' = queue
    /\ \E h, e : honor(running.task, h, e)

\* A handler of the io thread does one of these four things.
LEMMA HandlerShape ==
    ASSUME TypeOK, IoThread
    PROVE  /\ Answered \/ Begun \/ Continued \/ Finished
           /\ UNCHANGED <<own, handle, stopping, ios, manager, current_state>>
<1>1. UNCHANGED <<own, handle, stopping, ios, manager, current_state>>
  BY DEF IoThread, do_execute, do_open_session_refused, do_open_session_failed, do_open_session,
         do_close_session, do_reg_svc, do_unreg_svc, do_execute_find, do_execute_check,
         do_execute_run, do_execute_fail, HandlerFrame, entranceVars, stopVars
<1>2. CASE do_open_session_refused \/ do_open_session_failed \/ do_close_session
  BY <1>1, <1>2 DEF do_open_session_refused, do_open_session_failed, do_close_session,
                    Starts, HandlerFrame, Answered
<1>3. CASE do_open_session
  <2>1. \E h : honor(Head(queue), h, "Success")
    BY <1>3 DEF do_open_session
  <2> QED BY <1>1, <1>3, <2>1 DEF do_open_session, Starts, HandlerFrame, Answered
<1>4. CASE do_reg_svc \/ do_unreg_svc
  <2>1. \E h, e : honor(Head(queue), h, e)
    BY <1>4 DEF do_reg_svc, do_unreg_svc
  <2> QED BY <1>1, <1>4, <2>1 DEF do_reg_svc, do_unreg_svc, Starts, HandlerFrame, Answered
<1>5. CASE do_execute_find
  <2>1. running'.step = "found" /\ running'.task = Head(queue)
    BY <1>5 DEF do_execute_find
  <2>2. running' # NoTask
    BY <2>1 DEF NoTask
  <2> QED BY <1>1, <1>5, <2>1, <2>2 DEF do_execute_find, Starts, Begun
<1>6. CASE do_execute_check
  <2>1. running # NoTask /\ running \in [step : {"found", "checked"}, task : Task, ec : Ec]
    BY <1>6 DEF do_execute_check, TypeOK, NoTask
  <2>2. running'.step = "checked" /\ running'.task = running.task
    BY <1>6, <2>1 DEF do_execute_check
  <2>3. running' # NoTask
    BY <2>2 DEF NoTask
  <2> QED BY <1>1, <1>6, <2>1, <2>2, <2>3 DEF do_execute_check, Continued
<1>7. CASE do_execute_run \/ do_execute_fail
  <2>1. running # NoTask /\ running' = NoTask /\ queue' = queue
    BY <1>7 DEF do_execute_run, do_execute_fail, NoTask
  <2>2. \E h, e : honor(running.task, h, e)
    BY <1>7 DEF do_execute_run, do_execute_fail
  <2> QED BY <1>1, <2>1, <2>2 DEF Finished
<1> QED BY <1>1, <1>2, <1>3, <1>4, <1>5, <1>6, <1>7 DEF IoThread, do_execute

\* What the task a thread posts may be: only a command has a timeout, a close
\* takes the handle from its thread, and a command bound to a live session is
\* bound to one the thread owns.
Posted(t, task) ==
    /\ task \in Task /\ task.thread = t /\ ~task.honored
    /\ task.timed => task.op = "exec"
    /\ task.op = "close" => /\ task.h \in own[t] \cup {NoHandle}
                            /\ own' = [own EXCEPT ![t] = @ \ {task.h}]
    /\ task.op # "close" => own' = own
    /\ task.op = "exec" /\ task.sid # NoSid =>
          task.h \in own[t] /\ task.sid = session[task.h].live_session_id
    /\ Post(task)

\* A call posts one task of the calling thread, or is refused at once.
LEMMA CallShape ==
    ASSUME TypeOK, NEW t \in Threads, Call(t)
    PROVE  /\ thread[t] = Away /\ stopping = "no"
           /\ CallRefused(t) \/ \E task : Posted(t, task)
<1>1. thread[t] = Away /\ stopping = "no"
  BY DEF Call, CallRefused, sync_open_session, close_session, sync_execute, reg, unreg, MayCall
<1>2. CASE sync_open_session(t)
  <2> DEFINE task == NewTask("open", t, NoHandle, NoSvc, FALSE, NoSid)
  <2>1. task \in Task /\ Posted(t, task)
    BY <1>2 DEF sync_open_session, NewTask, Task, Op, Posted
  <2> QED BY <1>1, <2>1
<1>3. CASE close_session(t)
  <2>1. PICK h \in own[t] \cup {NoHandle} : /\ Post(NewTask("close", t, h, NoSvc, FALSE, NoSid))
                                           /\ own' = [own EXCEPT ![t] = @ \ {h}]
    BY <1>3 DEF close_session
  <2> DEFINE task == NewTask("close", t, h, NoSvc, FALSE, NoSid)
  <2>2. task \in Task /\ Posted(t, task)
    BY <2>1 DEF NewTask, Task, Op, TypeOK, Posted
  <2> QED BY <1>1, <2>2
<1>4. ASSUME NEW s \in Svcs, sync_execute(t, s) PROVE \E task : Posted(t, task)
  <2> DEFINE sid == IF handle[s] \in own[t] THEN session[handle[s]].live_session_id ELSE NoSid
  <2>1. sid \in Sids \cup {NoSid}
    BY DEF TypeOK, Session
  <2>2. sid # NoSid => handle[s] \in own[t] /\ sid = session[handle[s]].live_session_id
    OBVIOUS
  <2>3. PICK timed \in BOOLEAN : Post(NewTask("exec", t, handle[s], s, timed, sid))
    BY <1>4 DEF sync_execute
  <2>4. own' = own
    BY <1>4 DEF sync_execute
  <2> HIDE DEF sid
  <2> DEFINE task == NewTask("exec", t, handle[s], s, timed, sid)
  <2>5. /\ task \in Task /\ task.thread = t /\ ~task.honored
        /\ task.op = "exec" /\ task.h = handle[s] /\ task.sid = sid
    BY <2>1 DEF NewTask, Task, Op, TypeOK
  <2> HIDE DEF task
  <2>6. Posted(t, task)
    BY <2>2, <2>3, <2>4, <2>5 DEF Posted, task
  <2> QED BY <2>6
<1>5. ASSUME NEW s \in Svcs, reg(t, s) PROVE \E task : Posted(t, task)
  <2>1. PICK h \in own[t] : Post(NewTask("reg", t, h, s, FALSE, NoSid))
    BY <1>5 DEF reg
  <2> DEFINE task == NewTask("reg", t, h, s, FALSE, NoSid)
  <2>2. task \in Task /\ Posted(t, task)
    BY <1>5, <2>1 DEF reg, NewTask, Task, Op, TypeOK, Posted
  <2> QED BY <2>2
<1>6. ASSUME NEW s \in Svcs, unreg(t, s) PROVE \E task : Posted(t, task)
  <2> DEFINE task == NewTask("unreg", t, handle[s], s, FALSE, NoSid)
  <2>1. task \in Task /\ Posted(t, task)
    BY <1>6 DEF unreg, NewTask, Task, Op, TypeOK, Posted
  <2> QED BY <2>1
<1> QED BY <1>1, <1>2, <1>3, <1>4, <1>5, <1>6 DEF Call

-----------------------------------------------------------------------------
(* Every blocked caller has one promise under way.                         *)

\* The promise of the task is still to be honored, and its caller waits.
Owed(task) == thread[task.thread] = Waiting(task.op, task.h)

\* The inductive form of WaiterHasTask.  Only a command may time out, so
\* only a command is ever found honored in the queue; while the entrance
\* stops nobody is inside a call; and nothing is posted to an entrance that
\* is down.
Promises ==
    /\ \A i \in DOMAIN queue : ~queue[i].honored => Owed(queue[i])
    /\ \A i, j \in DOMAIN queue :
          ~queue[i].honored /\ ~queue[j].honored /\ queue[i].thread = queue[j].thread => i = j
    /\ running # NoTask /\ ~running.task.honored =>
          /\ Owed(running.task)
          /\ \A i \in DOMAIN queue : ~queue[i].honored => queue[i].thread # running.task.thread
    /\ \A t \in Threads : thread[t].pc = "wait" =>
          \/ \E i \in DOMAIN queue : ~queue[i].honored /\ queue[i].thread = t
          \/ running # NoTask /\ ~running.task.honored /\ running.task.thread = t
    /\ \A i \in DOMAIN queue : queue[i].honored \/ queue[i].timed => queue[i].op = "exec"
    /\ stopping # "no" => Quiescent
    /\ stopping = "no" /\ ~ios => queue = <<>>

\* Honoring a promise that is not honored yet releases the thread that waits
\* on it, and does nothing else.
LEMMA HonorEffect ==
    ASSUME TypeOK, NEW task \in Task, NEW h, NEW e, honor(task, h, e)
    PROVE  /\ ~task.honored => thread'[task.thread] = Returning(task.op, h, e)
           /\ \A t \in Threads : task.honored \/ t # task.thread => thread'[t] = thread[t]
BY DEF TypeOK, honor, Task

\* A posted handler belongs to a thread.
LEMMA QueueThreads ==
    ASSUME TypeOK
    PROVE  \A i \in DOMAIN queue : queue[i].thread \in Threads
<1> SUFFICES ASSUME NEW i \in DOMAIN queue PROVE queue[i].thread \in Threads
  OBVIOUS
<1>1. queue[i] \in Task
  BY DEF TypeOK
<1> QED BY <1>1 DEF Task

\* The queue without its oldest handler.
LEMMA TailEffect ==
    ASSUME TypeOK, queue # <<>>, queue' = Tail(queue)
    PROVE  /\ 1 \in DOMAIN queue /\ Head(queue) = queue[1]
           /\ \A i \in DOMAIN queue : i \in Nat /\ i >= 1 /\ queue[i] \in Task
           /\ \A i \in DOMAIN queue' :
                 i \in Nat /\ i >= 1 /\ i + 1 \in DOMAIN queue /\ queue'[i] = queue[i + 1]
           /\ \A i \in DOMAIN queue :
                 i = 1 \/ (i - 1 \in DOMAIN queue' /\ queue'[i - 1] = queue[i])
<1>1. queue \in Seq(Task) /\ Len(queue) \in Nat /\ Len(queue) # 0 /\ DOMAIN queue = 1 .. Len(queue)
  BY DEF TypeOK
<1>2. queue' \in Seq(Task) /\ Len(queue') = Len(queue) - 1 /\ DOMAIN queue' = 1 .. Len(queue')
  BY <1>1
<1>3. \A i \in 1 .. Len(queue') : queue'[i] = queue[i + 1]
  BY <1>1
<1>4. \A i \in DOMAIN queue : i = 1 \/ (i - 1 \in DOMAIN queue' /\ queue'[i - 1] = queue[i])
  BY <1>1, <1>2, <1>3
<1> QED BY <1>1, <1>2, <1>3, <1>4

\* The queue with one more handler.
LEMMA PostEffect ==
    ASSUME TypeOK, NEW task \in Task, Post(task)
    PROVE  /\ DOMAIN queue' = DOMAIN queue \cup {Len(queue) + 1} /\ Len(queue) + 1 \notin DOMAIN queue
           /\ DOMAIN queue \subseteq Nat /\ Len(queue) \in Nat
           /\ \A i \in DOMAIN queue : queue'[i] = queue[i] /\ queue[i] \in Task /\ i < Len(queue) + 1
           /\ queue'[Len(queue) + 1] = task
           /\ thread'[task.thread] = Waiting(task.op, task.h)
           /\ \A t \in Threads : t # task.thread => thread'[t] = thread[t]
<1>1. queue \in Seq(Task) /\ Len(queue) \in Nat /\ DOMAIN queue = 1 .. Len(queue)
  BY DEF TypeOK
<1>2. queue' = Append(queue, task)
  BY DEF Post
<1>3. DOMAIN queue' = 1 .. Len(queue) + 1
  BY <1>1, <1>2
<1>4. /\ \A i \in DOMAIN queue : queue'[i] = queue[i] /\ queue[i] \in Task /\ i < Len(queue) + 1
      /\ queue'[Len(queue) + 1] = task
  BY <1>1, <1>2
<1>5. /\ thread'[task.thread] = Waiting(task.op, task.h)
      /\ \A t \in Threads : t # task.thread => thread'[t] = thread[t]
  BY DEF Post, TypeOK, Task
<1> QED BY <1>1, <1>3, <1>4, <1>5

\* Initially nothing is posted and nobody waits.
LEMMA PromisesInit == Init => Promises
BY DEF Init, Promises, Away, Quiescent

\* The steps of initialize and uninitialize keep the promises: what StopJoin
\* drops nobody waits for.
LEMMA PromisesLifecycle ==
    ASSUME TypeOK, Phases, Promises, Lifecycle
    PROVE  Promises'
<1> USE DEF Promises
<1>1. CASE Initialize
  BY <1>1 DEF Initialize, Owed, Quiescent
<1>2. CASE Uninitialize \/ InitializeAgain
  BY <1>2 DEF Uninitialize, InitializeAgain, Owed, Quiescent
<1>3. ASSUME NEW h \in Handles, UninitCloseBegin(h) \/ UninitCloseEnd(h) PROVE Promises'
  BY <1>3 DEF UninitCloseBegin, UninitCloseEnd, entranceVars, Owed, Quiescent
<1>4. CASE UninitClear
  BY <1>4 DEF UninitClear, Owed, Quiescent
<1>5. CASE StopJoin
  <2>1. queue' = <<>> /\ running' = NoTask /\ stopping' = "no" /\ thread' = thread /\ Quiescent
    BY <1>5 DEF StopJoin
  <2>2. \A t \in Threads : thread'[t].pc # "wait"
    BY <2>1 DEF Quiescent, Away
  <2> QED BY <2>1, <2>2
<1> QED BY <1>1, <1>2, <1>3, <1>4, <1>5 DEF Lifecycle, StopProgress

\* A call posts one promise for a thread that had none.
LEMMA PromisesPost ==
    ASSUME TypeOK, Phases, Promises, NEW task \in Task, ~task.honored, task.timed => task.op = "exec",
           thread[task.thread] = Away, stopping = "no", Post(task)
    PROVE  Promises'
<1> USE DEF Promises
<1> DEFINE n == Len(queue) + 1
           t == task.thread
<1>1. /\ DOMAIN queue' = DOMAIN queue \cup {n} /\ n \notin DOMAIN queue
      /\ \A i \in DOMAIN queue : queue'[i] = queue[i] /\ queue[i] \in Task
      /\ queue'[n] = task
      /\ thread'[t] = Waiting(task.op, task.h)
      /\ \A u \in Threads : u # t => thread'[u] = thread[u]
  BY PostEffect
<1>2. t \in Threads /\ thread[t].pc # "wait"
  BY DEF Task, Away
<1>3. ASSUME NEW i \in DOMAIN queue, ~queue[i].honored PROVE queue[i].thread # t
  <2>1. Owed(queue[i])
    BY <1>3
  <2>2. thread[queue[i].thread].pc = "wait"
    BY <2>1 DEF Owed, Waiting
  <2> QED BY <1>2, <2>2
<1>4. running # NoTask /\ ~running.task.honored => running.task.thread # t
  <2>1. SUFFICES ASSUME running # NoTask, ~running.task.honored PROVE running.task.thread # t
    OBVIOUS
  <2>2. Owed(running.task)
    BY <2>1
  <2>3. thread[running.task.thread].pc = "wait"
    BY <2>2 DEF Owed, Waiting
  <2> QED BY <1>2, <2>3
<1>5. running' = running /\ stopping' = stopping /\ ios' = ios /\ ios
  BY DEF Post, entranceVars, stopVars
<1>6. \A i \in DOMAIN queue : queue[i].thread \in Threads
  BY <1>1 DEF Task
<1>7. running # NoTask => running.task.thread \in Threads
  BY DEF TypeOK, Task
<1> HIDE DEF n, t
<1>8. \A i \in DOMAIN queue' : ~queue'[i].honored => Owed(queue[i])'
  BY <1>1, <1>3, <1>6 DEF Owed, t
<1>9. ASSUME NEW i \in DOMAIN queue', NEW j \in DOMAIN queue',
             ~queue'[i].honored, ~queue'[j].honored, queue'[i].thread = queue'[j].thread
      PROVE  i = j
  BY <1>1, <1>3, <1>9 DEF t
<1>10. ASSUME running' # NoTask, ~running'.task.honored
       PROVE  /\ Owed(running.task)'
              /\ \A i \in DOMAIN queue' : ~queue'[i].honored => queue'[i].thread # running'.task.thread
  BY <1>1, <1>4, <1>5, <1>7, <1>10 DEF Owed, t
<1>11. ASSUME NEW u \in Threads, thread'[u].pc = "wait"
       PROVE  \/ \E i \in DOMAIN queue' : ~queue'[i].honored /\ queue'[i].thread = u
              \/ running' # NoTask /\ ~running'.task.honored /\ running'.task.thread = u
  <2>1. CASE u = t
    BY <1>1, <2>1 DEF t
  <2>2. CASE u # t
    BY <1>1, <1>5, <1>11, <2>2
  <2> QED BY <2>1, <2>2
<1>12. \A i \in DOMAIN queue' : queue'[i].honored \/ queue'[i].timed => queue'[i].op = "exec"
  BY <1>1
<1> QED BY <1>5, <1>8, <1>9, <1>10, <1>11, <1>12

\* The promise of a handler taken from the queue was the only one of its
\* caller.
LEMMA PromisesAnswered ==
    ASSUME TypeOK, Promises, Answered, UNCHANGED <<stopping, ios>>
    PROVE  Promises'
<1> USE DEF Promises
<1> DEFINE task == Head(queue)
<1>1. PICK h, e : honor(task, h, e)
  BY DEF Answered
<1>2. /\ 1 \in DOMAIN queue /\ task = queue[1] /\ task \in Task
      /\ \A i \in DOMAIN queue : i \in Nat /\ i >= 1 /\ queue[i] \in Task
      /\ \A i \in DOMAIN queue' :
            i \in Nat /\ i >= 1 /\ i + 1 \in DOMAIN queue /\ queue'[i] = queue[i + 1]
      /\ \A i \in DOMAIN queue : i = 1 \/ (i - 1 \in DOMAIN queue' /\ queue'[i - 1] = queue[i])
  BY TailEffect DEF Answered
<1>3. /\ ~task.honored => thread'[task.thread] = Returning(task.op, h, e)
      /\ \A t \in Threads : task.honored \/ t # task.thread => thread'[t] = thread[t]
  BY <1>1, <1>2, HonorEffect
<1>4. running = NoTask /\ running' = NoTask
  BY DEF Answered
<1>5. ASSUME NEW i \in DOMAIN queue', ~queue'[i].honored
      PROVE  Owed(queue[i])' /\ (task.honored \/ queue'[i].thread # task.thread)
  <2>1. i + 1 \in DOMAIN queue /\ queue'[i] = queue[i + 1] /\ i + 1 # 1
    BY <1>2
  <2>2. ASSUME ~task.honored, queue'[i].thread = task.thread PROVE FALSE
    <3>1. i + 1 = 1
      BY <1>2, <1>5, <2>1, <2>2
    <3> QED BY <2>1, <3>1
  <2>3. queue'[i].thread \in Threads
    BY <1>2, <2>1 DEF Task
  <2> QED BY <1>3, <1>5, <2>1, <2>2, <2>3 DEF Owed
<1>6. ASSUME NEW i \in DOMAIN queue', NEW j \in DOMAIN queue',
             ~queue'[i].honored, ~queue'[j].honored, queue'[i].thread = queue'[j].thread
      PROVE  i = j
  <2>1. i + 1 = j + 1
    BY <1>2, <1>6
  <2> QED BY <1>2, <2>1
<1>7. ASSUME NEW t \in Threads, thread'[t].pc = "wait"
      PROVE  \E i \in DOMAIN queue' : ~queue'[i].honored /\ queue'[i].thread = t
  <2>1. thread'[t] = thread[t] /\ (task.honored \/ t # task.thread)
    BY <1>3, <1>7 DEF Returning
  <2>2. PICK i \in DOMAIN queue : ~queue[i].honored /\ queue[i].thread = t
    BY <1>4, <1>7, <2>1
  <2>3. i # 1
    BY <1>2, <2>1, <2>2
  <2> QED BY <1>2, <2>2, <2>3
<1>8. \A i \in DOMAIN queue' : queue'[i].honored \/ queue'[i].timed => queue'[i].op = "exec"
  BY <1>2
<1>9. stopping' # "no" => Quiescent'
  <2>1. CASE stopping # "no"
    <3>1. ASSUME ~task.honored PROVE FALSE
      <4>1. Owed(task) /\ task.thread \in Threads
        BY <1>2, <3>1 DEF Task
      <4>2. thread[task.thread].pc = "wait"
        BY <4>1 DEF Owed, Waiting
      <4> QED BY <2>1, <4>1, <4>2 DEF Quiescent, Away
    <3> QED BY <1>3, <2>1, <3>1 DEF Quiescent
  <2> QED BY <2>1
<1>10. ios'
  BY DEF Answered
<1> QED BY <1>4, <1>5, <1>6, <1>7, <1>8, <1>9, <1>10

\* A do_execute that is taken from the queue takes its promise along.
LEMMA PromisesBegun ==
    ASSUME TypeOK, Promises, Begun, UNCHANGED <<stopping, ios>>
    PROVE  Promises'
<1> USE DEF Promises
<1> DEFINE task == Head(queue)
<1>1. /\ 1 \in DOMAIN queue /\ task = queue[1] /\ task \in Task
      /\ \A i \in DOMAIN queue : i \in Nat /\ i >= 1 /\ queue[i] \in Task
      /\ \A i \in DOMAIN queue' :
            i \in Nat /\ i >= 1 /\ i + 1 \in DOMAIN queue /\ queue'[i] = queue[i + 1]
      /\ \A i \in DOMAIN queue : i = 1 \/ (i - 1 \in DOMAIN queue' /\ queue'[i - 1] = queue[i])
  BY TailEffect DEF Begun
<1>2. /\ thread' = thread /\ running = NoTask /\ running' # NoTask /\ running'.task = task
  BY DEF Begun
<1> HIDE DEF task
<1>3. ASSUME NEW i \in DOMAIN queue', ~queue'[i].honored
      PROVE  Owed(queue[i])' /\ (task.honored \/ queue'[i].thread # task.thread)
  <2>1. i + 1 \in DOMAIN queue /\ queue'[i] = queue[i + 1] /\ i + 1 # 1
    BY <1>1
  <2>2. ASSUME ~task.honored, queue'[i].thread = task.thread PROVE FALSE
    <3>1. i + 1 = 1
      BY <1>1, <1>3, <2>1, <2>2
    <3> QED BY <2>1, <3>1
  <2> QED BY <1>2, <1>3, <2>1, <2>2 DEF Owed
<1>4. ASSUME NEW i \in DOMAIN queue', NEW j \in DOMAIN queue',
             ~queue'[i].honored, ~queue'[j].honored, queue'[i].thread = queue'[j].thread
      PROVE  i = j
  <2>1. i + 1 = j + 1
    BY <1>1, <1>4
  <2> QED BY <1>1, <2>1
<1>5. ~task.honored => Owed(running.task)'
  BY <1>1, <1>2 DEF Owed
<1>6. ASSUME NEW t \in Threads, thread'[t].pc = "wait"
      PROVE  \/ \E i \in DOMAIN queue' : ~queue'[i].honored /\ queue'[i].thread = t
             \/ ~task.honored /\ task.thread = t
  <2>1. PICK i \in DOMAIN queue : ~queue[i].honored /\ queue[i].thread = t
    BY <1>2, <1>6
  <2> QED BY <1>1, <2>1
<1>7. \A i \in DOMAIN queue' : queue'[i].honored \/ queue'[i].timed => queue'[i].op = "exec"
  BY <1>1
<1>8. ios' /\ (stopping' # "no" => Quiescent')
  BY <1>2 DEF Begun, Quiescent
<1> QED BY <1>2, <1>3, <1>4, <1>5, <1>6, <1>7, <1>8

\* A do_execute that ends honors its promise, if the timeout has not.
LEMMA PromisesFinished ==
    ASSUME TypeOK, Promises, Finished, UNCHANGED <<stopping, ios>>
    PROVE  Promises'
<1> USE DEF Promises
<1> DEFINE task == running.task
<1>1. PICK h, e : honor(task, h, e)
  BY DEF Finished
<1>2. running # NoTask /\ running' = NoTask /\ queue' = queue /\ task \in Task
  BY DEF Finished, TypeOK
<1> HIDE DEF task
<1>3. /\ ~task.honored => thread'[task.thread] = Returning(task.op, h, e)
      /\ \A t \in Threads : task.honored \/ t # task.thread => thread'[t] = thread[t]
  BY <1>1, <1>2, HonorEffect
<1>4. \A i \in DOMAIN queue : queue[i].thread \in Threads
  BY QueueThreads
<1>5. ~task.honored => /\ Owed(task)
                       /\ \A i \in DOMAIN queue : ~queue[i].honored => queue[i].thread # task.thread
  BY <1>2 DEF task
<1>6. ASSUME NEW i \in DOMAIN queue', ~queue'[i].honored PROVE Owed(queue[i])'
  <2>1. thread'[queue[i].thread] = thread[queue[i].thread]
    BY <1>2, <1>3, <1>4, <1>5, <1>6
  <2> QED BY <1>2, <1>6, <2>1 DEF Owed
<1>7. ASSUME NEW t \in Threads, thread'[t].pc = "wait"
      PROVE  \E i \in DOMAIN queue' : ~queue'[i].honored /\ queue'[i].thread = t
  <2>1. thread'[t] = thread[t] /\ (task.honored \/ t # task.thread)
    BY <1>3, <1>7 DEF Returning
  <2> QED BY <1>2, <1>7, <2>1 DEF task
<1>8. stopping' # "no" => Quiescent'
  <2>1. CASE stopping # "no"
    <3>1. ASSUME ~task.honored PROVE FALSE
      <4>1. Owed(task) /\ task.thread \in Threads
        BY <1>2, <1>5, <3>1 DEF Task
      <4>2. thread[task.thread].pc = "wait"
        BY <4>1 DEF Owed, Waiting
      <4> QED BY <2>1, <4>1, <4>2 DEF Quiescent, Away
    <3> QED BY <1>3, <2>1, <3>1 DEF Quiescent
  <2> QED BY <2>1
<1> QED BY <1>2, <1>6, <1>7, <1>8

\* A timeout honors the promise of a handler that stays in the queue.
LEMMA PromisesTimeout ==
    ASSUME TypeOK, Promises, NEW k \in DOMAIN queue, Timeout(k)
    PROVE  Promises'
<1> USE DEF Promises
<1> DEFINE task == queue[k]
<1>1. task \in Task /\ ~task.honored /\ task.timed /\ honor(task, task.h, "Timeout")
  BY DEF Timeout, TypeOK
<1>2. /\ running = NoTask /\ running' = NoTask /\ ios /\ ios' /\ stopping' = stopping
  BY DEF Timeout, entranceVars, stopVars
<1>3. /\ DOMAIN queue' = DOMAIN queue
      /\ queue'[k].honored /\ queue'[k].op = task.op
      /\ \A i \in DOMAIN queue : i # k => queue'[i] = queue[i]
      /\ \A i \in DOMAIN queue : queue[i].thread \in Threads
  <2>1. queue' = [queue EXCEPT ![k] = [task EXCEPT !.honored = TRUE]]
    BY DEF Timeout
  <2>2. DOMAIN queue' = DOMAIN queue /\ queue'[k] = [task EXCEPT !.honored = TRUE]
    BY <2>1
  <2>3. queue'[k].honored /\ queue'[k].op = task.op
    BY <1>1, <2>2 DEF Task
  <2> QED BY <2>1, <2>2, <2>3, QueueThreads
<1>4. /\ thread'[task.thread] = Returning(task.op, task.h, "Timeout")
      /\ \A t \in Threads : t # task.thread => thread'[t] = thread[t]
  BY <1>1, HonorEffect
<1>5. task.op = "exec"
  BY <1>1
<1>6. Owed(task) /\ task.thread \in Threads
  BY <1>1 DEF Task
<1> HIDE DEF task
<1>7. ASSUME NEW i \in DOMAIN queue', ~queue'[i].honored
      PROVE  i # k /\ queue'[i] = queue[i] /\ queue[i].thread # task.thread
  BY <1>1, <1>3, <1>7 DEF task
<1>8. \A i \in DOMAIN queue' : ~queue'[i].honored => Owed(queue[i])'
  BY <1>3, <1>4, <1>7 DEF Owed
<1>9. ASSUME NEW i \in DOMAIN queue', NEW j \in DOMAIN queue',
             ~queue'[i].honored, ~queue'[j].honored, queue'[i].thread = queue'[j].thread
      PROVE  i = j
  <2>1. /\ i \in DOMAIN queue /\ queue'[i] = queue[i]
        /\ j \in DOMAIN queue /\ queue'[j] = queue[j]
    BY <1>3, <1>7, <1>9
  <2> QED BY <1>9, <2>1
<1>10. ASSUME NEW t \in Threads, thread'[t].pc = "wait"
       PROVE  \E i \in DOMAIN queue' : ~queue'[i].honored /\ queue'[i].thread = t
  <2>1. t # task.thread /\ thread'[t] = thread[t]
    BY <1>4, <1>10 DEF Returning
  <2>2. PICK i \in DOMAIN queue : ~queue[i].honored /\ queue[i].thread = t
    BY <1>2, <1>10, <2>1
  <2>3. i # k
    BY <2>1, <2>2 DEF task
  <2> QED BY <1>3, <2>2, <2>3
<1>11. \A i \in DOMAIN queue' : queue'[i].honored \/ queue'[i].timed => queue'[i].op = "exec"
  BY <1>3, <1>5
<1>12. stopping' = "no"
  <2>1. thread[task.thread].pc = "wait"
    BY <1>6 DEF Owed, Waiting
  <2> QED BY <1>2, <1>6, <2>1 DEF Quiescent, Away
<1> QED BY <1>2, <1>8, <1>9, <1>10, <1>11, <1>12

\* A thread that returns, or is refused, waits neither before nor after.
LEMMA PromisesAside ==
    ASSUME TypeOK, Promises, NEW t \in Threads, NEW x, thread[t].pc # "wait", x.pc # "wait",
           thread' = [thread EXCEPT ![t] = x], stopping # "no" => x = Away,
           UNCHANGED <<queue, running, stopping, ios>>
    PROVE  Promises'
<1> USE DEF Promises
<1>1. thread'[t] = x /\ \A u \in Threads : u # t => thread'[u] = thread[u]
  BY DEF TypeOK
<1>2. ASSUME NEW task \in Task, Owed(task) PROVE thread'[task.thread] = Waiting(task.op, task.h)
  <2>1. thread[task.thread].pc = "wait" /\ task.thread \in Threads
    BY <1>2 DEF Owed, Waiting, Task
  <2> QED BY <1>1, <1>2, <2>1 DEF Owed
<1>3. ASSUME NEW i \in DOMAIN queue', ~queue'[i].honored PROVE Owed(queue[i])'
  <2>1. queue[i] \in Task /\ Owed(queue[i])
    BY <1>3 DEF TypeOK
  <2> QED BY <1>2, <2>1 DEF Owed
<1>4. ASSUME running' # NoTask, ~running'.task.honored PROVE Owed(running.task)'
  <2>1. running.task \in Task /\ Owed(running.task)
    BY <1>4 DEF TypeOK
  <2> QED BY <1>2, <2>1 DEF Owed
<1>5. \A u \in Threads : thread'[u].pc = "wait" => thread[u].pc = "wait"
  BY <1>1
<1>6. stopping # "no" => Quiescent'
  BY <1>1 DEF Quiescent
<1> QED BY <1>3, <1>4, <1>5, <1>6

\* Every step keeps Promises.
LEMMA PromisesStep ==
    ASSUME TypeOK, Phases, Promises, [Next]_vars
    PROVE  Promises'
<1>1. CASE Lifecycle
  BY <1>1, PromisesLifecycle
<1>2. ASSUME NEW t \in Threads, Call(t) PROVE Promises'
  <2>1. CASE CallRefused(t)
    <3>1. PICK e : thread' = [thread EXCEPT ![t] = Returning("none", NoHandle, e)]
      BY <2>1 DEF CallRefused
    <3>2. thread[t].pc # "wait" /\ Returning("none", NoHandle, e).pc # "wait" /\ stopping = "no"
      BY <2>1 DEF CallRefused, MayCall, Away, Returning
    <3> QED BY <2>1, <3>1, <3>2, PromisesAside DEF CallRefused, entranceVars, stopVars
  <2>2. CASE \E task : Posted(t, task)
    BY <1>2, <2>2, CallShape, PromisesPost DEF Posted
  <2> QED BY <1>2, <2>1, <2>2, CallShape
<1>3. ASSUME NEW t \in Threads, Return(t) PROVE Promises'
  BY <1>3, PromisesAside DEF Return, Away, entranceVars, stopVars
<1>4. CASE IoThread
  <2>1. UNCHANGED <<stopping, ios>>
    BY <1>4, HandlerShape
  <2>2. CASE Continued
    BY <2>1, <2>2 DEF Continued, Promises, Owed, Quiescent
  <2> QED BY <1>4, <2>1, <2>2, HandlerShape, PromisesAnswered, PromisesBegun, PromisesFinished
<1>5. ASSUME NEW i \in DOMAIN queue, Timeout(i) PROVE Promises'
  BY <1>5, PromisesTimeout
<1>6. CASE UNCHANGED vars
  BY <1>6 DEF vars, Promises, Owed, Quiescent
<1> QED BY <1>1, <1>2, <1>3, <1>4, <1>5, <1>6 DEF Next

\* Promises holds throughout.
LEMMA PromisesInvariant == Spec => []Promises
<1>1. TypeOK /\ Phases /\ Promises /\ [Next]_vars => Promises'
  BY PromisesStep
<1> QED BY <1>1, PromisesInit, TypeCorrect, PoolInvariant, PTL DEF Spec

\* Promises counted: a thread that waits has one pending promise, another
\* one none.
LEMMA PromisesCounted == TypeOK /\ Promises => WaiterHasTask
<1> SUFFICES ASSUME TypeOK, Promises, NEW t \in Threads
             PROVE  Cardinality(Pending(t)) = IF thread[t].pc = "wait" THEN 1 ELSE 0
  BY DEF WaiterHasTask
<1> DEFINE InQueue == {i \in DOMAIN queue : queue[i].thread = t /\ ~queue[i].honored}
           UnderWay == running # NoTask /\ running.task.thread = t /\ ~running.task.honored
<1>1. Pending(t) = InQueue \cup (IF UnderWay THEN {0} ELSE {})
  BY DEF Pending
<1>2. InQueue # {} \/ UnderWay => thread[t].pc = "wait"
  <2>1. ASSUME NEW i \in InQueue PROVE thread[t].pc = "wait"
    <3>1. Owed(queue[i])
      BY <2>1 DEF Promises
    <3> QED BY <3>1 DEF Owed, Waiting
  <2>2. ASSUME UnderWay PROVE thread[t].pc = "wait"
    <3>1. Owed(running.task)
      BY <2>2 DEF Promises
    <3> QED BY <2>2, <3>1 DEF Owed, Waiting
  <2> QED BY <2>1, <2>2
<1>3. \A i, j \in InQueue : i = j
  BY DEF Promises
<1>4. UnderWay => InQueue = {}
  BY DEF Promises
<1>5. thread[t].pc = "wait" => InQueue # {} \/ UnderWay
  BY DEF Promises
<1> HIDE DEF InQueue, UnderWay
<1>6. CASE thread[t].pc = "wait"
  <2>1. \E x : Pending(t) = {x}
    BY <1>1, <1>3, <1>4, <1>5, <1>6
  <2> QED BY <1>6, <2>1, FS_Singleton
<1>7. CASE thread[t].pc # "wait"
  <2>1. Pending(t) = {}
    BY <1>1, <1>2, <1>7
  <2> QED BY <1>7, <2>1, FS_EmptySet
<1> QED BY <1>6, <1>7

\* Whatever the order of posts, timeouts, handlers and restarts: a blocked
\* caller's promise is in exactly one place, posted or under way, and no
\* other thread has one; in particular stopping the io_service drops no
\* handler somebody waits for.
THEOREM WaitersServed == Spec => []WaiterHasTask
BY PromisesInvariant, TypeCorrect, PromisesCounted, PTL

-----------------------------------------------------------------------------
(* Every session has one claimant.                                         *)

\* The three claims of NoSessionLeak, apart.
Owns(t, h) == h \in own[t]
Learns(t, h) == thread[t] = Returning("open", h, "Success")
Closes(i, h) == queue[i].op = "close" /\ queue[i].h = h

Claimed(h) ==
    \/ \E t \in Threads : Owns(t, h) \/ Learns(t, h)
    \/ \E i \in DOMAIN queue : Closes(i, h)

\* No two claims on h.
Exclusive(h) ==
    /\ \A t, u \in Threads : Owns(t, h) /\ Owns(u, h) => t = u
    /\ \A t, u \in Threads : Learns(t, h) /\ Learns(u, h) => t = u
    /\ \A i, j \in DOMAIN queue : Closes(i, h) /\ Closes(j, h) => i = j
    /\ \A t, u \in Threads : ~(Owns(t, h) /\ Learns(u, h))
    /\ \A t \in Threads, i \in DOMAIN queue : ~(Owns(t, h) /\ Closes(i, h)) /\ ~(Learns(t, h) /\ Closes(i, h))

\* The inductive form of NoSessionLeak, which force_stop does not disturb
\* before it drops the manager; an entrance that is down has no owners left.
Ownership ==
    /\ manager => \A h \in Handles : Exclusive(h) /\ (h \in busy_sessions <=> Claimed(h))
    /\ stopping = "no" /\ ~manager =>
          \A t \in Threads : own[t] = {} /\ \A h \in Handles : ~Learns(t, h)
    /\ ~manager => busy_sessions = {}

\* The inductive form of LateExecuteStaysInSession: no close of its session
\* is ahead of a command in the queue.
Bound ==
    Serving =>
        /\ \A i \in DOMAIN queue :
              /\ Meant(queue[i])
              /\ queue[i].op = "exec" /\ queue[i].sid # NoSid =>
                    \A j \in 1 .. i - 1 : ~Closes(j, queue[i].h)
        /\ running # NoTask => Meant(running.task)

\* Honoring a promise teaches a thread of no session, unless it is that of
\* an open that succeeded.
LEMMA LearnsKept ==
    ASSUME TypeOK, NEW task \in Task, NEW h, NEW e, honor(task, h, e),
           ~task.honored => Owed(task), task.op # "open" \/ e # "Success"
    PROVE  \A t \in Threads, g \in Handles : Learns(t, g)' <=> Learns(t, g)
<1> SUFFICES ASSUME NEW t \in Threads, NEW g \in Handles PROVE Learns(t, g)' <=> Learns(t, g)
  OBVIOUS
<1>1. CASE task.honored \/ t # task.thread
  BY <1>1, HonorEffect DEF Learns
<1>2. CASE ~task.honored /\ t = task.thread
  <2>1. thread[t] = Waiting(task.op, task.h)
    BY <1>2 DEF Owed
  <2>2. thread'[t] = Returning(task.op, h, e)
    BY <1>2, HonorEffect
  <2> QED BY <2>1, <2>2 DEF Learns, Waiting, Returning
<1> QED BY <1>1, <1>2

\* The closes that are posted, when the oldest handler is taken.
LEMMA ClosesTail ==
    ASSUME TypeOK, queue # <<>>, queue' = Tail(queue), NEW h
    PROVE  /\ 1 \in DOMAIN queue /\ (Closes(1, h) <=> Head(queue).op = "close" /\ Head(queue).h = h)
           /\ (\E i \in DOMAIN queue' : Closes(i, h)') <=> (\E i \in DOMAIN queue : i # 1 /\ Closes(i, h))
           /\ (\A i, j \in DOMAIN queue : Closes(i, h) /\ Closes(j, h) => i = j)
                 => (\A i, j \in DOMAIN queue' : Closes(i, h)' /\ Closes(j, h)' => i = j)
<1>1. /\ 1 \in DOMAIN queue /\ Head(queue) = queue[1]
      /\ \A i \in DOMAIN queue : i \in Nat
      /\ \A i \in DOMAIN queue' :
            i \in Nat /\ i >= 1 /\ i + 1 \in DOMAIN queue /\ queue'[i] = queue[i + 1]
      /\ \A i \in DOMAIN queue : i = 1 \/ (i - 1 \in DOMAIN queue' /\ queue'[i - 1] = queue[i])
  BY TailEffect
<1>2. \A i \in DOMAIN queue' : Closes(i, h)' <=> Closes(i + 1, h)
  BY <1>1 DEF Closes
<1>3. \A i \in DOMAIN queue : Closes(i, h) => i = 1 \/ (i - 1 \in DOMAIN queue' /\ Closes(i - 1, h)')
  BY <1>1 DEF Closes
<1>4. ASSUME NEW i \in DOMAIN queue' PROVE i + 1 # 1 /\ i + 1 \in DOMAIN queue
  BY <1>1
<1>5. (\E i \in DOMAIN queue' : Closes(i, h)') <=> (\E i \in DOMAIN queue : i # 1 /\ Closes(i, h))
  BY <1>2, <1>3, <1>4
<1>6. ASSUME \A i, j \in DOMAIN queue : Closes(i, h) /\ Closes(j, h) => i = j,
             NEW i \in DOMAIN queue', NEW j \in DOMAIN queue', Closes(i, h)', Closes(j, h)'
      PROVE  i = j
  <2>1. i + 1 = j + 1
    BY <1>2, <1>4, <1>6
  <2> QED BY <1>1, <2>1
<1>7. Closes(1, h) <=> Head(queue).op = "close" /\ Head(queue).h = h
  BY <1>1 DEF Closes
<1> QED BY <1>1, <1>5, <1>6, <1>7

\* While no close is taken or posted and nobody learns of a session, the
\* claims stay as they are.
LEMMA OwnershipKept ==
    ASSUME TypeOK, Ownership, UNCHANGED <<own, busy_sessions, manager>>,
           stopping' = "no" => stopping = "no",
           \A t \in Threads, g \in Handles : Learns(t, g)' <=> Learns(t, g),
           \/ /\ DOMAIN queue' = DOMAIN queue
              /\ \A i \in DOMAIN queue : queue'[i].op = queue[i].op /\ queue'[i].h = queue[i].h
           \/ queue # <<>> /\ queue' = Tail(queue) /\ Head(queue).op # "close"
    PROVE  Ownership'
<1>1. ASSUME manager, NEW h \in Handles
      PROVE  Exclusive(h)' /\ (h \in busy_sessions' <=> Claimed(h)')
  <2>1. Exclusive(h) /\ (h \in busy_sessions <=> Claimed(h))
    BY <1>1 DEF Ownership
  <2>2. \A t \in Threads : (Owns(t, h)' <=> Owns(t, h)) /\ (Learns(t, h)' <=> Learns(t, h))
    BY DEF Owns
  <2>3. /\ (\E i \in DOMAIN queue' : Closes(i, h)') <=> (\E i \in DOMAIN queue : Closes(i, h))
        /\ \A i, j \in DOMAIN queue' : Closes(i, h)' /\ Closes(j, h)' => i = j
    <3>1. CASE /\ DOMAIN queue' = DOMAIN queue
               /\ \A i \in DOMAIN queue : queue'[i].op = queue[i].op /\ queue'[i].h = queue[i].h
      BY <2>1, <3>1 DEF Closes, Exclusive
    <3>2. CASE queue # <<>> /\ queue' = Tail(queue) /\ Head(queue).op # "close"
      BY <2>1, <3>2, ClosesTail DEF Exclusive
    <3> QED BY <3>1, <3>2
  <2>4. Claimed(h)' <=> Claimed(h)
    BY <2>2, <2>3 DEF Claimed
  <2>5. Exclusive(h)'
    BY <2>1, <2>2, <2>3 DEF Exclusive
  <2> QED BY <2>1, <2>4, <2>5
<1>2. ASSUME stopping = "no", ~manager, NEW t \in Threads
      PROVE  own'[t] = {} /\ \A h \in Handles : ~Learns(t, h)'
  BY <1>2 DEF Ownership
<1>3. ~manager => busy_sessions = {}
  BY DEF Ownership
<1> QED BY <1>1, <1>2, <1>3 DEF Ownership

\* A close moves a claim from its thread to the queue; another call leaves
\* the claims alone.
LEMMA OwnershipPost ==
    ASSUME TypeOK, Ownership, NEW t \in Threads, thread[t] = Away, NEW task, Posted(t, task),
           UNCHANGED <<busy_sessions, manager, stopping>>
    PROVE  Ownership'
<1>1. task \in Task /\ Post(task) /\ task.thread = t
  BY DEF Posted
<1>2. PICK n :
      /\ DOMAIN queue' = DOMAIN queue \cup {n} /\ n \notin DOMAIN queue
      /\ \A i \in DOMAIN queue : queue'[i] = queue[i]
      /\ queue'[n] = task
      /\ thread'[t] = Waiting(task.op, task.h)
      /\ \A u \in Threads : u # t => thread'[u] = thread[u]
  BY <1>1, PostEffect
<1>0. ASSUME NEW u \in Threads, NEW h PROVE Learns(u, h)' <=> Learns(u, h)
  <2>1. CASE u = t
    BY <1>2, <2>1 DEF Learns, Away, Waiting, Returning
  <2>2. CASE u # t
    BY <1>2, <2>2 DEF Learns
  <2> QED BY <2>1, <2>2
<1>3. ASSUME stopping = "no", ~manager, NEW u \in Threads
      PROVE  own'[u] = {} /\ \A h \in Handles : ~Learns(u, h)'
  <2>1. own[u] = {} /\ \A h \in Handles : ~Learns(u, h)
    BY <1>3 DEF Ownership
  <2>2. own'[u] = {}
    BY <2>1 DEF Posted, TypeOK
  <2>3. \A h \in Handles : ~Learns(u, h)'
    BY <1>0, <2>1
  <2> QED BY <2>2, <2>3
<1>4. ASSUME manager, NEW h \in Handles
      PROVE  Exclusive(h)' /\ (h \in busy_sessions' <=> Claimed(h)')
  <2>1. Exclusive(h) /\ (h \in busy_sessions <=> Claimed(h))
    BY <1>4 DEF Ownership
  <2>2. \A u \in Threads : Learns(u, h)' <=> Learns(u, h)
    BY <1>0
  <2>3. \A i \in DOMAIN queue : Closes(i, h)' <=> Closes(i, h)
    BY <1>2 DEF Closes
  <2>4. CASE task.op = "close" /\ task.h = h
    <3>1. Owns(t, h)
      BY <2>4, HandleAssumption DEF Posted, Owns
    <3>2. \A u \in Threads : ~Owns(u, h)'
      <4>1. own' = [own EXCEPT ![t] = @ \ {h}]
        BY <2>4 DEF Posted
      <4>2. \A u \in Threads : Owns(u, h) => u = t
        BY <2>1, <3>1 DEF Exclusive
      <4> QED BY <4>1, <4>2 DEF Owns, TypeOK
    <3>3. \A u \in Threads : ~Learns(u, h)
      BY <2>1, <3>1 DEF Exclusive
    <3>4. \A i \in DOMAIN queue : ~Closes(i, h)
      BY <2>1, <3>1 DEF Exclusive
    <3>5. Closes(n, h)'
      BY <1>2, <2>4 DEF Closes
    <3>6. Claimed(h) /\ Claimed(h)'
      BY <1>2, <3>1, <3>5 DEF Claimed
    <3> QED BY <1>2, <2>1, <2>2, <2>3, <3>2, <3>3, <3>4, <3>6 DEF Exclusive
  <2>5. CASE ~(task.op = "close" /\ task.h = h)
    <3>1. \A u \in Threads : Owns(u, h)' <=> Owns(u, h)
      BY <2>5 DEF Posted, Owns, TypeOK
    <3>2. ~Closes(n, h)'
      BY <1>2, <2>5 DEF Closes
    <3> QED BY <1>2, <2>1, <2>2, <2>3, <3>1, <3>2 DEF Exclusive, Claimed
  <2> QED BY <2>4, <2>5
<1> QED BY <1>3, <1>4 DEF Ownership

\* A thread that returns from open owns what it has learned of.
LEMMA OwnershipReturn ==
    ASSUME TypeOK, TypeOK', Ownership, NEW t \in Threads, Return(t)
    PROVE  Ownership'
<1>1. /\ thread'[t] = Away /\ \A u \in Threads : u # t => thread'[u] = thread[u]
      /\ UNCHANGED <<queue, busy_sessions, manager, stopping>>
  BY DEF Return, TypeOK, poolVars, entranceVars, stopVars
<1>2. ASSUME NEW h \in Handles
      PROVE  Learns(t, h) <=> thread[t].op = "open" /\ thread[t].ec = "Success" /\ thread[t].h = h
  <2>1. thread[t] \in Thread /\ thread[t].pc = "ret"
    BY DEF Return, TypeOK
  <2> QED BY <2>1 DEF Learns, Returning, Thread
<1>3. ASSUME NEW h \in Handles, NEW u \in Threads
      PROVE  /\ Learns(u, h)' <=> Learns(u, h) /\ u # t
             /\ Owns(u, h)' <=> Owns(u, h) \/ (u = t /\ Learns(t, h))
  <2>1. Learns(u, h)' <=> Learns(u, h) /\ u # t
    BY <1>1 DEF Learns, Away, Returning
  <2>2. Owns(u, h)' <=> Owns(u, h) \/ (u = t /\ Learns(t, h))
    BY <1>2 DEF Owns, Return, TypeOK
  <2> QED BY <2>1, <2>2
<1>4. ASSUME NEW h \in Handles, manager
      PROVE  Exclusive(h)' /\ (h \in busy_sessions' <=> Claimed(h)')
  <2>1. Exclusive(h) /\ (h \in busy_sessions <=> Claimed(h))
    BY <1>4 DEF Ownership
  <2>2. \A i : Closes(i, h)' <=> Closes(i, h)
    BY <1>1 DEF Closes
  <2>3. Exclusive(h)'
    BY <1>1, <1>3, <2>1, <2>2 DEF Exclusive
  <2>4. Claimed(h)' <=> Claimed(h)
    BY <1>1, <1>3, <2>2 DEF Claimed
  <2> QED BY <1>1, <2>1, <2>3, <2>4
<1>5. ASSUME stopping = "no", ~manager, NEW u \in Threads
      PROVE  own'[u] = {} /\ \A h \in Handles : ~Learns(u, h)'
  <2>1. own[u] = {} /\ \A h \in Handles : ~Learns(u, h) /\ ~Learns(t, h)
    BY <1>5 DEF Ownership
  <2>2. \A h \in Handles : ~Owns(u, h)' /\ ~Learns(u, h)'
    BY <1>3, <2>1 DEF Owns
  <2> QED BY <2>2 DEF Owns, TypeOK
<1> QED BY <1>1, <1>4, <1>5 DEF Ownership

\* A handler that is no do_execute still has its caller waiting, so that the
\* entrance serves.
LEMMA HeadWaits ==
    ASSUME TypeOK, Phases, Promises, ios, queue # <<>>, Head(queue).op # "exec"
    PROVE  /\ Head(queue) \in Task /\ ~Head(queue).honored
           /\ thread[Head(queue).thread] = Waiting(Head(queue).op, Head(queue).h)
           /\ Serving /\ entrance_check = "Success"
<1> DEFINE task == Head(queue)
<1>1. 1 \in DOMAIN queue /\ task = queue[1] /\ task \in Task
  BY DEF TypeOK
<1>2. ~task.honored /\ Owed(task)
  BY <1>1 DEF Promises
<1>3. stopping = "no"
  <2>1. thread[task.thread].pc = "wait" /\ task.thread \in Threads
    BY <1>1, <1>2 DEF Owed, Waiting, Task
  <2> QED BY <2>1 DEF Promises, Quiescent, Away
<1>4. current_state = "Ready" /\ manager
  BY <1>3 DEF Phases
<1>5. entrance_check = "Success"
  BY <1>4 DEF entrance_check, refused, svc_table, SvcState, SvcInput, kInvalidSimpleState
<1> QED BY <1>1, <1>2, <1>3, <1>4, <1>5 DEF Owed, Serving

\* A session that is opened was claimed by nobody, and is by the thread that
\* waits for it.
LEMMA OwnershipOpen ==
    ASSUME TypeOK, Phases, PoolConsistent, Promises, Ownership, do_open_session
    PROVE  Ownership'
<1> DEFINE task == Head(queue)
<1>1. /\ ios /\ queue # <<>> /\ queue' = Tail(queue) /\ task.op = "open"
      /\ UNCHANGED <<own, manager, stopping>>
  BY DEF do_open_session, Starts, HandlerFrame, stopVars
<1>2. /\ task \in Task /\ ~task.honored /\ thread[task.thread] = Waiting(task.op, task.h)
      /\ Serving
  BY <1>1, HeadWaits
<1>3. PICK g \in idle_sessions : /\ busy_sessions' = busy_sessions \cup {g}
                                 /\ honor(task, g, "Success")
  BY DEF do_open_session, open_idle_session
<1>4. g \in Handles /\ g \notin busy_sessions
  BY <1>2, <1>3 DEF TypeOK, PoolConsistent
<1>5. /\ thread'[task.thread] = Returning("open", g, "Success")
      /\ \A u \in Threads : u # task.thread => thread'[u] = thread[u]
  BY <1>1, <1>2, <1>3, HonorEffect
<1>6. task.thread \in Threads
  BY <1>2 DEF Task
<1>7. \A h : /\ (\E i \in DOMAIN queue' : Closes(i, h)') <=> (\E i \in DOMAIN queue : Closes(i, h))
             /\ (\A i, j \in DOMAIN queue : Closes(i, h) /\ Closes(j, h) => i = j)
                   => (\A i, j \in DOMAIN queue' : Closes(i, h)' /\ Closes(j, h)' => i = j)
  BY <1>1, ClosesTail
<1>8. PICK w : w = task.thread
  OBVIOUS
<1> HIDE DEF task
<1>9. ASSUME NEW h \in Handles, NEW u \in Threads
      PROVE  /\ Owns(u, h)' <=> Owns(u, h)
             /\ Learns(u, h)' <=> Learns(u, h) \/ (u = w /\ h = g)
  <2>1. CASE u = w
    <3>1. ~Learns(u, h)
      BY <1>2, <1>8, <2>1 DEF Learns, Waiting, Returning
    <3>2. Learns(u, h)' <=> h = g
      BY <1>5, <1>8, <2>1 DEF Learns, Returning
    <3> QED BY <1>1, <2>1, <3>1, <3>2 DEF Owns
  <2>2. CASE u # w
    BY <1>1, <1>5, <1>8, <2>2 DEF Learns, Owns
  <2> QED BY <2>1, <2>2
<1>10. ASSUME NEW h \in Handles
       PROVE  Exclusive(h)' /\ (h \in busy_sessions' <=> Claimed(h)')
  <2>1. Exclusive(h) /\ (h \in busy_sessions <=> Claimed(h))
    BY <1>2 DEF Ownership, Serving
  <2>2. CASE h = g
    <3>1. ~Claimed(h)
      BY <1>4, <2>1, <2>2
    <3>2. /\ \A u \in Threads : ~Owns(u, h)'
          /\ \A u \in Threads : Learns(u, h)' <=> u = w
          /\ \A i \in DOMAIN queue' : ~Closes(i, h)'
      BY <1>7, <1>9, <2>2, <3>1 DEF Claimed
    <3>3. Exclusive(h)'
      BY <3>2 DEF Exclusive
    <3>4. Claimed(h)'
      BY <1>6, <1>8, <3>2 DEF Claimed
    <3> QED BY <1>3, <2>2, <3>3, <3>4
  <2>3. CASE h # g
    <3>1. \A u \in Threads : (Owns(u, h)' <=> Owns(u, h)) /\ (Learns(u, h)' <=> Learns(u, h))
      BY <1>9, <2>3
    <3>2. Exclusive(h)'
      BY <1>7, <2>1, <3>1 DEF Exclusive
    <3>3. Claimed(h)' <=> Claimed(h)
      BY <1>7, <3>1 DEF Claimed
    <3> QED BY <1>3, <2>1, <2>3, <3>2, <3>3
  <2> QED BY <2>2, <2>3
<1> QED BY <1>1, <1>2, <1>10 DEF Ownership, Serving

\* A close that is taken was the one claim on its session, which is busy no
\* longer.
LEMMA OwnershipClose ==
    ASSUME TypeOK, Phases, Promises, Ownership, do_close_session
    PROVE  Ownership'
<1> DEFINE task == Head(queue)
<1>1. /\ ios /\ queue # <<>> /\ queue' = Tail(queue) /\ task.op = "close"
      /\ UNCHANGED <<own, manager, stopping>>
      /\ \E e : honor(task, task.h, e)
  BY DEF do_close_session, Starts, HandlerFrame, stopVars
<1>2. /\ task \in Task /\ ~task.honored /\ Owed(task)
      /\ Serving /\ entrance_check = "Success"
  BY <1>1, HeadWaits DEF Owed
<1>3. busy_sessions' = busy_sessions \ {task.h}
  BY <1>2 DEF do_close_session, close_busy_session, poolVars
<1>4. \A t \in Threads, h \in Handles : Learns(t, h)' <=> Learns(t, h)
  BY <1>1, <1>2, LearnsKept
<1>5. \A h : /\ 1 \in DOMAIN queue /\ (Closes(1, h) <=> task.h = h)
             /\ (\E i \in DOMAIN queue' : Closes(i, h)') <=> (\E i \in DOMAIN queue : i # 1 /\ Closes(i, h))
             /\ (\A i, j \in DOMAIN queue : Closes(i, h) /\ Closes(j, h) => i = j)
                   => (\A i, j \in DOMAIN queue' : Closes(i, h)' /\ Closes(j, h)' => i = j)
  BY <1>1, ClosesTail
<1> HIDE DEF task
<1>6. ASSUME NEW h \in Handles
      PROVE  Exclusive(h)' /\ (h \in busy_sessions' <=> Claimed(h)')
  <2>1. Exclusive(h) /\ (h \in busy_sessions <=> Claimed(h))
    BY <1>2 DEF Ownership, Serving
  <2>2. \A t \in Threads : (Owns(t, h)' <=> Owns(t, h)) /\ (Learns(t, h)' <=> Learns(t, h))
    BY <1>1, <1>4 DEF Owns
  <2>3. \A i, j \in DOMAIN queue' : Closes(i, h)' /\ Closes(j, h)' => i = j
    BY <1>5, <2>1 DEF Exclusive
  <2>4. CASE h = task.h
    <3>1. Closes(1, h) /\ 1 \in DOMAIN queue
      BY <1>5, <2>4
    <3>2. /\ \A t \in Threads : ~Owns(t, h) /\ ~Learns(t, h)
          /\ \A i \in DOMAIN queue : Closes(i, h) => i = 1
      BY <2>1, <3>1 DEF Exclusive
    <3>3. /\ \A t \in Threads : ~Owns(t, h)' /\ ~Learns(t, h)'
          /\ \A i \in DOMAIN queue' : ~Closes(i, h)'
      BY <1>5, <2>2, <3>2
    <3>4. Exclusive(h)' /\ ~Claimed(h)'
      BY <3>3 DEF Exclusive, Claimed
    <3> QED BY <1>3, <2>4, <3>4
  <2>5. CASE h # task.h
    <3>1. (\E i \in DOMAIN queue' : Closes(i, h)') <=> (\E i \in DOMAIN queue : Closes(i, h))
      BY <1>5, <2>5
    <3>2. Exclusive(h)'
      BY <2>1, <2>2, <2>3, <3>1 DEF Exclusive
    <3>3. Claimed(h)' <=> Claimed(h)
      BY <2>2, <3>1 DEF Claimed
    <3> QED BY <1>3, <2>1, <2>5, <3>2, <3>3
  <2> QED BY <2>4, <2>5
<1> QED BY <1>1, <1>2, <1>6 DEF Ownership, Serving

\* A restart starts from no owners and an empty queue.
LEMMA OwnershipLifecycle ==
    ASSUME TypeOK, Phases, Promises, Ownership, Lifecycle
    PROVE  Ownership'
<1>1. CASE Initialize
  <2>1. /\ stopping = "no" /\ ~manager /\ queue = <<>> /\ Quiescent
        /\ UNCHANGED <<queue, thread, own>> /\ busy_sessions' = {} /\ manager' /\ stopping' = "no"
    BY <1>1 DEF Initialize, init, Phases, Promises, stopVars
  <2>2. \A t \in Threads : own'[t] = {} /\ \A h \in Handles : ~Learns(t, h)'
    BY <2>1 DEF Ownership, Learns
  <2>3. DOMAIN queue' = {}
    BY <2>1
  <2> QED BY <2>1, <2>2, <2>3 DEF Ownership, Exclusive, Claimed, Owns
<1>2. CASE StopJoin
  <2>1. Quiescent /\ thread' = thread /\ ~manager' /\ \A t \in Threads : own'[t] = {}
    BY <1>2 DEF StopJoin, Promises, Phases
  <2>2. \A t \in Threads, h \in Handles : ~Learns(t, h)'
    BY <2>1 DEF Learns, Quiescent, Away, Returning
  <2>3. ~manager /\ busy_sessions' = busy_sessions
    BY <1>2 DEF StopJoin, Phases, poolVars
  <2> QED BY <2>1, <2>2, <2>3 DEF Ownership
<1>3. CASE UninitClear
  BY <1>3 DEF UninitClear, uninit_clear, Ownership
<1>4. CASE ~Initialize /\ ~StopJoin /\ ~UninitClear
  <2>1. stopping' # "no" /\ UNCHANGED <<own, busy_sessions, manager, thread, queue>>
    BY <1>4, HandleAssumption DEF Lifecycle, StopProgress, Uninitialize, InitializeAgain,
                UninitCloseBegin, UninitCloseEnd, Phases, poolVars, entranceVars
  <2> QED BY <2>1, OwnershipKept DEF Learns
<1> QED BY <1>1, <1>2, <1>3, <1>4

\* What a timeout does: it honors the promise of a command and leaves the
\* command in the queue.
LEMMA TimeoutEffect ==
    ASSUME TypeOK, Promises, NEW k \in DOMAIN queue, Timeout(k)
    PROVE  /\ queue[k] \in Task /\ queue[k].op = "exec" /\ ~queue[k].honored /\ Owed(queue[k])
           /\ DOMAIN queue' = DOMAIN queue
           /\ \A i \in DOMAIN queue : /\ queue'[i].op = queue[i].op /\ queue'[i].h = queue[i].h
                                      /\ queue'[i].sid = queue[i].sid
                                      /\ queue'[i].thread = queue[i].thread
           /\ honor(queue[k], queue[k].h, "Timeout")
           /\ UNCHANGED <<own, session, idle_sessions, busy_sessions, manager, stopping, running>>
<1>1. /\ queue[k] \in Task /\ ~queue[k].honored /\ queue[k].timed
      /\ honor(queue[k], queue[k].h, "Timeout")
  BY DEF Timeout, TypeOK
<1>2. queue[k].op = "exec" /\ Owed(queue[k])
  BY <1>1 DEF Promises
<1>3. queue' = [queue EXCEPT ![k] = [queue[k] EXCEPT !.honored = TRUE]]
  BY DEF Timeout
<1>4. DOMAIN queue' = DOMAIN queue /\ \A i \in DOMAIN queue : i # k => queue'[i] = queue[i]
  BY <1>3
<1>5. queue'[k] = [queue[k] EXCEPT !.honored = TRUE]
  BY <1>3
<1>6. /\ queue'[k].op = queue[k].op /\ queue'[k].h = queue[k].h
      /\ queue'[k].sid = queue[k].sid /\ queue'[k].thread = queue[k].thread
  BY <1>1, <1>5 DEF Task
<1>7. UNCHANGED <<own, session, idle_sessions, busy_sessions, manager, stopping, running>>
  BY DEF Timeout, poolVars, entranceVars, stopVars
<1> QED BY <1>1, <1>2, <1>4, <1>6, <1>7

\* Every step keeps Ownership.
LEMMA OwnershipStep ==
    ASSUME TypeOK, TypeOK', Answers, Phases, PoolConsistent, Promises, Ownership, [Next]_vars
    PROVE  Ownership'
<1>1. CASE Lifecycle
  BY <1>1, OwnershipLifecycle
<1>2. ASSUME NEW t \in Threads, Call(t) PROVE Ownership'
  <2>1. thread[t] = Away
    BY <1>2, CallShape
  <2>2. CASE CallRefused(t)
    <3>0. UNCHANGED <<busy_sessions, manager, stopping, queue>>
      BY <2>2 DEF CallRefused, poolVars, entranceVars, stopVars
    <3>1. PICK e : thread' = [thread EXCEPT ![t] = Returning("none", NoHandle, e)]
      BY <2>2 DEF CallRefused
    <3>2. \A u \in Threads, h \in Handles : Learns(u, h)' <=> Learns(u, h)
      <4> TAKE u \in Threads, h \in Handles
      <4>1. CASE u = t
        <5>1. thread[u] = Away /\ thread'[u] = Returning("none", NoHandle, e)
          BY <2>1, <2>2, <3>1, <4>1 DEF TypeOK
        <5> QED BY <5>1 DEF Learns, Away, Returning
      <4>2. CASE u # t
        BY <3>1, <4>2 DEF Learns, TypeOK
      <4> QED BY <4>1, <4>2
    <3> QED BY <2>2, <3>0, <3>2, OwnershipKept DEF CallRefused
  <2>3. CASE ~CallRefused(t)
    <3>1. PICK task : Posted(t, task)
      BY <1>2, <2>3, CallShape
    <3>2. UNCHANGED <<busy_sessions, manager, stopping>>
      BY <3>1 DEF Posted, Post, poolVars, entranceVars, stopVars
    <3> QED BY <1>2, <3>1, <3>2, CallShape, OwnershipPost
  <2> QED BY <2>2, <2>3
<1>3. ASSUME NEW t \in Threads, Return(t) PROVE Ownership'
  BY <1>3, OwnershipReturn
<1>4. CASE IoThread
  <2>1. UNCHANGED <<own, manager, stopping>>
    BY <1>4, HandlerShape
  <2>2. CASE do_open_session
    BY <2>2, OwnershipOpen
  <2>3. CASE do_close_session
    BY <2>3, OwnershipClose
  <2>4. CASE ~do_open_session /\ ~do_close_session
    <3>1. busy_sessions' = busy_sessions
      BY <1>4, <2>4 DEF IoThread, do_execute, do_open_session_refused, do_open_session_failed,
             do_reg_svc, do_unreg_svc, do_execute_find, do_execute_check, do_execute_run,
             do_execute_fail, open_idle_session_failed, poolVars
    <3>2. CASE Answered
      <4>1. PICK h, e : honor(Head(queue), h, e) /\ (Head(queue).op # "open" \/ e # "Success")
        <5>1. CASE do_open_session_refused
          BY <5>1 DEF do_open_session_refused
        <5>2. CASE do_open_session_failed
          BY <5>2 DEF do_open_session_failed
        <5>3. CASE do_reg_svc \/ do_unreg_svc
          BY <5>3 DEF do_reg_svc, do_unreg_svc, Starts
        <5>4. ~do_execute
          BY <3>2 DEF Answered, do_execute, do_execute_find, do_execute_check, do_execute_run,
                      do_execute_fail, NoTask
        <5> QED BY <1>4, <2>4, <5>1, <5>2, <5>3, <5>4 DEF IoThread
      <4>2. Head(queue).op # "close"
        <5>1. ~do_execute
          BY <3>2 DEF Answered, do_execute, do_execute_find, do_execute_check, do_execute_run,
                      do_execute_fail, NoTask
        <5> QED BY <1>4, <2>4, <5>1 DEF IoThread, do_open_session_refused, do_open_session_failed,
                   do_reg_svc, do_unreg_svc, Starts
      <4>3. /\ queue # <<>> /\ queue' = Tail(queue)
            /\ Head(queue) \in Task /\ (~Head(queue).honored => Owed(Head(queue)))
        BY <3>2, TailEffect DEF Answered, Promises
      <4>4. \A t \in Threads, g \in Handles : Learns(t, g)' <=> Learns(t, g)
        BY <4>1, <4>3, LearnsKept
      <4> QED BY <2>1, <3>1, <4>2, <4>3, <4>4, OwnershipKept
    <3>3. CASE Begun
      <4>1. Head(queue).op # "close"
        <5>1. do_execute_find
          BY <1>4, <2>4, <3>3 DEF Begun, IoThread, do_execute, do_open_session_refused, do_open_session_failed,
             do_reg_svc, do_unreg_svc, do_execute_check, do_execute_run, do_execute_fail, HandlerFrame, NoTask
        <5> QED BY <5>1 DEF do_execute_find, Starts
      <4> QED BY <2>1, <3>1, <3>3, <4>1, OwnershipKept DEF Begun, Learns
    <3>4. CASE Continued
      BY <2>1, <3>1, <3>4, OwnershipKept DEF Continued, Learns
    <3>5. CASE Finished
      <4>1. PICK h, e : honor(running.task, h, e)
        BY <3>5 DEF Finished
      <4>2. /\ running.task \in Task /\ (~running.task.honored => Owed(running.task))
            /\ queue' = queue
        BY <3>5 DEF Finished, TypeOK, Promises
      <4>3. running.task.op = "exec"
        BY <3>5 DEF Finished, Answers
      <4> QED BY <2>1, <3>1, <4>1, <4>2, <4>3, LearnsKept, OwnershipKept
    <3> QED BY <1>4, <3>2, <3>3, <3>4, <3>5, HandlerShape
  <2> QED BY <2>2, <2>3, <2>4
<1>5. ASSUME NEW k \in DOMAIN queue, Timeout(k) PROVE Ownership'
  <2>1. \A t \in Threads, g \in Handles : Learns(t, g)' <=> Learns(t, g)
    BY <1>5, TimeoutEffect, LearnsKept
  <2> QED BY <1>5, <2>1, TimeoutEffect, OwnershipKept
<1>6. CASE UNCHANGED vars
  BY <1>6, OwnershipKept DEF vars, Learns
<1> QED BY <1>1, <1>2, <1>3, <1>4, <1>5, <1>6 DEF Next

\* Answers holds throughout.
LEMMA AnswersInvariant == Spec => []Answers
<1>1. Init => Answers
  BY DEF Init, Answers, Away
<1>2. TypeOK /\ Answers /\ [Next]_vars => Answers'
  BY AnswersStep
<1> QED BY <1>1, <1>2, TypeCorrect, PTL DEF Spec

\* Ownership holds throughout.
LEMMA OwnershipInvariant == Spec => []Ownership
<1>1. Init => Ownership
  BY DEF Init, Ownership, Learns, Away, Returning
<1>2. /\ TypeOK /\ TypeOK' /\ Answers /\ Phases /\ PoolConsistent /\ Promises
      /\ Ownership /\ [Next]_vars
      => Ownership'
  BY OwnershipStep
<1> QED BY <1>1, <1>2, TypeCorrect, AnswersInvariant, PoolInvariant, PromisesInvariant, PTL DEF Spec

\* Ownership counted: a busy session has one claim, an idle one none.
LEMMA OwnershipCounted == Ownership => NoSessionLeak
<1> SUFFICES ASSUME Ownership, Serving, NEW h \in Handles
             PROVE  Cardinality(Claims(h)) = IF h \in busy_sessions THEN 1 ELSE 0
  BY DEF NoSessionLeak
<1>1. Exclusive(h) /\ (h \in busy_sessions <=> Claimed(h))
  BY DEF Ownership, Serving
<1>2. Claims(h) = {<<"own", t>> : t \in {u \in Threads : Owns(u, h)}}
                  \cup {<<"opened", t>> : t \in {u \in Threads : Learns(u, h)}}
                  \cup {<<"close", i>> : i \in {j \in DOMAIN queue : Closes(j, h)}}
  BY DEF Claims, Owns, Learns, Closes
<1>3. \A x, y \in Claims(h) : x = y
  BY <1>1, <1>2 DEF Exclusive
<1>4. Claims(h) # {} <=> Claimed(h)
  BY <1>2 DEF Claimed
<1>5. CASE h \in busy_sessions
  <2>1. PICK x : x \in Claims(h)
    BY <1>1, <1>4, <1>5
  <2>2. Claims(h) = {x}
    BY <1>3, <2>1
  <2> QED BY <1>5, <2>2, FS_Singleton
<1>6. CASE h \notin busy_sessions
  <2>1. Claims(h) = {}
    BY <1>1, <1>4, <1>6
  <2> QED BY <1>6, <2>1, FS_EmptySet
<1> QED BY <1>5, <1>6

\* Whatever the interleaving of opens, closes, timeouts and restarts: a
\* session that is busy has exactly one thread, or posted handler, that can
\* still close it, and an idle one none, so that no session is ever lost and
\* none is handed to two threads.
THEOREM NoSessionLost == Spec => []NoSessionLeak
BY OwnershipInvariant, OwnershipCounted, PTL

-----------------------------------------------------------------------------
(* A late command stays in its session.                                    *)

\* The session h is still open afterwards, under the same live session id.
Keeps(h) == h \in busy_sessions' /\ session'[h].live_session_id = session[h].live_session_id

\* While the handlers stay posted and the sessions open, the commands stay
\* bound.
LEMMA BoundKept ==
    ASSUME TypeOK, Bound, UNCHANGED <<manager, stopping>>,
           Serving => \A h \in busy_sessions : Keeps(h),
           DOMAIN queue' = DOMAIN queue,
           \A i \in DOMAIN queue : /\ queue'[i].op = queue[i].op /\ queue'[i].h = queue[i].h
                                   /\ queue'[i].sid = queue[i].sid,
           running' = NoTask \/ (running # NoTask /\ running'.task = running.task)
    PROVE  Bound'
<1> SUFFICES ASSUME Serving
             PROVE  /\ \A i \in DOMAIN queue' :
                          /\ Meant(queue[i])'
                          /\ queue'[i].op = "exec" /\ queue'[i].sid # NoSid =>
                                \A j \in 1 .. i - 1 : ~Closes(j, queue[i].h)'
                    /\ running' # NoTask => Meant(running.task)'
  BY DEF Bound, Serving
<1>1. ASSUME NEW i \in DOMAIN queue
      PROVE  /\ Meant(queue[i])'
             /\ queue'[i].op = "exec" /\ queue'[i].sid # NoSid =>
                   \A j \in 1 .. i - 1 : ~Closes(j, queue[i].h)'
  <2>1. /\ Meant(queue[i])
        /\ queue[i].op = "exec" /\ queue[i].sid # NoSid => \A j \in 1 .. i - 1 : ~Closes(j, queue[i].h)
    BY DEF Bound
  <2>2. Meant(queue[i])'
    BY <2>1 DEF Meant, Keeps
  <2>3. ASSUME NEW j \in 1 .. i - 1 PROVE j \in DOMAIN queue
    BY DEF TypeOK
  <2>4. ASSUME NEW j \in 1 .. i - 1 PROVE Closes(j, queue[i].h)' <=> Closes(j, queue[i].h)
    BY <2>3, <2>4 DEF Closes
  <2> QED BY <2>1, <2>2, <2>4
<1>2. running' # NoTask => Meant(running.task)'
  BY DEF Bound, Meant, Keeps
<1> QED BY <1>1, <1>2

\* The oldest handler is taken: the commands behind a close are not bound to
\* the session it closes.
LEMMA BoundTail ==
    ASSUME TypeOK, Bound, UNCHANGED <<manager, stopping>>, queue # <<>>, queue' = Tail(queue),
           Serving => \A h \in busy_sessions : ~Closes(1, h) => Keeps(h),
           running' = NoTask \/ running'.task = Head(queue)
    PROVE  Bound'
<1> SUFFICES ASSUME Serving
             PROVE  /\ \A i \in DOMAIN queue' :
                          /\ Meant(queue[i])'
                          /\ queue'[i].op = "exec" /\ queue'[i].sid # NoSid =>
                                \A j \in 1 .. i - 1 : ~Closes(j, queue[i].h)'
                    /\ running' # NoTask => Meant(running.task)'
  BY DEF Bound, Serving
<1>0. /\ 1 \in DOMAIN queue /\ Head(queue) = queue[1]
      /\ \A i \in DOMAIN queue' :
            i \in Nat /\ i >= 1 /\ i + 1 \in DOMAIN queue /\ queue'[i] = queue[i + 1]
      /\ DOMAIN queue' = 1 .. Len(queue') /\ Len(queue') \in Nat
  BY TailEffect DEF TypeOK
<1>1. ASSUME NEW i \in DOMAIN queue'
      PROVE  /\ Meant(queue[i])'
             /\ queue'[i].op = "exec" /\ queue'[i].sid # NoSid =>
                   \A j \in 1 .. i - 1 : ~Closes(j, queue[i].h)'
  <2>1. /\ i \in Nat /\ i >= 1 /\ i + 1 \in DOMAIN queue /\ queue'[i] = queue[i + 1]
        /\ Meant(queue[i + 1])
        /\ queue[i + 1].op = "exec" /\ queue[i + 1].sid # NoSid =>
              \A j \in 1 .. i : ~Closes(j, queue[i + 1].h)
    BY <1>0 DEF Bound
  <2>2. queue[i + 1].op = "exec" /\ queue[i + 1].sid # NoSid => ~Closes(1, queue[i + 1].h)
    BY <2>1
  <2>3. Meant(queue[i])'
    BY <2>1, <2>2 DEF Meant, Keeps
  <2>4. ASSUME NEW j \in 1 .. i - 1
        PROVE  j + 1 \in 1 .. i /\ (Closes(j, queue[i].h)' <=> Closes(j + 1, queue[i + 1].h))
    <3>1. j + 1 \in 1 .. i /\ j \in DOMAIN queue'
      BY <1>0, <2>1, <2>4
    <3>2. queue'[j] = queue[j + 1]
      BY <1>0, <3>1
    <3> QED BY <2>1, <3>1, <3>2 DEF Closes
  <2> QED BY <2>1, <2>3, <2>4
<1>2. ASSUME running' # NoTask PROVE Meant(running.task)'
  <2>1. running'.task = queue[1] /\ Meant(queue[1])
    BY <1>0, <1>2 DEF Bound
  <2>2. queue[1].op = "exec" => \A h : ~Closes(1, h)
    BY DEF Closes
  <2> QED BY <2>1, <2>2 DEF Meant, Keeps
<1> QED BY <1>1, <1>2

\* A command is bound, when it is posted, to a session its thread owns; no
\* close of that session is posted then.
LEMMA BoundPost ==
    ASSUME TypeOK, Ownership, Bound, NEW t \in Threads, NEW task, Posted(t, task)
    PROVE  Bound'
<1>1. /\ task \in Task /\ Post(task)
      /\ UNCHANGED <<session, busy_sessions, manager, stopping, running>>
  BY DEF Posted, Post, poolVars, entranceVars, stopVars
<1>2. PICK n :
      /\ DOMAIN queue' = DOMAIN queue \cup {n} /\ n = Len(queue) + 1
      /\ \A i \in DOMAIN queue : queue'[i] = queue[i]
      /\ queue'[n] = task
  BY <1>1, PostEffect
<1>3. DOMAIN queue = 1 .. Len(queue) /\ Len(queue) \in Nat
  BY DEF TypeOK
<1> SUFFICES ASSUME Serving
             PROVE  /\ \A i \in DOMAIN queue' :
                          /\ Meant(queue[i])'
                          /\ queue'[i].op = "exec" /\ queue'[i].sid # NoSid =>
                                \A j \in 1 .. i - 1 : ~Closes(j, queue[i].h)'
                    /\ running' # NoTask => Meant(running.task)'
  BY <1>1 DEF Bound, Serving
<1>4. \A j \in DOMAIN queue : \A h : Closes(j, h)' <=> Closes(j, h)
  BY <1>2 DEF Closes
<1>5. ASSUME NEW i \in DOMAIN queue
      PROVE  /\ Meant(queue[i])'
             /\ queue'[i].op = "exec" /\ queue'[i].sid # NoSid =>
                   \A j \in 1 .. i - 1 : ~Closes(j, queue[i].h)'
  <2>1. /\ Meant(queue[i])
        /\ queue[i].op = "exec" /\ queue[i].sid # NoSid => \A j \in 1 .. i - 1 : ~Closes(j, queue[i].h)
    BY DEF Bound
  <2>2. \A j \in 1 .. i - 1 : j \in DOMAIN queue
    BY <1>3
  <2> QED BY <1>1, <1>2, <1>4, <2>1, <2>2 DEF Meant
<1>6. ASSUME task.op = "exec", task.sid # NoSid
      PROVE  /\ task.h \in busy_sessions /\ session[task.h].live_session_id = task.sid
             /\ \A j \in DOMAIN queue : ~Closes(j, task.h)
  <2>1. task.h \in own[t] /\ task.sid = session[task.h].live_session_id
    BY <1>6 DEF Posted
  <2>2. task.h \in Handles
    BY <2>1 DEF TypeOK
  <2>3. Exclusive(task.h) /\ task.h \in busy_sessions
    BY <2>1, <2>2 DEF Ownership, Serving, Claimed, Owns
  <2> QED BY <2>1, <2>3 DEF Exclusive, Owns
<1>7. /\ Meant(queue[n])'
      /\ queue'[n].op = "exec" /\ queue'[n].sid # NoSid =>
            \A j \in 1 .. n - 1 : ~Closes(j, queue[n].h)'
  <2>1. \A j \in 1 .. n - 1 : j \in DOMAIN queue
    BY <1>2, <1>3
  <2> QED BY <1>1, <1>2, <1>4, <1>6, <2>1 DEF Meant
<1>8. running' # NoTask => Meant(running.task)'
  BY <1>1 DEF Bound, Meant
<1> QED BY <1>2, <1>5, <1>7, <1>8

\* A handler keeps every busy session open under its id, but for the one
\* that the oldest handler closes.
LEMMA HandlersKeep ==
    ASSUME TypeOK, PoolConsistent, ExecuteInBusy, Serving, IoThread, NEW h \in busy_sessions,
           ~(queue' = Tail(queue) /\ queue # <<>> /\ Closes(1, h))
    PROVE  Keeps(h)
<1>1. h \in Handles /\ h \notin idle_sessions /\ session[h] \in Session /\ Usable(session[h])
  BY DEF TypeOK, PoolConsistent
<1>2. ASSUME NEW g, NEW r, session' = [session EXCEPT ![g] = r], busy_sessions' = busy_sessions,
             g = h => r.live_session_id = session[h].live_session_id
      PROVE  Keeps(h)
  BY <1>1, <1>2 DEF Keeps, TypeOK
<1>3. CASE UNCHANGED poolVars
  BY <1>3 DEF Keeps, poolVars
<1>4. CASE do_open_session_failed
  <2>1. PICK g \in idle_sessions, sid \in FreshSids : open_idle_session_failed(g, sid)
    BY <1>4 DEF do_open_session_failed
  <2> QED BY <1>1, <1>2, <2>1 DEF open_idle_session_failed
<1>5. CASE do_open_session
  <2>1. PICK g \in idle_sessions : /\ \E r : session' = [session EXCEPT ![g] = r]
                                   /\ busy_sessions' = busy_sessions \cup {g}
    BY <1>5 DEF do_open_session, open_idle_session
  <2> QED BY <1>1, <2>1 DEF Keeps, TypeOK
<1>6. CASE do_close_session
  <2> DEFINE g == Head(queue).h
  <2>1. queue # <<>> /\ queue' = Tail(queue) /\ Head(queue).op = "close"
    BY <1>6 DEF do_close_session, Starts
  <2>2. h # g
    BY <2>1, ClosesTail
  <2>3. close_busy_session(g) \/ UNCHANGED poolVars
    BY <1>6 DEF do_close_session
  <2>4. CASE g \in busy_sessions /\ close_busy_session(g)
    <3>1. PICK r : session' = [session EXCEPT ![g] = r] /\ busy_sessions' = busy_sessions \ {g}
      BY <2>4 DEF close_busy_session
    <3> QED BY <1>1, <2>2, <3>1 DEF Keeps, TypeOK
  <2>5. CASE ~(g \in busy_sessions /\ close_busy_session(g))
    BY <1>3, <2>3, <2>5 DEF close_busy_session
  <2> QED BY <2>4, <2>5
<1>7. CASE do_reg_svc
  <2>1. Head(queue).svc \in Svcs \cup {NoSvc}
    BY <1>7, QueueType DEF do_reg_svc, Starts, Task
  <2>2. \/ UNCHANGED poolVars
        \/ \E g : /\ session' = [session EXCEPT ![g] = reg_svc(session[g], Head(queue).svc)]
                  /\ busy_sessions' = busy_sessions
    BY <1>7 DEF do_reg_svc
  <2>3. reg_svc(session[h], Head(queue).svc).live_session_id = session[h].live_session_id
    BY <1>1, <2>1, ServeUsable
  <2> QED BY <1>2, <1>3, <2>2, <2>3
<1>8. CASE do_unreg_svc
  <2>1. Head(queue).svc \in Svcs \cup {NoSvc}
    BY <1>8, QueueType DEF do_unreg_svc, Starts, Task
  <2>2. \/ UNCHANGED poolVars
        \/ \E g : /\ session' = [session EXCEPT ![g] = unreg_svc(session[g], Head(queue).svc)]
                  /\ busy_sessions' = busy_sessions
    BY <1>8 DEF do_unreg_svc
  <2>3. unreg_svc(session[h], Head(queue).svc).live_session_id = session[h].live_session_id
    BY <1>1, <2>1, ServeUsable
  <2> QED BY <1>2, <1>3, <2>2, <2>3
<1>9. CASE do_execute_run
  <2>1. PICK r \in execute(session[running.task.h]) : session' = [session EXCEPT ![running.task.h] = r]
    BY <1>9 DEF do_execute_run
  <2>2. busy_sessions' = busy_sessions
    BY <1>9 DEF do_execute_run
  <2>3. running.task.h = h => r.live_session_id = session[h].live_session_id
    BY <1>1, <2>1, ServeUsable
  <2> QED BY <1>2, <2>1, <2>2, <2>3
<1>10. CASE do_open_session_refused \/ do_execute_find \/ do_execute_check \/ do_execute_fail
  BY <1>3, <1>10 DEF do_open_session_refused, do_execute_find, do_execute_check, do_execute_fail
<1> QED BY <1>4, <1>5, <1>6, <1>7, <1>8, <1>9, <1>10 DEF IoThread, do_execute

\* Every step keeps Bound.
LEMMA BoundStep ==
    ASSUME TypeOK, Phases, PoolConsistent, ExecuteInBusy, Promises, Ownership, Bound, [Next]_vars
    PROVE  Bound'
<1>1. ASSUME UNCHANGED <<session, busy_sessions, queue, running, manager, stopping>>
      PROVE  Bound'
  BY <1>1 DEF Bound, Serving, Meant, Closes
<1>2. CASE Lifecycle
  <2>1. CASE Initialize
    <3>1. queue' = <<>> /\ running' = NoTask
      BY <2>1 DEF Initialize, Phases, Promises
    <3> QED BY <3>1 DEF Bound
  <2>2. CASE StopJoin
    BY <2>2 DEF StopJoin, Phases, Bound, Serving
  <2>3. CASE ~Initialize /\ ~StopJoin
    <3>1. stopping' # "no"
      BY <1>2, <2>3, HandleAssumption
         DEF Lifecycle, StopProgress, Uninitialize, InitializeAgain, UninitCloseBegin,
             UninitCloseEnd, UninitClear, Phases
    <3> QED BY <3>1 DEF Bound, Serving
  <2> QED BY <2>1, <2>2, <2>3
<1>3. ASSUME NEW t \in Threads, Call(t) \/ Return(t) PROVE Bound'
  <2>1. CASE CallRefused(t) \/ Return(t)
    BY <1>1, <2>1 DEF CallRefused, Return, poolVars, entranceVars, stopVars
  <2>2. CASE \E task : Posted(t, task)
    BY <2>2, BoundPost
  <2> QED BY <1>3, <2>1, <2>2, CallShape
<1>4. CASE IoThread
  <2>1. UNCHANGED <<manager, stopping>>
    BY <1>4, HandlerShape
  <2>2. CASE Answered \/ Begun
    <3>1. /\ queue # <<>> /\ queue' = Tail(queue)
          /\ running' = NoTask \/ running'.task = Head(queue)
      BY <2>2 DEF Answered, Begun
    <3>2. Serving => \A h \in busy_sessions : ~Closes(1, h) => Keeps(h)
      BY <1>4, HandlersKeep
    <3> QED BY <2>1, <3>1, <3>2, BoundTail
  <2>3. CASE Continued \/ Finished
    <3>1. /\ queue' = queue
          /\ running' = NoTask \/ (running # NoTask /\ running'.task = running.task)
      BY <2>3 DEF Continued, Finished
    <3>2. queue # Tail(queue) \/ queue = <<>>
      BY DEF TypeOK
    <3>3. Serving => \A h \in busy_sessions : Keeps(h)
      BY <1>4, <3>1, <3>2, HandlersKeep
    <3> QED BY <2>1, <3>1, <3>3, BoundKept
  <2> QED BY <1>4, <2>2, <2>3, HandlerShape
<1>5. ASSUME NEW k \in DOMAIN queue, Timeout(k) PROVE Bound'
  <2>1. \A h \in busy_sessions : Keeps(h)
    BY <1>5, TimeoutEffect DEF Keeps
  <2>2. running' = NoTask
    BY <1>5 DEF Timeout
  <2> QED BY <1>5, <2>1, <2>2, TimeoutEffect, BoundKept
<1>6. CASE UNCHANGED vars
  BY <1>1, <1>6 DEF vars
<1> QED BY <1>2, <1>3, <1>4, <1>5, <1>6 DEF Next

\* Bound holds throughout.
LEMMA BoundInvariant == Spec => []Bound
<1>1. Init => Bound
  BY DEF Init, Bound, Serving
<1>2. /\ TypeOK /\ Phases /\ PoolConsistent /\ ExecuteInBusy /\ Promises /\ Ownership
      /\ Bound /\ [Next]_vars
      => Bound'
  BY BoundStep
<1> QED BY <1>1, <1>2, TypeCorrect, PoolInvariant, PromisesInvariant, OwnershipInvariant, PTL DEF Spec

\* A command whose caller gave up on it waits behind nothing that closes its
\* session: the handle cannot have been closed and handed out again before
\* the command runs, however long the queue.
THEOREM LateExecuteBound == Spec => []LateExecuteStaysInSession
<1>1. Bound => LateExecuteStaysInSession
  BY DEF Bound, LateExecuteStaysInSession
<1> QED BY <1>1, BoundInvariant, PTL

-----------------------------------------------------------------------------
(* The holder of a session.                                                *)

\* Thread t has, or has posted, the claim on session h.
Closing(h, t) == \E i \in DOMAIN queue : Closes(i, h) /\ queue[i].thread = t
ClaimedBy(h, t) == Owns(t, h) \/ Learns(t, h) \/ Closing(h, t)

\* The holder of a session is the thread that has its one claim.
HolderIsClaimant(h) ==
    /\ h \notin busy_sessions <=> Holder(h) = NoThread
    /\ Holder(h) \in Threads \cup {NoThread}
    /\ \A t \in Threads : Holder(h) = t <=> ClaimedBy(h, t)

\* It is, while the entrance has a manager.
LEMMA HolderClaims == TypeOK /\ Ownership /\ manager => \A h \in Handles : HolderIsClaimant(h)
<1> SUFFICES ASSUME TypeOK, Ownership, manager, NEW h \in Handles PROVE HolderIsClaimant(h)
  OBVIOUS
<1> USE DEF HolderIsClaimant
<1>1. Exclusive(h) /\ (h \in busy_sessions <=> Claimed(h))
  BY DEF Ownership
<1>2. Claims(h) = {<<"own", t>> : t \in {u \in Threads : Owns(u, h)}}
                  \cup {<<"opened", t>> : t \in {u \in Threads : Learns(u, h)}}
                  \cup {<<"close", i>> : i \in {j \in DOMAIN queue : Closes(j, h)}}
  BY DEF Claims, Owns, Learns, Closes
<1>3. \A x, y \in Claims(h) : x = y
  BY <1>1, <1>2 DEF Exclusive
<1>4. \A i \in DOMAIN queue : queue[i].thread \in Threads
  BY QueueThreads
<1>5. CASE h \notin busy_sessions
  <2>1. Holder(h) = NoThread
    BY <1>5 DEF Holder
  <2>2. \A t \in Threads : ~ClaimedBy(h, t)
    BY <1>1, <1>5 DEF Claimed, ClaimedBy, Closing
  <2> QED BY <1>5, <2>1, <2>2, NoThreadAssumption
<1>6. CASE h \in busy_sessions
  <2> DEFINE c == CHOOSE x \in Claims(h) : TRUE
  <2>1. Claims(h) # {}
    BY <1>1, <1>2, <1>6 DEF Claimed
  <2>2. c \in Claims(h) /\ \A x \in Claims(h) : x = c
    BY <1>3, <2>1
  <2>3. Holder(h) = IF c[1] = "close" THEN queue[c[2]].thread ELSE c[2]
    BY <1>6 DEF Holder
  <2> HIDE DEF c
  <2>4. ASSUME NEW t \in Threads, Owns(t, h) \/ Learns(t, h) PROVE Holder(h) = t
    <3>1. <<"own", t>> \in Claims(h) \/ <<"opened", t>> \in Claims(h)
      BY <1>2, <2>4
    <3>2. c = <<"own", t>> \/ c = <<"opened", t>>
      BY <2>2, <3>1
    <3> QED BY <2>3, <3>2
  <2>5. ASSUME NEW i \in DOMAIN queue, Closes(i, h) PROVE Holder(h) = queue[i].thread
    <3>1. c = <<"close", i>>
      BY <1>2, <2>2, <2>5
    <3> QED BY <2>3, <3>1
  <2>6. \A t \in Threads : ClaimedBy(h, t) => Holder(h) = t
    BY <2>4, <2>5 DEF ClaimedBy, Closing
  <2>7. \E t \in Threads : ClaimedBy(h, t)
    BY <1>1, <1>4, <1>6 DEF Claimed, ClaimedBy, Closing
  <2> QED BY <1>6, <2>6, <2>7, NoThreadAssumption
<1> QED BY <1>5, <1>6

\* It is, after a step as well.
LEMMA HolderClaimsNext ==
    TypeOK' /\ Ownership' /\ manager' => \A h \in Handles : HolderIsClaimant(h)'
<1>1. (TypeOK /\ Ownership /\ manager => \A h \in Handles : HolderIsClaimant(h))'
  BY HolderClaims, PTL
<1> QED BY <1>1

\* Without a manager nobody holds a session.
LEMMA HolderDown ==
    ASSUME Ownership, ~manager, NEW h \in Handles
    PROVE  Holder(h) = NoThread
BY DEF Ownership, Holder

\* The posted closes of a session, and their threads, when the oldest handler
\* is taken.
LEMMA ClosingTail ==
    ASSUME TypeOK, queue # <<>>, queue' = Tail(queue), NEW h, NEW t
    PROVE  Closing(h, t)' <=> \E i \in DOMAIN queue : i # 1 /\ Closes(i, h) /\ queue[i].thread = t
<1>1. /\ 1 \in DOMAIN queue /\ \A i \in DOMAIN queue : i \in Nat
      /\ \A i \in DOMAIN queue' :
            i \in Nat /\ i >= 1 /\ i + 1 \in DOMAIN queue /\ queue'[i] = queue[i + 1]
      /\ \A i \in DOMAIN queue : i = 1 \/ (i - 1 \in DOMAIN queue' /\ queue'[i - 1] = queue[i])
  BY TailEffect
<1>2. ASSUME NEW i \in DOMAIN queue', Closes(i, h)', queue'[i].thread = t
      PROVE  \E j \in DOMAIN queue : j # 1 /\ Closes(j, h) /\ queue[j].thread = t
  <2>1. i + 1 \in DOMAIN queue /\ i + 1 # 1 /\ queue[i + 1] = queue'[i]
    BY <1>1
  <2> QED BY <1>2, <2>1 DEF Closes
<1>3. ASSUME NEW i \in DOMAIN queue, i # 1, Closes(i, h), queue[i].thread = t
      PROVE  \E j \in DOMAIN queue' : Closes(j, h)' /\ queue'[j].thread = t
  <2>1. i - 1 \in DOMAIN queue' /\ queue'[i - 1] = queue[i]
    BY <1>1, <1>3
  <2> QED BY <1>3, <2>1 DEF Closes
<1> QED BY <1>2, <1>3 DEF Closing

-----------------------------------------------------------------------------
(* The steps of the pool.                                                  *)

holderOf == [h \in Handles |-> Holder(h)]
callOf == [t \in Threads |-> CallOf(t)]

\* While the claims stay with their threads, the holders stay.
LEMMA HoldersKept ==
    ASSUME TypeOK, TypeOK', Ownership, Ownership', manager' = manager,
           manager => \A h \in Handles, t \in Threads : ClaimedBy(h, t)' <=> ClaimedBy(h, t)
    PROVE  holderOf' = holderOf
<1>1. ASSUME NEW h \in Handles PROVE Holder(h)' = Holder(h)
  <2>1. CASE manager
    <3>1. HolderIsClaimant(h) /\ HolderIsClaimant(h)'
      BY <2>1, HolderClaims, HolderClaimsNext
    <3> QED BY <2>1, <3>1, NoThreadAssumption DEF HolderIsClaimant
  <2>2. CASE ~manager
    <3>1. busy_sessions = {} /\ busy_sessions' = {}
      BY <2>2 DEF Ownership
    <3> QED BY <3>1 DEF Holder
  <2> QED BY <2>1, <2>2
<1> QED BY <1>1 DEF holderOf

\* The claims stay with their threads while no close is posted or taken and
\* nobody learns of a session.
LEMMA ClaimsKept ==
    ASSUME TypeOK, own' = own,
           \A t \in Threads, h \in Handles : Learns(t, h)' <=> Learns(t, h),
           \/ /\ DOMAIN queue' = DOMAIN queue
              /\ \A i \in DOMAIN queue : /\ queue'[i].op = queue[i].op /\ queue'[i].h = queue[i].h
                                         /\ queue'[i].thread = queue[i].thread
           \/ queue # <<>> /\ queue' = Tail(queue) /\ Head(queue).op # "close"
    PROVE  \A h \in Handles, t \in Threads : ClaimedBy(h, t)' <=> ClaimedBy(h, t)
<1> SUFFICES ASSUME NEW h \in Handles, NEW t \in Threads
             PROVE  ClaimedBy(h, t)' <=> ClaimedBy(h, t)
  OBVIOUS
<1>1. Closing(h, t)' <=> Closing(h, t)
  <2>1. CASE /\ DOMAIN queue' = DOMAIN queue
             /\ \A i \in DOMAIN queue : /\ queue'[i].op = queue[i].op /\ queue'[i].h = queue[i].h
                                        /\ queue'[i].thread = queue[i].thread
    BY <2>1 DEF Closing, Closes
  <2>2. CASE queue # <<>> /\ queue' = Tail(queue) /\ Head(queue).op # "close"
    <3>1. ~Closes(1, h)
      BY <2>2, ClosesTail
    <3>2. Closing(h, t)' <=> \E i \in DOMAIN queue : i # 1 /\ Closes(i, h) /\ queue[i].thread = t
      BY <2>2, ClosingTail
    <3> QED BY <3>1, <3>2 DEF Closing
  <2> QED BY <2>1, <2>2
<1> QED BY <1>1 DEF ClaimedBy, Owns

\* What the pool sees of the state r of a thread.
CallSeen(r) ==
    CASE r.pc = "wait" /\ r.op = "open"  -> Pool!Open
      [] r.pc = "wait" /\ r.op = "close" -> Pool!Close(r.h)
      [] r.pc = "ret"  /\ r.op = "open"  ->
            [op |-> CASE r.ec = "Success"              -> "opened"
                      [] r.ec = "Insufficient_Session" -> "none_left"
                      [] OTHER                         -> "not_opened",
             h  |-> r.h]
      [] r.pc = "ret"  /\ r.op = "close" -> Pool!Closed
      [] OTHER                           -> Pool!NoCall

\* It is what CallOf says, before a step and after it.
LEMMA CallSeenIsCallOf ==
    ASSUME NEW t \in Threads
    PROVE  CallOf(t) = CallSeen(thread[t]) /\ CallOf(t)' = CallSeen(thread'[t])
BY DEF CallOf, CallSeen, Pool!Open, Pool!Close, Pool!Closed, Pool!NoCall

\* The calls the pool sees, one by one.
LEMMA CallsSeen ==
    ASSUME NEW o, NEW h, NEW e
    PROVE  /\ CallSeen(Away) = Pool!NoCall
           /\ CallSeen(Waiting("open", h)) = Pool!Open
           /\ CallSeen(Waiting("close", h)) = Pool!Close(h)
           /\ o \notin {"open", "close"} => /\ CallSeen(Waiting(o, h)) = Pool!NoCall
                                            /\ CallSeen(Returning(o, h, e)) = Pool!NoCall
           /\ CallSeen(Returning("open", h, "Success")) = Pool!Opened(h)
           /\ CallSeen(Returning("open", NoHandle, "Insufficient_Session")) = Pool!NoneLeft
           /\ CallSeen(Returning("open", NoHandle, "Engine_Error")) = Pool!NotOpened
           /\ CallSeen(Returning("close", h, e)) = Pool!Closed
BY DEF CallSeen, Away, Waiting, Returning, Pool!NoCall, Pool!Opened, Pool!NoneLeft, Pool!NotOpened

\* When one thread moves, one call moves.
LEMMA CallsMove ==
    ASSUME TypeOK, NEW t \in Threads, \A u \in Threads : u # t => thread'[u] = thread[u]
    PROVE  /\ callOf' = [callOf EXCEPT ![t] = CallSeen(thread'[t])]
           /\ callOf[t] = CallSeen(thread[t])
           /\ CallSeen(thread'[t]) = CallSeen(thread[t]) => callOf' = callOf
<1>1. \A u \in Threads : CallOf(u) = CallSeen(thread[u]) /\ CallOf(u)' = CallSeen(thread'[u])
  BY CallSeenIsCallOf
<1> QED BY <1>1 DEF callOf

\* A thread that moves between states that show no call moves no call.
LEMMA CallsKept ==
    ASSUME \A u \in Threads : CallSeen(thread'[u]) = CallSeen(thread[u])
    PROVE  callOf' = callOf
<1>1. \A u \in Threads : CallOf(u) = CallSeen(thread[u]) /\ CallOf(u)' = CallSeen(thread'[u])
  BY CallSeenIsCallOf
<1> QED BY <1>1 DEF callOf

\* While nobody is inside a call the pool sees none.
LEMMA CallsQuiescent ==
    ASSUME Quiescent
    PROVE  \A t \in Threads : callOf[t] = Pool!NoCall
<1>1. \A u \in Threads : CallOf(u) = Pool!NoCall
  BY CallSeenIsCallOf, CallsSeen DEF Quiescent
<1> QED BY <1>1 DEF callOf

-----------------------------------------------------------------------------
(* Every step of the entrance is one of the pool's.                        *)

\* A step that shows nowhere.
LEMMA Stutters ==
    ASSUME manager' = manager, holderOf' = holderOf, callOf' = callOf
    PROVE  UNCHANGED Pool!poolSpecVars
BY DEF holderOf, callOf, Pool!poolSpecVars

\* initialize and the end of uninitialize restart the pool; the other steps
\* of force_stop do not show.
LEMMA RefinesLifecycle ==
    ASSUME TypeOK, TypeOK', Phases, Promises, Ownership, Ownership', Lifecycle
    PROVE  [Pool!Next]_(Pool!poolSpecVars)
<1>1. CASE Initialize
  <2>1. Quiescent /\ thread' = thread /\ ~manager /\ manager' /\ busy_sessions' = {}
    BY <1>1 DEF Initialize, init, Phases
  <2>2. holderOf' = [h \in Handles |-> NoThread]
    BY <2>1 DEF holderOf, Holder
  <2>3. callOf' = callOf /\ \A t \in Threads : callOf[t] = Pool!NoCall
    BY <2>1, CallsKept, CallsQuiescent
  <2>4. Pool!Restart
    BY <2>1, <2>2, <2>3 DEF Pool!Restart, holderOf, callOf, TypeOK
  <2> QED BY <2>4 DEF Pool!Next
<1>2. CASE UninitClear /\ manager
  <2>1. Quiescent /\ thread' = thread /\ manager /\ ~manager' /\ busy_sessions' = {}
    BY <1>2 DEF UninitClear, uninit_clear, Promises
  <2>2. holderOf' = [h \in Handles |-> NoThread]
    BY <2>1 DEF holderOf, Holder
  <2>3. callOf' = callOf /\ \A t \in Threads : callOf[t] = Pool!NoCall
    BY <2>1, CallsKept, CallsQuiescent
  <2>4. Pool!Restart
    BY <2>1, <2>2, <2>3 DEF Pool!Restart, holderOf, callOf, TypeOK
  <2> QED BY <2>4 DEF Pool!Next
<1>3. CASE UninitClear /\ ~manager
  <2>1. thread' = thread /\ manager' = manager
    BY <1>3 DEF UninitClear, TypeOK
  <2>2. holderOf' = holderOf
    BY <1>3, <2>1, HoldersKept
  <2> QED BY <2>1, <2>2, CallsKept, Stutters
<1>4. CASE StopJoin
  <2>1. thread' = thread /\ manager' = manager /\ ~manager
    BY <1>4 DEF StopJoin, Phases
  <2>2. holderOf' = holderOf
    BY <2>1, HoldersKept
  <2> QED BY <2>1, <2>2, CallsKept, Stutters
<1>5. CASE ~Initialize /\ ~UninitClear /\ ~StopJoin
  <2>1. UNCHANGED <<thread, manager, own, queue>>
    BY <1>5 DEF Lifecycle, StopProgress, Uninitialize, InitializeAgain, UninitCloseBegin,
                UninitCloseEnd, entranceVars
  <2>2. \A h \in Handles, t \in Threads : ClaimedBy(h, t)' <=> ClaimedBy(h, t)
    BY <2>1, ClaimsKept DEF Learns
  <2>3. holderOf' = holderOf
    BY <2>1, <2>2, HoldersKept
  <2> QED BY <2>1, <2>3, CallsKept, Stutters
<1> QED BY <1>1, <1>2, <1>3, <1>4, <1>5

\* A call that posts an open or a close invokes it; another shows nowhere.
LEMMA RefinesPost ==
    ASSUME TypeOK, TypeOK', Phases, Ownership, Ownership',
           NEW t \in Threads, thread[t] = Away, stopping = "no", NEW task, Posted(t, task)
    PROVE  [Pool!Next]_(Pool!poolSpecVars)
<1>1. task \in Task /\ task.thread = t /\ Post(task) /\ ios /\ manager' = manager
  BY DEF Posted, Post, entranceVars
<1>2. manager
  BY <1>1 DEF Phases
<1>3. PICK n :
      /\ DOMAIN queue' = DOMAIN queue \cup {n} /\ n \notin DOMAIN queue
      /\ \A i \in DOMAIN queue : queue'[i] = queue[i]
      /\ queue'[n] = task
      /\ thread'[t] = Waiting(task.op, task.h)
      /\ \A u \in Threads : u # t => thread'[u] = thread[u]
  BY <1>1, PostEffect
<1>4. ASSUME NEW h \in Handles, NEW u \in Threads PROVE ClaimedBy(h, u)' <=> ClaimedBy(h, u)
  <2>1. Learns(u, h)' <=> Learns(u, h)
    <3>1. CASE u = t
      BY <1>3, <3>1 DEF Learns, Away, Waiting, Returning
    <3>2. CASE u # t
      BY <1>3, <3>2 DEF Learns
    <3> QED BY <3>1, <3>2
  <2>2. \A i \in DOMAIN queue : Closes(i, h)' <=> Closes(i, h)
    BY <1>3 DEF Closes
  <2>3. Closing(h, u)' <=> Closing(h, u) \/ (task.op = "close" /\ task.h = h /\ u = t)
    <3>1. queue'[n].op = "close" /\ queue'[n].h = h /\ queue'[n].thread = u
             <=> task.op = "close" /\ task.h = h /\ u = t
      BY <1>1, <1>3
    <3>2. Closing(h, u)' <=> \E i \in DOMAIN queue' :
             queue'[i].op = "close" /\ queue'[i].h = h /\ queue'[i].thread = u
      BY DEF Closing, Closes
    <3>3. Closing(h, u) <=> \E i \in DOMAIN queue :
             queue[i].op = "close" /\ queue[i].h = h /\ queue[i].thread = u
      BY DEF Closing, Closes
    <3> QED BY <1>3, <3>1, <3>2, <3>3
  <2>4. CASE task.op = "close" /\ task.h = h /\ u = t
    <3>1. Owns(u, h)
      BY <2>4, HandleAssumption DEF Posted, Owns
    <3> QED BY <2>3, <2>4, <3>1 DEF ClaimedBy
  <2>5. CASE ~(task.op = "close" /\ task.h = h /\ u = t)
    <3>1. Owns(u, h)' <=> Owns(u, h)
      BY <2>5 DEF Posted, Owns, TypeOK
    <3> QED BY <2>1, <2>3, <2>5, <3>1 DEF ClaimedBy
  <2> QED BY <2>4, <2>5
<1>5. holderOf' = holderOf
  BY <1>1, <1>4, HoldersKept
<1>6. /\ callOf' = [callOf EXCEPT ![t] = CallSeen(Waiting(task.op, task.h))]
      /\ callOf[t] = Pool!NoCall
      /\ CallSeen(Waiting(task.op, task.h)) = Pool!NoCall => callOf' = callOf
  BY <1>3, CallsMove, CallsSeen
<1>7. CASE task.op = "open"
  <2>1. CallSeen(Waiting(task.op, task.h)) = Pool!Open
    BY <1>7, CallsSeen
  <2>2. Pool!Invoke(t)
    BY <1>1, <1>2, <1>5, <1>6, <2>1 DEF Pool!Invoke, holderOf, callOf
  <2> QED BY <2>2 DEF Pool!Next
<1>8. CASE task.op = "close"
  <2>1. CallSeen(Waiting(task.op, task.h)) = Pool!Close(task.h)
    BY <1>8, CallsSeen
  <2>2. task.h = NoHandle \/ (task.h \in Handles /\ holderOf[task.h] = t)
    <3>1. CASE task.h # NoHandle
      <4>1. task.h \in own[t] /\ task.h \in Handles
        BY <1>8, <3>1 DEF Posted, TypeOK
      <4>2. Holder(task.h) = t
        BY <1>2, <4>1, HolderClaims DEF HolderIsClaimant, ClaimedBy, Owns
      <4> QED BY <4>1, <4>2 DEF holderOf
    <3> QED BY <3>1
  <2>3. Pool!Invoke(t)
    BY <1>1, <1>2, <1>5, <1>6, <2>1, <2>2 DEF Pool!Invoke, holderOf, callOf
  <2> QED BY <2>3 DEF Pool!Next
<1>9. CASE task.op \notin {"open", "close"}
  BY <1>1, <1>5, <1>6, <1>9, CallsSeen, Stutters
<1> QED BY <1>7, <1>8, <1>9

\* A return from open or close returns in the pool; another shows nowhere.
LEMMA RefinesReturn ==
    ASSUME TypeOK, TypeOK', Ownership, Ownership', NEW t \in Threads, Return(t)
    PROVE  [Pool!Next]_(Pool!poolSpecVars)
<1>1. /\ thread'[t] = Away /\ \A u \in Threads : u # t => thread'[u] = thread[u]
      /\ UNCHANGED <<queue, manager>>
      /\ thread[t] \in Thread /\ thread[t].pc = "ret"
  BY DEF Return, TypeOK, entranceVars
<1>2. ASSUME NEW h \in Handles, NEW u \in Threads PROVE ClaimedBy(h, u)' <=> ClaimedBy(h, u)
  <2>1. Closing(h, u)' <=> Closing(h, u)
    BY <1>1 DEF Closing, Closes
  <2>2. CASE u # t
    BY <1>1, <2>1, <2>2 DEF ClaimedBy, Owns, Learns, Return, TypeOK
  <2>3. CASE u = t
    <3>1. Learns(t, h) <=> thread[t].op = "open" /\ thread[t].ec = "Success" /\ thread[t].h = h
      BY <1>1 DEF Learns, Returning, Thread
    <3>2. ~Learns(t, h)'
      BY <1>1 DEF Learns, Away, Returning
    <3>3. Owns(t, h)' <=> Owns(t, h) \/ Learns(t, h)
      BY <3>1 DEF Owns, Return, TypeOK
    <3> QED BY <2>1, <2>3, <3>2, <3>3 DEF ClaimedBy
  <2> QED BY <2>2, <2>3
<1>3. holderOf' = holderOf
  BY <1>1, <1>2, HoldersKept
<1>4. /\ callOf' = [callOf EXCEPT ![t] = Pool!NoCall]
      /\ callOf[t] = CallSeen(thread[t])
      /\ Pool!NoCall = CallSeen(thread[t]) => callOf' = callOf
  BY <1>1, CallsMove, CallsSeen
<1>5. CASE thread[t].op \in {"open", "close"}
  <2>1. callOf[t].op \in {"opened", "none_left", "not_opened", "closed"}
    BY <1>1, <1>4, <1>5 DEF CallSeen, Pool!Closed
  <2>2. Pool!Return(t)
    BY <1>1, <1>3, <1>4, <2>1 DEF Pool!Return, holderOf, callOf
  <2> QED BY <2>2 DEF Pool!Next
<1>6. CASE thread[t].op \notin {"open", "close"}
  <2>1. CallSeen(thread[t]) = Pool!NoCall
    BY <1>1, <1>6 DEF CallSeen
  <2> QED BY <1>1, <1>3, <1>4, <2>1, Stutters
<1> QED BY <1>5, <1>6

\* The answer to the oldest handler, which is no do_execute, moves the call of
\* its thread.
LEMMA AnswerMoves ==
    ASSUME TypeOK, Phases, Promises, ios, queue # <<>>, Head(queue).op # "exec",
           NEW h, NEW e, honor(Head(queue), h, e)
    PROVE  /\ Head(queue).thread \in Threads /\ Serving /\ entrance_check = "Success"
           /\ thread[Head(queue).thread] = Waiting(Head(queue).op, Head(queue).h)
           /\ thread'[Head(queue).thread] = Returning(Head(queue).op, h, e)
           /\ \A u \in Threads : u # Head(queue).thread => thread'[u] = thread[u]
           /\ callOf[Head(queue).thread] = CallSeen(Waiting(Head(queue).op, Head(queue).h))
           /\ callOf' = [callOf EXCEPT ![Head(queue).thread] = CallSeen(Returning(Head(queue).op, h, e))]
<1> DEFINE task == Head(queue)
<1>1. /\ task \in Task /\ ~task.honored /\ thread[task.thread] = Waiting(task.op, task.h)
      /\ Serving /\ entrance_check = "Success"
  BY HeadWaits
<1>2. task.thread \in Threads
  BY <1>1 DEF Task
<1>3. /\ thread'[task.thread] = Returning(task.op, h, e)
      /\ \A u \in Threads : u # task.thread => thread'[u] = thread[u]
  BY <1>1, HonorEffect
<1>4. /\ callOf' = [callOf EXCEPT ![task.thread] = CallSeen(thread'[task.thread])]
      /\ callOf[task.thread] = CallSeen(thread[task.thread])
  BY <1>2, <1>3, CallsMove
<1> QED BY <1>1, <1>2, <1>3, <1>4

\* An open that does not succeed leaves the sessions with their holders.
LEMMA HoldersOfFailedOpen ==
    ASSUME TypeOK, TypeOK', Phases, Promises, Ownership, Ownership', ios, queue # <<>>,
           queue' = Tail(queue), Head(queue).op # "close", Head(queue).op # "exec",
           UNCHANGED <<own, manager>>,
           NEW h, NEW e, Head(queue).op # "open" \/ e # "Success", honor(Head(queue), h, e)
    PROVE  holderOf' = holderOf
<1>1. Head(queue) \in Task /\ Owed(Head(queue))
  BY HeadWaits DEF Owed
<1>2. \A t \in Threads, g \in Handles : Learns(t, g)' <=> Learns(t, g)
  BY <1>1, LearnsKept
<1>3. \A g \in Handles, t \in Threads : ClaimedBy(g, t)' <=> ClaimedBy(g, t)
  BY <1>2, ClaimsKept
<1> QED BY <1>3, HoldersKept

\* An open that fails fails in the pool, for the same reason.
LEMMA RefinesOpenFailed ==
    ASSUME TypeOK, TypeOK', Phases, PoolConsistent, Promises, Ownership, Ownership',
           do_open_session_refused \/ do_open_session_failed
    PROVE  [Pool!Next]_(Pool!poolSpecVars)
<1> DEFINE w == Head(queue).thread
<1>1. /\ ios /\ queue # <<>> /\ queue' = Tail(queue) /\ Head(queue).op = "open"
      /\ UNCHANGED <<own, manager>>
  BY DEF do_open_session_refused, do_open_session_failed, Starts, HandlerFrame
<1>2. /\ w \in Threads /\ Serving /\ entrance_check = "Success"
      /\ callOf[w] = Pool!Open
  <2>1. \E h, e : honor(Head(queue), h, e)
    BY DEF do_open_session_refused, do_open_session_failed
  <2> QED BY <1>1, <2>1, AnswerMoves, CallsSeen
<1>3. ASSUME NEW h \in Handles
      PROVE  holderOf[h] = NoThread <=> h \in idle_sessions
  <2>1. holderOf[h] = NoThread <=> h \notin busy_sessions
    BY <1>2, HolderClaims DEF Serving, HolderIsClaimant, holderOf
  <2> QED BY <1>2, <2>1 DEF PoolConsistent
<1>4. Pool!Free = {} <=> idle_sessions = {}
  BY <1>3 DEF Pool!Free, holderOf, TypeOK
<1>5. CASE do_open_session_refused
  <2>1. honor(Head(queue), NoHandle, "Insufficient_Session") /\ idle_sessions = {}
    BY <1>2, <1>5 DEF do_open_session_refused
  <2>2. holderOf' = holderOf
    BY <1>1, <2>1, HoldersOfFailedOpen
  <2>3. callOf' = [callOf EXCEPT ![w] = Pool!NoneLeft]
    BY <1>1, <2>1, AnswerMoves, CallsSeen
  <2> HIDE DEF w
  <2>4. Pool!Exhausted(w)
    BY <1>1, <1>2, <1>4, <2>1, <2>2, <2>3 DEF Pool!Exhausted, holderOf, callOf
  <2> QED BY <1>2, <2>4 DEF Pool!Next
<1>6. CASE do_open_session_failed
  <2>1. honor(Head(queue), NoHandle, "Engine_Error") /\ idle_sessions # {}
    BY <1>6 DEF do_open_session_failed
  <2>2. holderOf' = holderOf
    BY <1>1, <2>1, HoldersOfFailedOpen
  <2>3. callOf' = [callOf EXCEPT ![w] = Pool!NotOpened]
    BY <1>1, <2>1, AnswerMoves, CallsSeen
  <2> HIDE DEF w
  <2>4. Pool!ScriptFails(w)
    BY <1>1, <1>2, <1>4, <2>1, <2>2, <2>3 DEF Pool!ScriptFails, holderOf, callOf
  <2> QED BY <1>2, <2>4 DEF Pool!Next
<1> QED BY <1>5, <1>6

\* An open that succeeds acquires a session that nobody held.
LEMMA RefinesOpen ==
    ASSUME TypeOK, TypeOK', Phases, PoolConsistent, Promises, Ownership, Ownership', do_open_session
    PROVE  [Pool!Next]_(Pool!poolSpecVars)
<1>1. /\ ios /\ queue # <<>> /\ queue' = Tail(queue) /\ Head(queue).op = "open"
      /\ UNCHANGED <<own, manager>>
  BY DEF do_open_session, Starts, HandlerFrame
<1>2. PICK g \in idle_sessions : honor(Head(queue), g, "Success")
  BY DEF do_open_session
<1>3. PICK w : w = Head(queue).thread
  OBVIOUS
<1>4. /\ w \in Threads /\ Serving
      /\ thread[w] = Waiting("open", Head(queue).h)
      /\ thread'[w] = Returning("open", g, "Success")
      /\ \A u \in Threads : u # w => thread'[u] = thread[u]
      /\ callOf[w] = Pool!Open
      /\ callOf' = [callOf EXCEPT ![w] = Pool!Opened(g)]
  BY <1>1, <1>2, <1>3, AnswerMoves, CallsSeen
<1>5. g \in Handles /\ g \notin busy_sessions /\ manager
  BY <1>2, <1>4 DEF TypeOK, PoolConsistent, Serving
<1>6. Holder(g) = NoThread
  BY <1>5 DEF Holder
<1>7. Holder(g)' = w
  <2>1. ClaimedBy(g, w)'
    BY <1>4 DEF ClaimedBy, Learns
  <2> QED BY <1>1, <1>4, <1>5, <2>1, HolderClaimsNext DEF HolderIsClaimant
<1>8. ASSUME NEW h \in Handles, h # g PROVE Holder(h)' = Holder(h)
  <2>1. ASSUME NEW u \in Threads PROVE ClaimedBy(h, u)' <=> ClaimedBy(h, u)
    <3>1. Learns(u, h)' <=> Learns(u, h)
      <4>1. CASE u = w
        BY <1>4, <1>8, <4>1 DEF Learns, Waiting, Returning
      <4>2. CASE u # w
        BY <1>4, <4>2 DEF Learns
      <4> QED BY <4>1, <4>2
    <3>2. ~Closes(1, h)
      BY <1>1, ClosesTail
    <3>3. Closing(h, u)' <=> \E i \in DOMAIN queue : i # 1 /\ Closes(i, h) /\ queue[i].thread = u
      BY <1>1, ClosingTail
    <3>4. Closing(h, u)' <=> Closing(h, u)
      BY <3>2, <3>3 DEF Closing
    <3> QED BY <1>1, <3>1, <3>4 DEF ClaimedBy, Owns
  <2>2. HolderIsClaimant(h) /\ HolderIsClaimant(h)'
    BY <1>1, <1>5, HolderClaims, HolderClaimsNext
  <2> QED BY <2>1, <2>2, NoThreadAssumption DEF HolderIsClaimant
<1>9. holderOf' = [holderOf EXCEPT ![g] = w]
  BY <1>7, <1>8 DEF holderOf
<1>10. g \in Pool!Free
  BY <1>5, <1>6 DEF Pool!Free
<1>11. Pool!Acquire(w)
  BY <1>1, <1>4, <1>9, <1>10 DEF Pool!Acquire, holderOf, callOf
<1> QED BY <1>4, <1>11 DEF Pool!Next

\* A close releases the session it names, and no other.
LEMMA RefinesClose ==
    ASSUME TypeOK, TypeOK', Phases, PoolConsistent, Promises, Ownership, Ownership', do_close_session
    PROVE  [Pool!Next]_(Pool!poolSpecVars)
<1>1. /\ ios /\ queue # <<>> /\ queue' = Tail(queue) /\ Head(queue).op = "close"
      /\ UNCHANGED <<own, manager>>
  BY DEF do_close_session, Starts, HandlerFrame
<1>2. PICK e : honor(Head(queue), Head(queue).h, e)
  BY DEF do_close_session
<1>3. PICK w, g : w = Head(queue).thread /\ g = Head(queue).h
  OBVIOUS
<1>4. /\ w \in Threads /\ Serving /\ entrance_check = "Success"
      /\ callOf[w] = Pool!Close(g)
      /\ callOf' = [callOf EXCEPT ![w] = Pool!Closed]
  BY <1>1, <1>2, <1>3, AnswerMoves, CallsSeen
<1>5. manager /\ manager' /\ busy_sessions' = busy_sessions \ {g}
  BY <1>1, <1>3, <1>4 DEF Serving, do_close_session, close_busy_session, poolVars
<1>6. \A t \in Threads, h \in Handles : Learns(t, h)' <=> Learns(t, h)
  <2>1. Head(queue) \in Task /\ Owed(Head(queue))
    BY <1>1, HeadWaits DEF Owed
  <2> QED BY <1>1, <1>2, <2>1, LearnsKept
<1>7. ASSUME NEW h \in Handles, h # g PROVE Holder(h)' = Holder(h)
  <2>1. ASSUME NEW u \in Threads PROVE ClaimedBy(h, u)' <=> ClaimedBy(h, u)
    <3>1. ~Closes(1, h)
      BY <1>1, <1>3, <1>7, ClosesTail
    <3>2. Closing(h, u)' <=> \E i \in DOMAIN queue : i # 1 /\ Closes(i, h) /\ queue[i].thread = u
      BY <1>1, ClosingTail
    <3>3. Closing(h, u)' <=> Closing(h, u)
      BY <3>1, <3>2 DEF Closing
    <3> QED BY <1>1, <1>6, <3>3 DEF ClaimedBy, Owns
  <2>2. HolderIsClaimant(h) /\ HolderIsClaimant(h)'
    BY <1>5, HolderClaims, HolderClaimsNext
  <2> QED BY <2>1, <2>2, NoThreadAssumption DEF HolderIsClaimant
<1>8. Holder(g)' = NoThread
  BY <1>5 DEF Holder
<1>9. holderOf' = [h \in Handles |-> IF h = g THEN NoThread ELSE holderOf[h]]
  BY <1>7, <1>8 DEF holderOf
<1>10. callOf[w].op = "close" /\ callOf[w].h = g
  BY <1>4 DEF Pool!Close
<1>11. Pool!Release(w)
  BY <1>1, <1>4, <1>9, <1>10 DEF Pool!Release, holderOf, callOf
<1> QED BY <1>4, <1>11 DEF Pool!Next

\* Honoring the promise of a command, a registration or its end shows in no
\* call of the pool.
LEMMA CallsAside ==
    ASSUME TypeOK, NEW task \in Task, NEW h, NEW e, honor(task, h, e),
           ~task.honored => Owed(task), task.op \notin {"open", "close"}
    PROVE  /\ callOf' = callOf
           /\ \A t \in Threads, g \in Handles : Learns(t, g)' <=> Learns(t, g)
<1>1. ASSUME NEW u \in Threads PROVE CallSeen(thread'[u]) = CallSeen(thread[u])
  <2>1. CASE task.honored \/ u # task.thread
    BY <2>1, HonorEffect
  <2>2. CASE ~task.honored /\ u = task.thread
    <3>1. thread[u] = Waiting(task.op, task.h) /\ thread'[u] = Returning(task.op, h, e)
      BY <2>2, HonorEffect DEF Owed
    <3> QED BY <3>1, CallsSeen
  <2> QED BY <2>1, <2>2
<1> QED BY <1>1, CallsKept, LearnsKept

\* A registration, and a command at any of its steps, shows nowhere.
LEMMA RefinesAside ==
    ASSUME TypeOK, TypeOK', Answers, Promises, Ownership, Ownership',
           do_reg_svc \/ do_unreg_svc \/ do_execute
    PROVE  [Pool!Next]_(Pool!poolSpecVars)
<1>1. IoThread
  BY DEF IoThread
<1>2. UNCHANGED <<own, manager>>
  BY <1>1, HandlerShape
<1>3. /\ callOf' = callOf
      /\ \A t \in Threads, g \in Handles : Learns(t, g)' <=> Learns(t, g)
      /\ queue' = queue \/ (queue # <<>> /\ queue' = Tail(queue) /\ Head(queue).op # "close")
  <2>1. CASE do_reg_svc \/ do_unreg_svc
    <3>1. /\ queue # <<>> /\ queue' = Tail(queue) /\ Head(queue).op \in {"reg", "unreg"}
      BY <2>1 DEF do_reg_svc, do_unreg_svc, Starts
    <3>2. PICK h, e : honor(Head(queue), h, e)
      BY <2>1 DEF do_reg_svc, do_unreg_svc
    <3>3. Head(queue) \in Task /\ (~Head(queue).honored => Owed(Head(queue)))
      BY <3>1, TailEffect DEF Promises
    <3> QED BY <3>1, <3>2, <3>3, CallsAside
  <2>2. CASE do_execute_find
    <3>1. queue # <<>> /\ queue' = Tail(queue) /\ Head(queue).op = "exec" /\ thread' = thread
      BY <2>2 DEF do_execute_find, Starts
    <3> QED BY <3>1, CallsKept DEF Learns
  <2>3. CASE do_execute_check
    <3>1. queue' = queue /\ thread' = thread
      BY <2>3 DEF do_execute_check
    <3> QED BY <3>1, CallsKept DEF Learns
  <2>4. CASE do_execute_run \/ do_execute_fail
    <3>1. running # NoTask /\ queue' = queue
      BY <2>4 DEF do_execute_run, do_execute_fail, NoTask
    <3>2. PICK h, e : honor(running.task, h, e)
      BY <2>4 DEF do_execute_run, do_execute_fail
    <3>3. /\ running.task \in Task /\ (~running.task.honored => Owed(running.task))
          /\ running.task.op = "exec"
      BY <3>1 DEF TypeOK, Promises, Answers
    <3> QED BY <3>1, <3>2, <3>3, CallsAside
  <2> QED BY <2>1, <2>2, <2>3, <2>4 DEF do_execute
<1>4. \A g \in Handles, t \in Threads : ClaimedBy(g, t)' <=> ClaimedBy(g, t)
  BY <1>2, <1>3, ClaimsKept
<1>5. holderOf' = holderOf
  BY <1>2, <1>4, HoldersKept
<1> QED BY <1>2, <1>3, <1>5, Stutters

\* So does a timeout.
LEMMA RefinesTimeout ==
    ASSUME TypeOK, TypeOK', Promises, Ownership, Ownership', NEW k \in DOMAIN queue, Timeout(k)
    PROVE  [Pool!Next]_(Pool!poolSpecVars)
<1>1. /\ callOf' = callOf
      /\ \A t \in Threads, g \in Handles : Learns(t, g)' <=> Learns(t, g)
  BY TimeoutEffect, CallsAside
<1>2. \A g \in Handles, t \in Threads : ClaimedBy(g, t)' <=> ClaimedBy(g, t)
  BY <1>1, TimeoutEffect, ClaimsKept
<1>3. holderOf' = holderOf /\ manager' = manager
  BY <1>2, TimeoutEffect, HoldersKept
<1> QED BY <1>1, <1>3, Stutters

\* Every step of the entrance is a step of the pool, or none.
LEMMA RefinesStep ==
    ASSUME TypeOK, TypeOK', Answers, Phases, PoolConsistent, Promises, Ownership, Ownership',
           [Next]_vars
    PROVE  [Pool!Next]_(Pool!poolSpecVars)
<1>1. CASE Lifecycle
  BY <1>1, RefinesLifecycle
<1>2. ASSUME NEW t \in Threads, Call(t) PROVE [Pool!Next]_(Pool!poolSpecVars)
  <2>1. thread[t] = Away /\ stopping = "no"
    BY <1>2, CallShape
  <2>2. CASE CallRefused(t)
    <3>1. PICK e : thread' = [thread EXCEPT ![t] = Returning("none", NoHandle, e)]
      BY <2>2 DEF CallRefused
    <3>2. UNCHANGED <<own, manager, queue>>
      BY <2>2 DEF CallRefused, entranceVars
    <3>3. /\ thread'[t] = Returning("none", NoHandle, e)
          /\ \A u \in Threads : u # t => thread'[u] = thread[u]
      BY <3>1 DEF TypeOK
    <3>4. callOf' = callOf
      BY <2>1, <3>3, CallsMove, CallsSeen
    <3>5. \A u \in Threads, h \in Handles : Learns(u, h)' <=> Learns(u, h)
      <4> SUFFICES ASSUME NEW u \in Threads, NEW h \in Handles PROVE Learns(u, h)' <=> Learns(u, h)
        OBVIOUS
      <4>1. CASE u = t
        BY <2>1, <3>3, <4>1 DEF Learns, Away, Returning
      <4>2. CASE u # t
        BY <3>3, <4>2 DEF Learns
      <4> QED BY <4>1, <4>2
    <3>6. \A h \in Handles, u \in Threads : ClaimedBy(h, u)' <=> ClaimedBy(h, u)
      BY <3>2, <3>5, ClaimsKept
    <3> QED BY <3>2, <3>4, <3>6, HoldersKept, Stutters
  <2>3. CASE \E task : Posted(t, task)
    BY <2>1, <2>3, RefinesPost
  <2> QED BY <1>2, <2>2, <2>3, CallShape
<1>3. ASSUME NEW t \in Threads, Return(t) PROVE [Pool!Next]_(Pool!poolSpecVars)
  BY <1>3, RefinesReturn
<1>4. CASE IoThread
  BY <1>4, RefinesOpenFailed, RefinesOpen, RefinesClose, RefinesAside DEF IoThread
<1>5. ASSUME NEW k \in DOMAIN queue, Timeout(k) PROVE [Pool!Next]_(Pool!poolSpecVars)
  BY <1>5, RefinesTimeout
<1>6. CASE UNCHANGED vars
  <2>1. UNCHANGED <<own, manager, queue, thread>>
    BY <1>6 DEF vars
  <2>2. \A h \in Handles, u \in Threads : ClaimedBy(h, u)' <=> ClaimedBy(h, u)
    BY <2>1, ClaimsKept DEF Learns
  <2> QED BY <2>1, <2>2, CallsKept, HoldersKept, Stutters
<1> QED BY <1>1, <1>2, <1>3, <1>4, <1>5, <1>6 DEF Next

\* At first nobody holds a session and nobody is in a call.
LEMMA RefinesInit == Init => Pool!Init
<1> SUFFICES ASSUME Init PROVE Pool!Init
  OBVIOUS
<1>1. \A h \in Handles : Holder(h) = NoThread
  BY DEF Init, Holder
<1>2. \A t \in Threads : CallOf(t) = Pool!NoCall
  BY CallSeenIsCallOf, CallsSeen DEF Init
<1>3. manager = FALSE
  BY DEF Init
<1> QED BY <1>1, <1>2, <1>3 DEF Pool!Init

\* The entrance, its queue, its promises, its two tables and its state
\* machines together implement the abstract pool: an open or a close takes
\* effect at one instant between its call and its return, a session goes to
\* one thread at a time, an open fails for want of a session only when all
\* are held, and a close gives back the session it names and no other.
THEOREM ImplementsPool == Spec => PoolSpec
<1>1. /\ TypeOK /\ TypeOK' /\ Answers /\ Phases /\ PoolConsistent /\ Promises
      /\ Ownership /\ Ownership' /\ [Next]_vars
      => [Pool!Next]_(Pool!poolSpecVars)
  BY RefinesStep
<1>2. Spec => Pool!Spec
  BY <1>1, RefinesInit, TypeCorrect, AnswersInvariant, PoolInvariant, PromisesInvariant,
     OwnershipInvariant, PTL DEF Spec, Pool!Spec
<1> QED BY <1>2 DEF PoolSpec

=============================================================================
