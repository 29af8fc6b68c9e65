--------------------------- MODULE ServiceThread ----------------------------
(***************************************************************************)
(* comLib::Thread with the blocking queues it waits on (SafeQueue, over    *)
(* two Semaphores and a Mutex), as LuaLwsService uses them: the io thread  *)
(* starts the thread of the service, again if it did not start in time,    *)
(* and stops it, waits for a token in a queue each time, destroys the      *)
(* context when it has stopped and deletes the service, queues and all.    *)
(***************************************************************************)
EXTENDS Integers, FiniteSets

CONSTANTS
    Worker,            \* the threads that can be created
    queue_size         \* of a SafeQueue

Nobody == "nobody"

ASSUME ServiceThreadAssumption == queue_size \in Nat \ {0} /\ Nobody \notin Worker

VARIABLES
    m_bRunning,
    m_start_lock_queue, m_stop_lock_queue,
    context,           \* context_ is there
    worker,            \* where each thread is
    caller,            \* where the io thread is
    timed_out,         \* a wait ended by its timeout
    deleted,
    delayed            \* may a thread be held up for as long as the timeout?

threadVars == <<m_bRunning, m_start_lock_queue, m_stop_lock_queue, context, worker, caller,
                timed_out, deleted, delayed>>

-----------------------------------------------------------------------------
(* SafeQueue.  Its operations hold m_Lock from their first to their last   *)
(* step; Pop alone waits for a token before it takes the lock.             *)

\* The constructor: every place is empty.
NewQueue == [size |-> 0, full |-> 0, empty |-> queue_size, lock |-> Nobody]

Post(q, s) == [q EXCEPT ![s] = @ + 1]
Wait(q, s) == [q EXCEPT ![s] = @ - 1]
waits(q, s) == q[s] = 0

Lock(q, t) == [q EXCEPT !.lock = t]
Unlock(q) == [q EXCEPT !.lock = Nobody]

\* When the queue is full the oldest token is dropped.  q is what is left to
\* do Push on, a semaphore at zero blocks the thread with the lock held.
dropped(q) == IF q.size >= queue_size
              THEN Post(Wait([q EXCEPT !.size = @ - 1], "full"), "empty") ELSE q

Push(q, t) ==
    LET d == dropped(q)
    IN Lock(Post([Wait(d, "empty") EXCEPT !.size = @ + 1], "full"), t)

can_push(q) == /\ q.lock = Nobody
               /\ q.size >= queue_size => ~waits(q, "full")
               /\ ~waits(dropped(q), "empty")

Clear(q) == [q EXCEPT !.size = 0, !.full = @ - q.size, !.empty = @ + q.size]
can_clear(q) == q.lock = Nobody /\ q.full >= q.size

pop(q) == Post([q EXCEPT !.size = @ - 1], "empty")

-----------------------------------------------------------------------------
(* ThreadFunc, on the thread.                                              *)

go(w, place) == worker' = [worker EXCEPT ![w] = place]

thread_begins(w) ==
    /\ worker[w] = "created" /\ go(w, "push_start") /\ m_bRunning' = TRUE
    /\ UNCHANGED <<m_start_lock_queue, m_stop_lock_queue, context, caller, timed_out, deleted, delayed>>

push_start(w) ==
    /\ worker[w] = "push_start" /\ can_push(m_start_lock_queue)
    /\ m_start_lock_queue' = Push(m_start_lock_queue, w) /\ go(w, "pushed_start")
    /\ UNCHANGED <<m_bRunning, m_stop_lock_queue, context, caller, timed_out, deleted, delayed>>

unlock_start(w) ==
    /\ worker[w] = "pushed_start"
    /\ m_start_lock_queue' = Unlock(m_start_lock_queue) /\ go(w, "run")
    /\ UNCHANGED <<m_bRunning, m_stop_lock_queue, context, caller, timed_out, deleted, delayed>>

\* LuaLwsService::run returns once it sees that it is not running.
run(w) ==
    /\ worker[w] = "run" /\ ~m_bRunning /\ go(w, "ended")
    /\ UNCHANGED <<m_bRunning, m_start_lock_queue, m_stop_lock_queue, context, caller,
                   timed_out, deleted, delayed>>

\* m_bRunning = false, m_bHasEnd = true.
has_end(w) ==
    /\ worker[w] = "ended" /\ go(w, "push_stop") /\ m_bRunning' = FALSE
    /\ UNCHANGED <<m_start_lock_queue, m_stop_lock_queue, context, caller, timed_out, deleted, delayed>>

push_stop(w) ==
    /\ worker[w] = "push_stop" /\ can_push(m_stop_lock_queue)
    /\ m_stop_lock_queue' = Push(m_stop_lock_queue, w) /\ go(w, "pushed_stop")
    /\ UNCHANGED <<m_bRunning, m_start_lock_queue, context, caller, timed_out, deleted, delayed>>

unlock_stop(w) ==
    /\ worker[w] = "pushed_stop"
    /\ m_stop_lock_queue' = Unlock(m_stop_lock_queue) /\ go(w, "none")
    /\ UNCHANGED <<m_bRunning, m_start_lock_queue, context, caller, timed_out, deleted, delayed>>

WorkerStep(w) ==
    \/ thread_begins(w) \/ push_start(w) \/ unlock_start(w) \/ run(w) \/ has_end(w)
    \/ push_stop(w) \/ unlock_stop(w)

-----------------------------------------------------------------------------
(* SynStart and SynStop, on the io thread.                                 *)

\* LuaLwsService::start; lws_create_context may fail.
start ==
    /\ caller = "idle" /\ ~deleted /\ ~m_bRunning
    /\ \/ context' = TRUE /\ caller' = "SynStart"
       \/ context' = FALSE /\ UNCHANGED caller
    /\ UNCHANGED <<m_bRunning, m_start_lock_queue, m_stop_lock_queue, worker, timed_out, deleted, delayed>>

SynStart ==
    /\ caller = "SynStart" /\ can_clear(m_start_lock_queue)
    /\ m_bRunning' = FALSE /\ m_start_lock_queue' = Clear(m_start_lock_queue)
    /\ caller' = "Start"
    /\ UNCHANGED <<m_stop_lock_queue, context, worker, timed_out, deleted, delayed>>

\* pthread_create
Start ==
    /\ caller = "Start" /\ caller' = "pop_start"
    /\ \E w \in Worker : worker[w] = "none" /\ go(w, "created")
    /\ UNCHANGED <<m_bRunning, m_start_lock_queue, m_stop_lock_queue, context, timed_out, deleted, delayed>>

\* Faulty variant: the flag is cleared first, the token may be there already.
SynStop_swapped ==
    /\ \/ caller = "SynStop" /\ m_bRunning' = FALSE /\ caller' = "stopping"
          /\ UNCHANGED m_stop_lock_queue
       \/ caller = "stopping" /\ can_clear(m_stop_lock_queue) /\ caller' = "pop_stop"
          /\ m_stop_lock_queue' = Clear(m_stop_lock_queue) /\ UNCHANGED m_bRunning
    /\ UNCHANGED <<m_start_lock_queue, context, worker, timed_out, deleted, delayed>>

SynStop ==
    /\ \/ caller = "SynStop" /\ can_clear(m_stop_lock_queue) /\ caller' = "stopping"
          /\ m_stop_lock_queue' = Clear(m_stop_lock_queue) /\ UNCHANGED m_bRunning
       \/ caller = "stopping" /\ m_bRunning' = FALSE /\ caller' = "pop_stop"
          /\ UNCHANGED m_stop_lock_queue
    /\ UNCHANGED <<m_start_lock_queue, context, worker, timed_out, deleted, delayed>>

\* Pop gets its token and then the lock.
Pop_start ==
    /\ \/ /\ caller = "pop_start" /\ ~waits(m_start_lock_queue, "full")
          /\ m_start_lock_queue' = Wait(m_start_lock_queue, "full") /\ caller' = "popped_start"
       \/ /\ caller = "popped_start" /\ m_start_lock_queue.lock = Nobody
          /\ m_start_lock_queue' = pop(m_start_lock_queue) /\ caller' = "idle"
    /\ UNCHANGED <<m_bRunning, m_stop_lock_queue, context, worker, timed_out, deleted, delayed>>

Pop_stop ==
    /\ \/ /\ caller = "pop_stop" /\ ~waits(m_stop_lock_queue, "full")
          /\ m_stop_lock_queue' = Wait(m_stop_lock_queue, "full") /\ caller' = "popped_stop"
       \/ /\ caller = "popped_stop" /\ m_stop_lock_queue.lock = Nobody
          /\ m_stop_lock_queue' = pop(m_stop_lock_queue) /\ caller' = "destroy"
    /\ UNCHANGED <<m_bRunning, m_start_lock_queue, context, worker, timed_out, deleted, delayed>>

\* A thread that does anything does it within the ten seconds of the wait,
\* unless it may be delayed.
moves(w) == worker[w] # "none" /\ (worker[w] = "run" => ~m_bRunning)

\* Semaphore::Wait(timeout) of Pop returns false.
Timeout ==
    /\ \/ caller = "pop_start" /\ waits(m_start_lock_queue, "full") /\ caller' = "idle"
       \/ caller = "pop_stop" /\ waits(m_stop_lock_queue, "full") /\ caller' = "destroy"
    /\ delayed \/ \A w \in Worker : ~moves(w)
    /\ timed_out' = TRUE
    /\ UNCHANGED <<m_bRunning, m_start_lock_queue, m_stop_lock_queue, context, worker, deleted, delayed>>

\* LuaLwsService::stop, close_all apart.
stop ==
    /\ caller = "idle" /\ ~deleted
    /\ caller' = IF m_bRunning THEN "SynStop" ELSE "destroy"
    /\ UNCHANGED <<m_bRunning, m_start_lock_queue, m_stop_lock_queue, context, worker,
                   timed_out, deleted, delayed>>

\* lws_context_destroy; on_close_module then drops the service.
destroy ==
    /\ caller = "destroy" /\ caller' = "idle" /\ context' = FALSE /\ deleted' = TRUE
    /\ UNCHANGED <<m_bRunning, m_start_lock_queue, m_stop_lock_queue, worker, timed_out, delayed>>

ThreadInit ==
    /\ m_bRunning = FALSE /\ m_start_lock_queue = NewQueue /\ m_stop_lock_queue = NewQueue
    /\ context = FALSE /\ worker = [w \in Worker |-> "none"] /\ caller = "idle"
    /\ timed_out = FALSE /\ deleted = FALSE
    /\ delayed \in BOOLEAN

CallerStep ==
    start \/ SynStart \/ Start \/ SynStop \/ Pop_start \/ Pop_stop \/ Timeout \/ stop \/ destroy

ThreadNext == CallerStep \/ \E w \in Worker : WorkerStep(w)

ThreadSpec == ThreadInit /\ [][ThreadNext]_threadVars

-----------------------------------------------------------------------------
(* Properties.                                                             *)

\* The context is destroyed, and the service with its queues deleted, only
\* after the thread has made its last use of either, so long as no thread is
\* held up for ten seconds.
OutlivesThread ==
    ~delayed =>
        /\ ~context => \A w \in Worker : worker[w] \notin {"created", "push_start",
                                                           "pushed_start", "run"}
        /\ deleted => \A w \in Worker : worker[w] = "none"

\* Then neither a start nor a stop has to wait for its timeout: no token is
\* lost between clearing a queue and waiting on it.
NoTokenLost == ~delayed => ~timed_out

\* A start and a stop of the service find each other's thread.
ThreadInv == OutlivesThread /\ NoTokenLost
=============================================================================
