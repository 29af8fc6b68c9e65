---------------------------- MODULE Parts_proof -----------------------------
(***************************************************************************)
(* Proofs about parts that share nothing: the service thread, the video    *)
(* room, the Android encoder, the Android decoder, and the buffers and the *)
(* video cache of a script.                                                *)
(***************************************************************************)
EXTENDS ServiceThread, BeeVideoRoom, MediaCodecEncoder, MediaCodecDecoder, ScriptBuffers,
        DataLemmas

-----------------------------------------------------------------------------
(* The service thread, for any threads and any size of its queues.         *)

\* The threads, when at most one is there: where it is.
Gone == \A w \in Worker : worker[w] = "none"
Only(w, place) == worker[w] = place /\ \A v \in Worker \ {w} : worker[v] = "none"

\* A queue, and that which holds the one token, before and after the caller
\* took it.
Queue(n, f, e, t) == [size |-> n, full |-> f, empty |-> e, lock |-> t]
Token(full, t) == Queue(1, full, queue_size - 1, t)

\* Where the thread is, and the token of its start, while it starts.
Starts(w, full) ==
    \/ Only(w, "created") /\ full = 1 /\ m_start_lock_queue = NewQueue /\ ~m_bRunning
    \/ Only(w, "push_start") /\ full = 1 /\ m_start_lock_queue = NewQueue /\ m_bRunning
    \/ Only(w, "pushed_start") /\ m_start_lock_queue = Token(full, w) /\ m_bRunning
    \/ Only(w, "run") /\ m_start_lock_queue = Token(full, Nobody) /\ m_bRunning

\* The same while it stops.
Stops(w, full) ==
    \/ Only(w, "run") /\ full = 1 /\ m_stop_lock_queue = NewQueue
    \/ Only(w, "ended") /\ full = 1 /\ m_stop_lock_queue = NewQueue
    \/ Only(w, "push_stop") /\ full = 1 /\ m_stop_lock_queue = NewQueue
    \/ Only(w, "pushed_stop") /\ m_stop_lock_queue = Token(full, w)
    \/ Gone /\ m_stop_lock_queue = Token(full, Nobody)

\* What the caller knows of the thread, at each place it can be in.
Down ==
    /\ caller \in {"idle", "SynStart", "Start", "destroy"} /\ Gone /\ ~m_bRunning
    /\ m_start_lock_queue = NewQueue /\ m_stop_lock_queue = NewQueue
    /\ caller # "idle" => ~deleted
    /\ caller \in {"SynStart", "Start"} => context

Starting ==
    /\ caller \in {"pop_start", "popped_start"} /\ context /\ ~deleted
    /\ m_stop_lock_queue = NewQueue
    /\ \E w \in Worker : Starts(w, IF caller = "pop_start" THEN 1 ELSE 0)

Up ==
    /\ caller \in {"idle", "SynStop", "stopping"} /\ context /\ ~deleted /\ m_bRunning
    /\ m_start_lock_queue = NewQueue /\ m_stop_lock_queue = NewQueue
    /\ \E w \in Worker : Only(w, "run")

Stopping ==
    /\ caller \in {"pop_stop", "popped_stop"} /\ context /\ ~deleted /\ ~m_bRunning
    /\ m_start_lock_queue = NewQueue
    /\ \E w \in Worker : Stops(w, IF caller = "pop_stop" THEN 1 ELSE 0)

Phases == Down \/ Starting \/ Up \/ Stopping

ThreadTypeOK == worker \in [Worker -> {"none", "created", "push_start", "pushed_start", "run",
                                       "ended", "push_stop", "pushed_stop"}]

\* So long as no thread is held up no wait ends by its timeout.
ThreadInvariant == ThreadTypeOK /\ (~delayed => Phases /\ ~timed_out)

-----------------------------------------------------------------------------

\* What each operation of a queue makes of its counts.
LEMMA QueueSteps ==
    ASSUME NEW n \in Int, NEW f \in Int, NEW e \in Int, NEW t
    PROVE  /\ Post(Queue(n, f, e, t), "full") = Queue(n, f + 1, e, t)
           /\ Post(Queue(n, f, e, t), "empty") = Queue(n, f, e + 1, t)
           /\ Wait(Queue(n, f, e, t), "full") = Queue(n, f - 1, e, t)
           /\ Wait(Queue(n, f, e, t), "empty") = Queue(n, f, e - 1, t)
  <1> DEFINE sq == Queue(n, f, e, t)
  <1>1. sq["full"] = f /\ sq["empty"] = e
    BY DEF Queue
  <1>2. ASSUME NEW x PROVE [sq EXCEPT !["full"] = x] = Queue(n, x, e, t)
    BY DEF Queue
  <1>3. ASSUME NEW x PROVE [sq EXCEPT !["empty"] = x] = Queue(n, f, x, t)
    BY DEF Queue
  <1>4. Post(sq, "full") = [sq EXCEPT !["full"] = f + 1]
    BY <1>1, Zenon DEF Post
  <1>5. Post(sq, "empty") = [sq EXCEPT !["empty"] = e + 1]
    BY <1>1, Zenon DEF Post
  <1>6. Wait(sq, "full") = [sq EXCEPT !["full"] = f - 1]
    BY <1>1, Zenon DEF Wait
  <1>7. Wait(sq, "empty") = [sq EXCEPT !["empty"] = e - 1]
    BY <1>1, Zenon DEF Wait
  <1> QED BY <1>2, <1>3, <1>4, <1>5, <1>6, <1>7

\* The queue that was made, as one of those.
LEMMA QueueNew == NewQueue = Queue(0, 0, queue_size, Nobody)
  BY DEF NewQueue, Queue

\* A token is pushed to an empty queue at once.
LEMMA PushNew ==
    ASSUME NEW t \in Worker
    PROVE  Push(NewQueue, t) = Token(1, t)
  <1>0. /\ queue_size \in Int /\ queue_size - 1 \in Int /\ queue_size >= 1
        /\ 0 + 1 = 1 /\ 0 \in Int /\ 1 \in Int
    BY ServiceThreadAssumption
  <1>1. dropped(NewQueue) = NewQueue
    BY <1>0 DEF dropped, NewQueue
  <1>2. Wait(NewQueue, "empty") = Queue(0, 0, queue_size - 1, Nobody)
    BY <1>0, QueueNew, QueueSteps
  <1>3. [Wait(NewQueue, "empty") EXCEPT !.size = @ + 1] = Queue(1, 0, queue_size - 1, Nobody)
    BY <1>0, <1>2 DEF Queue
  <1>4. Post(Queue(1, 0, queue_size - 1, Nobody), "full") = Queue(1, 1, queue_size - 1, Nobody)
    BY <1>0, QueueSteps
  <1>5. Lock(Queue(1, 1, queue_size - 1, Nobody), t) = Token(1, t)
    BY DEF Lock, Token, Queue
  <1> QED BY <1>1, <1>3, <1>4, <1>5 DEF Push

\* Clearing an empty queue changes nothing.
LEMMA ClearNew == Clear(NewQueue) = NewQueue
  <1>1. 0 - 0 = 0 /\ queue_size + 0 = queue_size
    BY ServiceThreadAssumption
  <1>2. NewQueue.full = 0 /\ NewQueue.size = 0 /\ NewQueue.empty = queue_size
    BY DEF NewQueue
  <1>3. Clear(NewQueue) = [NewQueue EXCEPT !.size = 0, !.full = 0, !.empty = queue_size]
    BY <1>1, <1>2, Zenon DEF Clear
  <1> QED BY <1>3 DEF NewQueue

\* The token is unlocked, waited for and taken.
LEMMA TokenSteps ==
    ASSUME NEW t, NEW n \in {0, 1}
    PROVE  /\ Unlock(Token(n, t)) = Token(n, Nobody)
           /\ Wait(Token(1, t), "full") = Token(0, t)
           /\ pop(Token(0, Nobody)) = NewQueue
           /\ Token(n, t).lock = t
           /\ waits(Token(n, t), "full") <=> n = 0
           /\ waits(NewQueue, "full")
  <1>0. /\ queue_size - 1 \in Int /\ queue_size - 1 + 1 = queue_size
        /\ 0 \in Int /\ 1 \in Int /\ 1 - 1 = 0
    BY ServiceThreadAssumption
  <1>1. Unlock(Token(n, t)) = Token(n, Nobody)
    BY DEF Unlock, Token, Queue
  <1>2. Wait(Token(1, t), "full") = Token(0, t)
    BY <1>0, QueueSteps DEF Token
  <1>3. [Token(0, Nobody) EXCEPT !.size = @ - 1] = Queue(0, 0, queue_size - 1, Nobody)
    BY <1>0 DEF Token, Queue
  <1>4. Post(Queue(0, 0, queue_size - 1, Nobody), "empty") = NewQueue
    BY <1>0, QueueSteps, QueueNew
  <1>5. Token(n, t).lock = t /\ (waits(Token(n, t), "full") <=> n = 0) /\ waits(NewQueue, "full")
    BY DEF Token, Queue, waits, NewQueue
  <1> QED BY <1>1, <1>2, <1>3, <1>4, <1>5 DEF pop

\* The one thread that is there goes from place to place.
LEMMA OnlyGoes ==
    ASSUME ThreadTypeOK, NEW w \in Worker, NEW from, Only(w, from), NEW to, go(w, to)
    PROVE  Only(w, to)'
  BY DEF ThreadTypeOK, Only, go

\* A thread that is there is the one the caller waits for or has started.
LEMMA WhoseThread ==
    ASSUME Phases, NEW w \in Worker, worker[w] # "none"
    PROVE  \/ /\ caller \in {"pop_start", "popped_start"} /\ context /\ ~deleted
              /\ m_stop_lock_queue = NewQueue
              /\ Starts(w, IF caller = "pop_start" THEN 1 ELSE 0)
           \/ /\ caller \in {"idle", "SynStop", "stopping"} /\ context /\ ~deleted /\ m_bRunning
              /\ m_start_lock_queue = NewQueue /\ m_stop_lock_queue = NewQueue
              /\ Only(w, "run")
           \/ /\ caller \in {"pop_stop", "popped_stop"} /\ context /\ ~deleted /\ ~m_bRunning
              /\ m_start_lock_queue = NewQueue
              /\ Stops(w, IF caller = "pop_stop" THEN 1 ELSE 0)
  <1>1. CASE Down
    BY <1>1 DEF Down, Gone
  <1>2. CASE Starting
    <2>1. PICK v \in Worker : Starts(v, IF caller = "pop_start" THEN 1 ELSE 0)
      BY <1>2 DEF Starting
    <2>2. v = w
      BY <2>1 DEF Starts, Only
    <2> QED BY <1>2, <2>1, <2>2 DEF Starting
  <1>3. CASE Up
    <2>1. PICK v \in Worker : Only(v, "run")
      BY <1>3 DEF Up
    <2>2. v = w
      BY <2>1 DEF Only
    <2> QED BY <1>3, <2>1, <2>2 DEF Up
  <1>4. CASE Stopping
    <2>1. PICK v \in Worker : Stops(v, IF caller = "pop_stop" THEN 1 ELSE 0)
      BY <1>4 DEF Stopping
    <2>2. v = w
      BY <2>1 DEF Stops, Only, Gone
    <2> QED BY <1>4, <2>1, <2>2 DEF Stopping
  <1> QED BY <1>1, <1>2, <1>3, <1>4 DEF Phases

\* A step of a thread leads to the next place of its start or its stop.
LEMMA WorkerSteps ==
    ASSUME ThreadTypeOK, Phases, NEW w \in Worker, WorkerStep(w)
    PROVE  Phases'
  <1> DEFINE full == IF caller = "pop_start" THEN 1 ELSE 0
             tokens == IF caller = "pop_stop" THEN 1 ELSE 0
             starts == /\ caller \in {"pop_start", "popped_start"} /\ context /\ ~deleted
                       /\ m_stop_lock_queue = NewQueue
             stops == /\ caller \in {"pop_stop", "popped_stop"} /\ context /\ ~deleted /\ ~m_bRunning
                      /\ m_start_lock_queue = NewQueue
  <1>0. worker[w] # "none" /\ full \in {0, 1} /\ tokens \in {0, 1}
    BY DEF WorkerStep, thread_begins, push_start, unlock_start, run, has_end, push_stop, unlock_stop
  <1>1. \/ starts /\ Starts(w, full)
        \/ caller \in {"idle", "SynStop", "stopping"} /\ m_bRunning /\ Only(w, "run")
        \/ stops /\ Stops(w, tokens)
    BY <1>0, WhoseThread
  <1>2. ASSUME starts, UNCHANGED <<caller, context, deleted, m_stop_lock_queue>>, Starts(w, full)'
        PROVE  Phases'
    BY <1>2 DEF Phases, Starting
  <1>3. ASSUME stops, UNCHANGED <<caller, context, deleted, m_start_lock_queue>>, ~m_bRunning',
               Stops(w, tokens)'
        PROVE  Phases'
    BY <1>3 DEF Phases, Stopping
  <1>4. CASE thread_begins(w)
    <2>1. starts /\ Only(w, "created") /\ full = 1 /\ m_start_lock_queue = NewQueue
      BY <1>1, <1>4 DEF Starts, Stops, Only, Gone, thread_begins
    <2>2. Only(w, "push_start")'
      BY <1>4, <2>1, OnlyGoes DEF thread_begins
    <2> QED BY <1>2, <1>4, <2>1, <2>2 DEF thread_begins, Starts
  <1>5. CASE push_start(w)
    <2>1. starts /\ Only(w, "push_start") /\ full = 1 /\ m_start_lock_queue = NewQueue /\ m_bRunning
      BY <1>1, <1>5 DEF Starts, Stops, Only, Gone, push_start
    <2>2. Only(w, "pushed_start")'
      BY <1>5, <2>1, OnlyGoes DEF push_start
    <2>3. m_start_lock_queue' = Token(1, w)
      BY <1>5, <2>1, PushNew DEF push_start
    <2> QED BY <1>2, <1>5, <2>1, <2>2, <2>3 DEF push_start, Starts
  <1>6. CASE unlock_start(w)
    <2>1. starts /\ Only(w, "pushed_start") /\ m_start_lock_queue = Token(full, w) /\ m_bRunning
      BY <1>1, <1>6 DEF Starts, Stops, Only, Gone, unlock_start
    <2>2. Only(w, "run")'
      BY <1>6, <2>1, OnlyGoes DEF unlock_start
    <2>3. m_start_lock_queue' = Token(full, Nobody)
      BY <1>0, <1>6, <2>1, TokenSteps DEF unlock_start
    <2> QED BY <1>2, <1>6, <2>1, <2>2, <2>3 DEF unlock_start, Starts
  <1>7. CASE run(w)
    <2>1. stops /\ Only(w, "run") /\ tokens = 1 /\ m_stop_lock_queue = NewQueue
      BY <1>1, <1>7 DEF Starts, Stops, Only, Gone, run
    <2>2. Only(w, "ended")'
      BY <1>7, <2>1, OnlyGoes DEF run
    <2> QED BY <1>3, <1>7, <2>1, <2>2 DEF run, Stops
  <1>8. CASE has_end(w)
    <2>1. stops /\ Only(w, "ended") /\ tokens = 1 /\ m_stop_lock_queue = NewQueue
      BY <1>1, <1>8 DEF Starts, Stops, Only, Gone, has_end
    <2>2. Only(w, "push_stop")'
      BY <1>8, <2>1, OnlyGoes DEF has_end
    <2> QED BY <1>3, <1>8, <2>1, <2>2 DEF has_end, Stops
  <1>9. CASE push_stop(w)
    <2>1. stops /\ Only(w, "push_stop") /\ tokens = 1 /\ m_stop_lock_queue = NewQueue
      BY <1>1, <1>9 DEF Starts, Stops, Only, Gone, push_stop
    <2>2. Only(w, "pushed_stop")'
      BY <1>9, <2>1, OnlyGoes DEF push_stop
    <2>3. m_stop_lock_queue' = Token(1, w)
      BY <1>9, <2>1, PushNew DEF push_stop
    <2> QED BY <1>3, <1>9, <2>1, <2>2, <2>3 DEF push_stop, Stops
  <1>10. CASE unlock_stop(w)
    <2>1. stops /\ Only(w, "pushed_stop") /\ m_stop_lock_queue = Token(tokens, w)
      BY <1>1, <1>10 DEF Starts, Stops, Only, Gone, unlock_stop
    <2>2. Gone'
      BY <1>10, <2>1 DEF unlock_stop, go, Gone, Only, ThreadTypeOK
    <2>3. m_stop_lock_queue' = Token(tokens, Nobody)
      BY <1>0, <1>10, <2>1, TokenSteps DEF unlock_stop
    <2>4. caller' = caller /\ tokens' = tokens
      BY <1>10 DEF unlock_stop
    <2>5. Stops(w, tokens)'
      BY <2>2, <2>3, <2>4 DEF Stops
    <2> QED BY <1>3, <1>10, <2>1, <2>5 DEF unlock_stop
  <1> QED BY <1>4, <1>5, <1>6, <1>7, <1>8, <1>9, <1>10 DEF WorkerStep

\* A step of the io thread leads from one phase to the next, and none is its
\* timeout.
LEMMA CallerSteps ==
    ASSUME ThreadTypeOK, ~delayed, Phases, CallerStep
    PROVE  Phases' /\ timed_out' = timed_out
  <1> USE DEF Phases
  <1>1. CASE start
    <2>1. Down /\ caller = "idle"
      BY <1>1 DEF start, Down, Starting, Up, Stopping
    <2>2. Down'
      BY <1>1, <2>1 DEF start, Down, Gone
    <2> QED BY <1>1, <2>2 DEF start
  <1>2. CASE SynStart
    <2>1. Down /\ caller = "SynStart"
      BY <1>2 DEF SynStart, Down, Starting, Up, Stopping
    <2>2. Down'
      BY <1>2, <2>1, ClearNew DEF SynStart, Down, Gone
    <2> QED BY <1>2, <2>2 DEF SynStart
  <1>3. CASE Start
    <2>1. Down /\ caller = "Start"
      BY <1>3 DEF Start, Down, Starting, Up, Stopping
    <2>2. PICK w \in Worker : worker[w] = "none" /\ go(w, "created")
      BY <1>3 DEF Start
    <2>3. Only(w, "created")'
      BY <2>1, <2>2 DEF Down, Gone, go, Only, ThreadTypeOK
    <2>4. caller' = "pop_start" /\ Starts(w, 1)'
      BY <1>3, <2>1, <2>3 DEF Start, Starts, Down
    <2>5. Starting'
      BY <1>3, <2>1, <2>4 DEF Start, Starting, Down
    <2> QED BY <1>3, <2>5 DEF Start
  <1>4. CASE SynStop
    <2>1. CASE caller = "SynStop"
      <3>1. Up
        BY <2>1 DEF Down, Starting, Stopping
      <3>2. Up'
        BY <1>4, <2>1, <3>1, ClearNew DEF SynStop, Up, Only
      <3> QED BY <1>4, <3>2 DEF SynStop
    <2>2. CASE caller = "stopping"
      <3>1. Up
        BY <2>2 DEF Down, Starting, Stopping
      <3>2. PICK w \in Worker : Only(w, "run")
        BY <3>1 DEF Up
      <3>3. caller' = "pop_stop" /\ Stops(w, 1)'
        BY <1>4, <2>2, <3>1, <3>2 DEF SynStop, Stops, Up, Only
      <3>4. Stopping'
        BY <1>4, <2>2, <3>1, <3>3 DEF SynStop, Stopping, Up
      <3> QED BY <1>4, <3>4 DEF SynStop
    <2> QED BY <1>4, <2>1, <2>2 DEF SynStop
  <1>5. CASE Pop_start
    <2>1. Starting
      BY <1>5 DEF Pop_start, Down, Up, Stopping
    <2>2. PICK w \in Worker : Starts(w, IF caller = "pop_start" THEN 1 ELSE 0)
      BY <2>1 DEF Starting
    <2>3. CASE caller = "pop_start"
      <3>1. Starts(w, 1) /\ m_start_lock_queue # NewQueue
        BY <1>5, <2>2, <2>3, TokenSteps DEF Pop_start
      <3>2. \/ Only(w, "pushed_start") /\ m_start_lock_queue = Token(1, w)
            \/ Only(w, "run") /\ m_start_lock_queue = Token(1, Nobody)
        BY <3>1 DEF Starts
      <3>3. /\ m_start_lock_queue' = Wait(m_start_lock_queue, "full")
            /\ caller' = "popped_start" /\ worker' = worker /\ m_bRunning' = m_bRunning
        BY <1>5, <2>3 DEF Pop_start
      <3>4. m_bRunning
        BY <3>1, <3>2 DEF Starts, Only
      <3>5. m_start_lock_queue = Token(1, w) => m_start_lock_queue' = Token(0, w)
        BY <3>3, TokenSteps
      <3>6. m_start_lock_queue = Token(1, Nobody) => m_start_lock_queue' = Token(0, Nobody)
        BY <3>3, TokenSteps
      <3>7. Starts(w, 0)'
        BY <3>2, <3>3, <3>4, <3>5, <3>6 DEF Starts, Only
      <3>8. Starting'
        BY <1>5, <2>1, <3>3, <3>7 DEF Pop_start, Starting
      <3> QED BY <1>5, <3>8 DEF Pop_start
    <2>4. CASE caller = "popped_start"
      <3>1. Starts(w, 0) /\ m_start_lock_queue.lock = Nobody /\ caller' = "idle"
        BY <1>5, <2>2, <2>4 DEF Pop_start
      <3>2. m_start_lock_queue = Token(0, w) => m_start_lock_queue.lock = w
        BY TokenSteps
      <3>3. Only(w, "run") /\ m_start_lock_queue = Token(0, Nobody) /\ m_bRunning
        BY <3>1, <3>2, ServiceThreadAssumption DEF Starts
      <3>4. m_start_lock_queue' = NewQueue
        BY <1>5, <2>4, <3>3, TokenSteps DEF Pop_start
      <3>5. Up'
        BY <1>5, <2>1, <3>1, <3>3, <3>4 DEF Pop_start, Up, Starting, Only
      <3> QED BY <1>5, <3>5 DEF Pop_start
    <2> QED BY <1>5, <2>3, <2>4 DEF Pop_start
  <1>6. CASE Pop_stop
    <2>1. Stopping
      BY <1>6 DEF Pop_stop, Down, Up, Starting
    <2>2. PICK w \in Worker : Stops(w, IF caller = "pop_stop" THEN 1 ELSE 0)
      BY <2>1 DEF Stopping
    <2>3. CASE caller = "pop_stop"
      <3>1. Stops(w, 1) /\ m_stop_lock_queue # NewQueue
        BY <1>6, <2>2, <2>3, TokenSteps DEF Pop_stop
      <3>2. \/ Only(w, "pushed_stop") /\ m_stop_lock_queue = Token(1, w)
            \/ Gone /\ m_stop_lock_queue = Token(1, Nobody)
        BY <3>1 DEF Stops
      <3>3. /\ m_stop_lock_queue' = Wait(m_stop_lock_queue, "full")
            /\ caller' = "popped_stop" /\ worker' = worker
        BY <1>6, <2>3 DEF Pop_stop
      <3>4. m_stop_lock_queue = Token(1, w) => m_stop_lock_queue' = Token(0, w)
        BY <3>3, TokenSteps
      <3>5. m_stop_lock_queue = Token(1, Nobody) => m_stop_lock_queue' = Token(0, Nobody)
        BY <3>3, TokenSteps
      <3>6. Stops(w, 0)'
        BY <3>2, <3>3, <3>4, <3>5 DEF Stops, Only, Gone
      <3>7. Stopping'
        BY <1>6, <2>1, <3>3, <3>6 DEF Pop_stop, Stopping
      <3> QED BY <1>6, <3>7 DEF Pop_stop
    <2>4. CASE caller = "popped_stop"
      <3>1. Stops(w, 0) /\ m_stop_lock_queue.lock = Nobody /\ caller' = "destroy"
        BY <1>6, <2>2, <2>4 DEF Pop_stop
      <3>2. m_stop_lock_queue = Token(0, w) => m_stop_lock_queue.lock = w
        BY TokenSteps
      <3>3. Gone /\ m_stop_lock_queue = Token(0, Nobody)
        BY <3>1, <3>2, ServiceThreadAssumption DEF Stops
      <3>4. m_stop_lock_queue' = NewQueue
        BY <1>6, <2>4, <3>3, TokenSteps DEF Pop_stop
      <3>5. Down'
        BY <1>6, <2>1, <3>1, <3>3, <3>4 DEF Pop_stop, Down, Stopping, Gone
      <3> QED BY <1>6, <3>5 DEF Pop_stop
    <2> QED BY <1>6, <2>3, <2>4 DEF Pop_stop
  <1>7. CASE Timeout
    <2>1. CASE caller = "pop_start"
      <3>1. Starting
        BY <2>1 DEF Down, Up, Stopping
      <3>2. PICK w \in Worker : Starts(w, 1)
        BY <2>1, <3>1 DEF Starting
      <3>3. ~moves(w) /\ waits(m_start_lock_queue, "full")
        BY <1>7, <2>1 DEF Timeout
      <3>4. Only(w, "run") /\ m_start_lock_queue = Token(1, Nobody)
        BY <3>2, <3>3 DEF Starts, moves, Only
      <3> QED BY <3>3, <3>4, TokenSteps
    <2>2. CASE caller = "pop_stop"
      <3>1. Stopping
        BY <2>2 DEF Down, Up, Starting
      <3>2. PICK w \in Worker : Stops(w, 1)
        BY <2>2, <3>1 DEF Stopping
      <3>3. ~moves(w) /\ waits(m_stop_lock_queue, "full")
        BY <1>7, <2>2 DEF Timeout
      <3>4. m_stop_lock_queue = Token(1, Nobody)
        BY <3>1, <3>2, <3>3 DEF Stops, moves, Only, Stopping
      <3> QED BY <3>3, <3>4, TokenSteps
    <2> QED BY <1>7, <2>1, <2>2 DEF Timeout
  <1>8. CASE stop
    <2>1. CASE Down
      <3>1. Down'
        BY <1>8, <2>1 DEF stop, Down, Gone
      <3> QED BY <1>8, <3>1 DEF stop
    <2>2. CASE Up
      <3>1. Up'
        BY <1>8, <2>2 DEF stop, Up, Only
      <3> QED BY <1>8, <3>1 DEF stop
    <2> QED BY <1>8, <2>1, <2>2 DEF stop, Starting, Stopping
  <1>9. CASE destroy
    <2>1. Down
      BY <1>9 DEF destroy, Starting, Up, Stopping
    <2>2. Down'
      BY <1>9, <2>1 DEF destroy, Down, Gone
    <2> QED BY <1>9, <2>2 DEF destroy
  <1> QED BY <1>1, <1>2, <1>3, <1>4, <1>5, <1>6, <1>7, <1>8, <1>9 DEF CallerStep

\* Whatever the threads do, a start and a stop of the service find each
\* other's thread: so long as none is held up for as long as a wait lasts, no
\* wait ends by its timeout, and the context and the queues are there for the
\* last use a thread makes of them.
THEOREM StartFindsStop == ThreadSpec => []ThreadInv
  <1>1. ThreadInit => ThreadInvariant
    BY DEF ThreadInit, ThreadInvariant, ThreadTypeOK, Phases, Down, Gone
  <1>2. ThreadInvariant /\ [ThreadNext]_threadVars => ThreadInvariant'
    <2> SUFFICES ASSUME ThreadInvariant, [ThreadNext]_threadVars PROVE ThreadInvariant'
      OBVIOUS
    <2>1. CASE CallerStep
      <3>1. delayed' = delayed
        BY <2>1 DEF CallerStep, start, SynStart, Start, SynStop, Pop_start, Pop_stop, Timeout, stop, destroy
      <3>2. ThreadTypeOK'
        BY <2>1 DEF ThreadInvariant, ThreadTypeOK, go, CallerStep, start, SynStart, Start, SynStop, Pop_start,
                    Pop_stop, Timeout, stop, destroy
      <3> QED BY <2>1, <3>1, <3>2, CallerSteps DEF ThreadInvariant
    <2>2. ASSUME NEW w \in Worker, WorkerStep(w) PROVE ThreadInvariant'
      <3>1. delayed' = delayed /\ timed_out' = timed_out
        BY <2>2 DEF WorkerStep, thread_begins, push_start, unlock_start, run, has_end, push_stop, unlock_stop
      <3>2. ThreadTypeOK'
        BY <2>2 DEF ThreadInvariant, ThreadTypeOK, go, WorkerStep, thread_begins, push_start, unlock_start, run,
                    has_end, push_stop, unlock_stop
      <3> QED BY <2>2, <3>1, <3>2, WorkerSteps DEF ThreadInvariant
    <2>3. CASE UNCHANGED threadVars
      BY <2>3 DEF threadVars, ThreadInvariant, ThreadTypeOK, Phases, Down, Starting, Up, Stopping, Gone, Only,
                  Starts, Stops
    <2> QED BY <2>1, <2>2, <2>3 DEF ThreadNext
  <1>3. ThreadInvariant => ThreadInv
    BY DEF ThreadInvariant, Phases, Down, Starting, Up, Stopping, Gone, Only, Starts, Stops, ThreadInv,
           OutlivesThread, NoTokenLost
  <1> QED BY <1>1, <1>2, <1>3, PTL DEF ThreadSpec

-----------------------------------------------------------------------------
(* The video room, for any members and any bounds on its calls.            *)

Bee == [initialized : BOOLEAN, session : BOOLEAN]
Media == SUBSET {"audio", "video"}
Source == {"none", "open", "failed"}
Commanded == {"none", "refused", "unsent", "sent", "left"}
Room == [registered : BOOLEAN, sink : BOOLEAN, last : Commanded, media : Media,
         video : Source, audio : Source, asked : SUBSET ((Uid \cup {"nil"}) \X {"local"})]
RoomCalls == {"initialize", "uninitialize", "open", "close", "join", "leave", "connect", "disconnect",
          "setup", "input_level", "output_level", "camera"}
Block == [op : RoomCalls \cup Notifications, uid : Uid \cup {"nil"}, media : Media,
          ec : Int]

RoomTypeOK ==
    /\ platform \in {"ios", "win"} /\ bee \in Bee /\ room \in Room
    /\ q \in Seq(Block) /\ mainq \in Seq(BOOLEAN) /\ audio \in BOOLEAN

\* What the audio session will be when the blocks of the main queue have run.
Settled(blocks) == IF blocks = <<>> THEN audio ELSE blocks[Len(blocks)]

\* The last command leaves the audio session on.
On(r) == r.last \in {"sent", "unsent"}

\* On iOS the audio session settles to what the last join or leave made of it;
\* on Windows it is never touched.  Who was told that the room was left has no
\* sink any more.
RoomInvariant ==
    /\ RoomTypeOK
    /\ platform = "ios" => (Settled(mainq) <=> On(room))
    /\ platform = "win" => q = <<>> /\ mainq = <<>> /\ ~audio
    /\ told.what = "leave" => ~room.sink
-----------------------------------------------------------------------------

\* The block that is run last decides what the audio session settles to; no
\* block brings the sink back.
Settles(d) ==
    /\ d.room \in Room /\ d.blocks \in Seq(BOOLEAN)
    /\ \/ d.blocks = <<>> /\ d.room.last = room.last
       \/ d.blocks # <<>> /\ (d.blocks[Len(d.blocks)] <=> On(d.room))
    /\ d.room.sink => room.sink

\* One outcome, put together.
LEMMA DidSettles ==
    ASSUME NEW r \in Room, NEW done, NEW blocks \in Seq(BOOLEAN), r.sink => room.sink,
           \/ blocks = <<>> /\ r.last = room.last
           \/ blocks # <<>> /\ (blocks[Len(blocks)] <=> On(r))
    PROVE  Settles(Did(r, done, blocks)) /\ Did(r, done, blocks).room = r
  BY DEF Settles, Did

\* What is settled once the blocks of the main queue have been followed by
\* others, and once the first of them has run.
LEMMA SettledLater ==
    ASSUME NEW a \in Seq(BOOLEAN), NEW b \in Seq(BOOLEAN)
    PROVE  /\ a \o b \in Seq(BOOLEAN)
           /\ b = <<>> => a \o b = a
           /\ b # <<>> => a \o b # <<>> /\ (a \o b)[Len(a \o b)] = b[Len(b)]
           /\ a # <<>> => /\ Head(a) \in BOOLEAN /\ Tail(a) \in Seq(BOOLEAN)
                          /\ Tail(a) = <<>> => Head(a) = a[Len(a)]
                          /\ Tail(a) # <<>> => Tail(a)[Len(Tail(a))] = a[Len(a)]
  <1>1. a \o b \in Seq(BOOLEAN) /\ Len(a \o b) = Len(a) + Len(b)
    BY ConcatProperties
  <1>2. b = <<>> => a \o b = a
    BY ConcatEmptySeq
  <1>3. ASSUME b # <<>> PROVE a \o b # <<>> /\ (a \o b)[Len(a \o b)] = b[Len(b)]
    <2>1. Len(b) \in Nat /\ Len(b) > 0 /\ Len(a) \in Nat
      BY <1>3
    <2>2. Len(a) + Len(b) \in 1 .. Len(a) + Len(b) /\ ~(Len(a) + Len(b) <= Len(a))
      BY <2>1
    <2>3. (a \o b)[Len(a) + Len(b)] = b[Len(a) + Len(b) - Len(a)]
      BY <2>2, ConcatProperties
    <2>4. Len(a) + Len(b) - Len(a) = Len(b)
      BY <2>1
    <2> QED BY <1>1, <2>1, <2>3, <2>4
  <1>4. ASSUME a # <<>>
        PROVE  /\ Head(a) \in BOOLEAN /\ Tail(a) \in Seq(BOOLEAN)
               /\ Tail(a) = <<>> => Head(a) = a[Len(a)]
               /\ Tail(a) # <<>> => Tail(a)[Len(Tail(a))] = a[Len(a)]
    <2>1. Head(a) = a[1] /\ Head(a) \in BOOLEAN /\ Tail(a) \in Seq(BOOLEAN) /\ Len(a) \in Nat /\ Len(a) > 0
      BY <1>4
    <2>2. Len(a) \in Nat
      BY <1>4
    <2>3. \A i \in 1 .. Len(Tail(a)) : Tail(a)[i] = a[i + 1]
      BY <1>4, HeadTailProperties
    <2>4. Len(Tail(a)) = Len(a) - 1
      BY <1>4, HeadTailProperties
    <2>5. ASSUME Tail(a) = <<>> PROVE Head(a) = a[Len(a)]
      <3>1. Len(Tail(a)) = 0
        BY <2>5, EmptySeq, Zenon
      <3>2. Len(a) = 1
        BY <2>4, <2>2, <3>1
      <3>3. a[Len(a)] = a[1]
        BY <3>2, Zenon
      <3> QED BY <2>1, <3>3, Zenon
    <2>6. ASSUME Tail(a) # <<>> PROVE Tail(a)[Len(Tail(a))] = a[Len(a)]
      <3>1. Len(Tail(a)) \in Nat \ {0}
        BY <2>1, <2>6, EmptySeq
      <3>2. Len(Tail(a)) \in 1 .. Len(Tail(a)) /\ Len(Tail(a)) + 1 = Len(a)
        BY <2>1, <2>4, <3>1
      <3> QED BY <2>3, <3>2
    <2> QED BY <2>1, <2>5, <2>6
  <1> QED BY <1>1, <1>2, <1>3, <1>4

\* One block, or two.
LEMMA FewBlocks ==
    ASSUME NEW x \in BOOLEAN, NEW y \in BOOLEAN
    PROVE  /\ <<x>> \in Seq(BOOLEAN) /\ <<x>> # <<>> /\ <<x>>[Len(<<x>>)] = x
           /\ <<x>> \o <<y>> \in Seq(BOOLEAN) /\ <<x>> \o <<y>> # <<>>
           /\ (<<x>> \o <<y>>)[Len(<<x>> \o <<y>>)] = y
  <1>1. \A z \in BOOLEAN : <<z>> \in Seq(BOOLEAN) /\ <<z>> # <<>> /\ <<z>>[Len(<<z>>)] = z
    OBVIOUS
  <1> QED BY <1>1, SettledLater

\* A join, whatever becomes of it.
LEMMA JoinSettles ==
    ASSUME RoomTypeOK, NEW valid \in BOOLEAN, NEW sent \in BOOLEAN, NEW ok \in BOOLEAN
    PROVE  Settles(joinInternal(room, valid, sent, ok))
  <1> DEFINE x == to_join(room, valid, ok)
             how == joined(x, valid, sent, ok)
             r == [x EXCEPT !.last = how]
             blocks == IF how = "refused" THEN enableAudioSession \o disableAudioSession ELSE enableAudioSession
  <1>1. x \in Room /\ x.sink = room.sink
    BY DEF RoomTypeOK, Room, Bee, Register, to_join
  <1>2. how \in {"refused", "unsent", "sent"}
    BY DEF joined
  <1>3. joinInternal(room, valid, sent, ok) = Did(r, how # "refused", blocks)
    BY DEF joinInternal
  <1> HIDE DEF x, how
  <1>4. r \in Room /\ r.sink = room.sink /\ r.last = how
    BY <1>1, <1>2 DEF Room, Commanded
  <1>5. blocks \in Seq(BOOLEAN) /\ blocks # <<>> /\ (blocks[Len(blocks)] <=> how # "refused")
    <2>1. CASE how = "refused"
      BY <2>1, FewBlocks, Zenon DEF enableAudioSession, disableAudioSession
    <2>2. CASE how # "refused"
      BY <2>2, FewBlocks, Zenon DEF enableAudioSession, disableAudioSession
    <2> QED BY <2>1, <2>2
  <1>6. On(r) <=> how # "refused"
    BY <1>2, <1>4 DEF On
  <1>7. (how # "refused") \in BOOLEAN
    OBVIOUS
  <1> HIDE DEF r, blocks
  <1> QED BY <1>3, <1>4, <1>5, <1>6, <1>7, DidSettles

\* Leaving takes the sink.
LEMMA LeaveSettles ==
    ASSUME RoomTypeOK, NEW sent \in BOOLEAN, NEW ok \in BOOLEAN
    PROVE  Settles(leaveInternal(room, sent, ok)) /\ ~leaveInternal(room, sent, ok).room.sink
  <1> DEFINE r == [unRegister(room) EXCEPT !.last = "left", !.sink = FALSE]
             blocks == IF room.registered /\ sent THEN disableAudioSession \o disableAudioSession
                       ELSE disableAudioSession
             done == sends(room, sent, ok)
  <1>1. r \in Room /\ ~r.sink /\ ~On(r)
    BY DEF RoomTypeOK, Room, Commanded, On, unRegister
  <1>2. blocks \in Seq(BOOLEAN) /\ blocks # <<>> /\ ~blocks[Len(blocks)]
    BY FewBlocks, Zenon DEF disableAudioSession
  <1>3. leaveInternal(room, sent, ok) = Did(r, done, blocks)
    BY DEF leaveInternal
  <1> HIDE DEF r, blocks, done
  <1>5. blocks # <<>> /\ (blocks[Len(blocks)] <=> On(r))
    BY <1>1, <1>2, Zenon
  <1>6. r.sink => room.sink
    BY <1>1
  <1>4. Settles(Did(r, done, blocks)) /\ Did(r, done, blocks).room = r
    BY <1>1, <1>2, <1>5, <1>6, DidSettles
  <1> QED BY <1>1, <1>3, <1>4

\* The push stream, which has nothing to do with being in the room.
LEMMA SetupSettles ==
    ASSUME RoomTypeOK, NEW media \in Media, NEW ok \in BOOLEAN
    PROVE  /\ Settles(setupPushStreamInternal(room, media, ok))
           /\ setupPushStreamInternal(room, media, ok).room.sink = room.sink
  <1> DEFINE video == IF "video" \in media THEN open_source("none", ok) ELSE "none"
             sound == IF "audio" \in media /\ video # "failed" THEN open_source("none", ok) ELSE "none"
             r == [room EXCEPT !.media = media, !.video = video, !.audio = sound]
  <1>1. video \in Source /\ sound \in Source
    BY DEF open_source, Source
  <1>2. r \in Room /\ r.sink = room.sink /\ r.last = room.last
    BY <1>1 DEF RoomTypeOK, Room
  <1>3. setupPushStreamInternal(room, media, ok) = Did(r, TRUE, <<>>)
    BY DEF setupPushStreamInternal
  <1>4. <<>> \in Seq(BOOLEAN)
    OBVIOUS
  <1> HIDE DEF video, sound, r
  <1>5. Settles(Did(r, TRUE, <<>>)) /\ Did(r, TRUE, <<>>).room = r
    BY <1>2, <1>4, DidSettles
  <1> QED BY <1>2, <1>3, <1>5

\* Whatever the block is.
LEMMA RanSettles ==
    ASSUME RoomTypeOK, NEW b \in Block, NEW sent \in BOOLEAN, NEW ok \in BOOLEAN
    PROVE  Settles(ran(b, sent, ok)) /\ (b.op = "leave" => ~ran(b, sent, ok).room.sink)
  <1>1. CASE b.op = "join"
    <2>1. (b.uid # "nil") \in BOOLEAN
      OBVIOUS
    <2>2. ran(b, sent, ok) = joinInternal(room, b.uid # "nil", sent, ok)
      BY <1>1 DEF ran
    <2> QED BY <1>1, <2>1, <2>2, JoinSettles
  <1>2. CASE b.op = "leave"
    <2>1. ran(b, sent, ok) = leaveInternal(room, sent, ok)
      BY <1>2 DEF ran
    <2> QED BY <2>1, LeaveSettles
  <1>3. CASE b.op = "setup"
    BY <1>3, SetupSettles DEF ran, Block
  <1>4. ASSUME NEW done PROVE Settles(Did(room, done, <<>>))
    BY DEF Settles, Did, RoomTypeOK
  <1>5. CASE b.op = "output_level"
    <2> DEFINE r == [room EXCEPT !.asked = IF sent /\ execute(room, ok)
                                          THEN @ \cup {<<b.uid, "local">>} ELSE @]
    <2>1. r \in Room /\ r.sink = room.sink /\ r.last = room.last
      <3> DEFINE A == IF sent /\ execute(room, ok) THEN room.asked \cup {<<b.uid, "local">>}
                      ELSE room.asked
      <3>1. room \in Room /\ b.uid \in Uid \cup {"nil"}
        BY DEF RoomTypeOK, Block
      <3>2. A \in SUBSET ((Uid \cup {"nil"}) \X {"local"})
        BY <3>1 DEF Room
      <3>3. r = [room EXCEPT !.asked = A]
        OBVIOUS
      <3> HIDE DEF A, r
      <3> QED BY <3>1, <3>2, <3>3 DEF Room
    <2>2. ran(b, sent, ok) = Did(r, sends(room, sent, ok), <<>>)
      BY <1>5 DEF ran, getAudioOutputLevelInternal
    <2>3. <<>> \in Seq(BOOLEAN)
      OBVIOUS
    <2> HIDE DEF r
    <2> QED BY <1>5, <2>1, <2>2, <2>3, DidSettles
  <1>6. CASE b.op \notin {"join", "leave", "setup", "output_level"}
    BY <1>4, <1>6 DEF ran, connectInternal, disconnectInternal, getAudioInputLevelInternal, switchCameraInternal
  <1> QED BY <1>1, <1>2, <1>3, <1>5, <1>6

-----------------------------------------------------------------------------

\* A call that does not touch the room is dispatched, or a notification.
LEMMA DispatchKeeps ==
    ASSUME RoomInvariant, platform = "ios", NEW b \in Block, q' = Append(q, b),
           UNCHANGED <<platform, bee, room, mainq, audio, told>>
    PROVE  RoomInvariant'
  <1>1. q' \in Seq(Block)
    BY AppendProperties DEF RoomInvariant, RoomTypeOK
  <1> QED BY <1>1 DEF RoomInvariant, RoomTypeOK, Settled

\* A call of the Windows room, which has no queue and no audio session.
LEMMA WinKeeps ==
    ASSUME RoomInvariant, platform = "win", room' \in Room, bee' \in Bee, room'.sink = room.sink,
           UNCHANGED <<platform, q, mainq, audio>>, told'.what = "leave" => told.what = "leave"
    PROVE  RoomInvariant'
  BY DEF RoomInvariant, RoomTypeOK, Settled

\* The next block of the queue is run.
LEMMA QueueKeeps ==
    ASSUME RoomInvariant, NEW sent \in BOOLEAN, NEW ok \in BOOLEAN, run_queue(sent, ok)
    PROVE  RoomInvariant'
  <1> DEFINE b == Head(q)
             d == ran(b, sent, ok)
  <1>1. q \in Seq(Block) /\ q # <<>> /\ platform = "ios" /\ RoomTypeOK
    BY DEF RoomInvariant, RoomTypeOK, run_queue
  <1>2. b \in Block /\ Tail(q) \in Seq(Block)
    BY <1>1, HeadTailProperties
  <1>3. Settles(d) /\ (b.op = "leave" => ~d.room.sink)
    BY <1>1, <1>2, RanSettles
  <1>4. /\ room' = d.room /\ mainq' = mainq \o d.blocks /\ q' = Tail(q)
        /\ platform' = platform /\ audio' = audio
    BY DEF run_queue
  <1>5. bee' \in Bee
    BY <1>1 DEF run_queue, RoomTypeOK, Bee, initializeInternal, uninitializeInternal, openSessionInternal,
                closeSessionInternal
  <1>6. told' = told \/ told'.what = b.op
    <2>1. told' = CASE b.op \in Notifications -> tell(b.op, notified(b))
                    [] b.op = "leave" -> tell(b.op, d.ok)
                    [] OTHER -> IF d.ok THEN told ELSE tell(b.op, FALSE)
      BY DEF run_queue
    <2> DEFINE op == b.op
               note == notified(b)
               done == d.ok
    <2>2. "leave" \notin Notifications
      BY DEF Notifications
    <2>3. CASE op \in Notifications
      <3>1. told' = tell(op, note)
        BY <2>1, <2>2, <2>3
      <3>2. told' = told \/ told'.what = op
        <4> HIDE DEF op, note
        <4> QED BY <3>1 DEF tell
      <3> QED BY <3>2
    <2>4. CASE op = "leave"
      <3>1. told' = tell(op, done)
        BY <2>1, <2>2, <2>4
      <3>2. told' = told \/ told'.what = op
        <4> HIDE DEF op, done
        <4> QED BY <3>1 DEF tell
      <3> QED BY <3>2
    <2>5. CASE op \notin Notifications /\ op # "leave"
      <3>1. told' = IF done THEN told ELSE tell(op, FALSE)
        BY <2>1, <2>5
      <3>2. told' = told \/ told'.what = op
        <4> HIDE DEF op, done
        <4> QED BY <3>1 DEF tell
      <3> QED BY <3>2
    <2> QED BY <2>3, <2>4, <2>5
  <1>7. told'.what = "leave" => ~room'.sink
    BY <1>3, <1>4, <1>6 DEF RoomInvariant, Settles
  <1> HIDE DEF b, d
  <1>8. mainq \in Seq(BOOLEAN) /\ d.blocks \in Seq(BOOLEAN)
    BY <1>1, <1>3 DEF RoomTypeOK, Settles
  <1>9. mainq' \in Seq(BOOLEAN)
    BY <1>4, <1>8, SettledLater
  <1>10. Settled(mainq)' <=> On(room)'
    <2>1. CASE d.blocks = <<>> /\ d.room.last = room.last
      <3>1. mainq' = mainq
        BY <1>4, <1>8, <2>1, SettledLater
      <3> QED BY <1>1, <1>4, <2>1, <3>1 DEF RoomInvariant, Settled, On
    <2>2. CASE d.blocks # <<>> /\ (d.blocks[Len(d.blocks)] <=> On(d.room))
      <3>1. mainq' # <<>> /\ mainq'[Len(mainq')] = d.blocks[Len(d.blocks)]
        BY <1>4, <1>8, <2>2, SettledLater
      <3> QED BY <1>4, <2>2, <3>1 DEF Settled, On
    <2> QED BY <1>3, <2>1, <2>2 DEF Settles
  <1>11. room' \in Room
    BY <1>3, <1>4 DEF Settles
  <1> QED BY <1>1, <1>2, <1>4, <1>5, <1>7, <1>9, <1>10, <1>11 DEF RoomInvariant, RoomTypeOK

\* The next block of the main queue is run.
LEMMA MainKeeps ==
    ASSUME RoomInvariant, run_main
    PROVE  RoomInvariant'
  <1>1. mainq \in Seq(BOOLEAN) /\ mainq # <<>> /\ platform = "ios"
    BY DEF RoomInvariant, RoomTypeOK, run_main
  <1>2. audio' = Head(mainq) /\ mainq' = Tail(mainq)
    BY DEF run_main
  <1>3. audio' \in BOOLEAN /\ mainq' \in Seq(BOOLEAN)
    BY <1>1, <1>2, SettledLater
  <1>4. Settled(mainq)' = mainq[Len(mainq)]
    <2>1. CASE Tail(mainq) = <<>>
      BY <1>1, <1>2, <2>1, SettledLater DEF Settled
    <2>2. CASE Tail(mainq) # <<>>
      BY <1>1, <1>2, <2>2, SettledLater DEF Settled
    <2> QED BY <2>1, <2>2
  <1>5. Settled(mainq)' = Settled(mainq)
    BY <1>1, <1>4 DEF Settled
  <1> QED BY <1>1, <1>3, <1>5 DEF RoomInvariant, RoomTypeOK, run_main

\* Every step keeps the invariant.
LEMMA RoomStep ==
    ASSUME RoomInvariant, [RoomNext]_roomVars
    PROVE  RoomInvariant'
  <1> USE RoomAssumption
  <1>1. ASSUME NEW uid \in Uid \cup {"nil"}, NEW op \in RoomCalls, NEW media \in Media,
               dispatch(block(op, uid, media, 0))
        PROVE  RoomInvariant'
    <2>1. block(op, uid, media, 0) \in Block
      BY DEF block, Block
    <2> QED BY <1>1, <2>1, DispatchKeeps DEF dispatch
  <1>2. {} \in Media /\ MediaTypes \subseteq Media
    BY DEF Media
  <1>3. CASE initialize \/ uninitialize \/ openSession \/ closeSession
    BY <1>1, <1>2, <1>3 DEF initialize, uninitialize, openSession, closeSession, RoomCalls
  <1>4. CASE leave \/ getAudioInputLevel \/ switchCamera
    BY <1>1, <1>2, <1>4 DEF leave, getAudioInputLevel, switchCamera, RoomCalls
  <1>5. ASSUME NEW uid \in Uid \cup {"nil"}, join(uid)
        PROVE  RoomInvariant'
    BY <1>1, <1>2, <1>5 DEF join, RoomCalls
  <1>6. ASSUME NEW uid \in Uid, connect(uid) \/ disconnect(uid) \/ getAudioOutputLevel(uid)
        PROVE  RoomInvariant'
    BY <1>1, <1>2, <1>6 DEF connect, disconnect, getAudioOutputLevel, RoomCalls
  <1>7. ASSUME NEW media \in MediaTypes, setupPushStream(media)
        PROVE  RoomInvariant'
    BY <1>1, <1>2, <1>7 DEF setupPushStream, RoomCalls
  <1>8. ASSUME NEW type \in 0 .. 7, NEW ec \in 0 .. 2, handleData(type, ec)
        PROVE  RoomInvariant'
    <2>1. type \in 0 .. 6
      BY <1>8 DEF handleData, toMessageType
    <2>2. handlers[type + 1] \in Notifications
      BY <2>1 DEF handlers, Notifications
    <2>3. block(handlers[type + 1], "nil", {}, ec) \in Block
      BY <1>2, <2>2 DEF block, Block
    <2> QED BY <1>8, <2>3, DispatchKeeps DEF handleData
  <1>9. ASSUME NEW type \in 0 .. 7, NEW ec \in 0 .. 2, win_handle_data(type, ec)
        PROVE  RoomInvariant'
    <2>1. handlers[type + 1] # "leave"
      BY <1>9 DEF win_handle_data, handlers
    <2> QED BY <1>9, <2>1, WinKeeps DEF win_handle_data, tell, RoomInvariant, RoomTypeOK
  <1>10. ASSUME NEW sent \in BOOLEAN, NEW ok \in BOOLEAN, run_queue(sent, ok)
         PROVE  RoomInvariant'
    BY <1>10, QueueKeeps
  <1>11. ASSUME NEW r \in Room, r.sink = room.sink, win_call(r)
         PROVE  RoomInvariant'
    BY <1>11, WinKeeps DEF win_call, RoomInvariant, RoomTypeOK
  <1>12. ASSUME NEW ok \in BOOLEAN, win_open(ok)
         PROVE  RoomInvariant'
    <2>1. bee' \in Bee
      BY <1>12 DEF win_open, RoomInvariant, RoomTypeOK, Bee, initializeInternal, openSessionInternal
    <2> QED BY <1>12, <2>1, WinKeeps DEF win_open, RoomInvariant, RoomTypeOK
  <1>13. room \in Room /\ bee \in Bee /\ RoomTypeOK
    BY DEF RoomInvariant, RoomTypeOK
  <1>14. ASSUME NEW ok \in BOOLEAN, win_init(ok) \/ win_join(ok) \/ win_connect(ok) \/ win_leave
         PROVE  RoomInvariant'
    <2>1. Register(room, ok) \in Room /\ Register(room, ok).sink = room.sink
      BY <1>13 DEF Register, Room, Bee
    <2>2. ASSUME NEW how \in Commanded
          PROVE  [room EXCEPT !.last = how] \in Room /\ [room EXCEPT !.last = how].sink = room.sink
      BY <1>13 DEF Room
    <2>3. (IF execute(room, ok) THEN "sent" ELSE "refused") \in Commanded /\ "left" \in Commanded
      BY DEF Commanded
    <2> QED BY <1>11, <1>13, <1>14, <2>1, <2>2, <2>3 DEF win_init, win_join, win_connect, win_leave
  <1>15. ASSUME NEW media \in MediaTypes, NEW ok \in BOOLEAN, win_setup_push_stream(media, ok)
         PROVE  RoomInvariant'
    <2> DEFINE r == setupPushStreamInternal(room, media, ok).room
    <2>1. r \in Room /\ r.sink = room.sink
      BY <1>2, <1>13, SetupSettles DEF Settles
    <2> QED BY <1>11, <1>15, <2>1 DEF win_setup_push_stream
  <1>16. CASE run_main
    BY <1>16, MainKeeps
  <1>17. CASE UNCHANGED roomVars
    BY <1>17 DEF roomVars, RoomInvariant, RoomTypeOK, Settled
  <1>18. CASE audioSession_didDetectPlayoutGlitch
    BY <1>18 DEF audioSession_didDetectPlayoutGlitch, RoomInvariant, RoomTypeOK, Settled
  <1> QED BY <1>3, <1>4, <1>5, <1>6, <1>7, <1>8, <1>9, <1>10, <1>12, <1>14, <1>15, <1>16, <1>17, <1>18 DEF RoomNext

\* The invariant of every room.
LEMMA RoomHolds == RoomSpec => []RoomInvariant
  <1>1. room_init => RoomInvariant
    <2> SUFFICES ASSUME room_init PROVE RoomInvariant
      OBVIOUS
    <2>1. room \in Room /\ bee \in Bee
      BY DEF room_init, new_room, Room, Commanded, Bee, Media, Source
    <2>2. q \in Seq(Block) /\ mainq \in Seq(BOOLEAN)
      BY EmptySeq DEF room_init
    <2>3. audio \in BOOLEAN /\ ~Settled(mainq)
      BY DEF room_init, Settled
    <2>4. ~On(room)
      BY DEF room_init, new_room, On
    <2> QED BY <2>1, <2>2, <2>3, <2>4 DEF room_init, RoomInvariant, RoomTypeOK
  <1> QED BY <1>1, RoomStep, PTL DEF RoomSpec

\* BeeVideoRoom joinInternal and leaveInternal: once the main queue has run its
\* blocks the audio session is on exactly when the last join or leave was a join
\* that was not refused.
THEOREM AudioFollowsLast == RoomSpec => []AudioFollows
  <1>1. RoomInvariant => AudioFollows
    BY DEF RoomInvariant, RoomTypeOK, Settled, AudioFollows, On
  <1> QED BY <1>1, RoomHolds, PTL

\* Nothing is reported by the queue after the application was told that it left
\* the room, although notifications were waiting there.
THEOREM StaysQuiet == RoomSpec => LeftQuiet
  <1>1. RoomInvariant /\ [RoomNext]_roomVars => [told.what = "leave" => told' = told]_roomVars
    <2> SUFFICES ASSUME RoomInvariant, RoomNext, told.what = "leave" PROVE told' = told
      OBVIOUS
    <2>1. ~room.sink
      BY DEF RoomInvariant
    <2>2. ASSUME NEW what, NEW ok PROVE tell(what, ok) = told
      BY <2>1 DEF tell
    <2>3. ASSUME NEW sent \in BOOLEAN, NEW ok \in BOOLEAN, run_queue(sent, ok) PROVE told' = told
      <3> DEFINE b == Head(q)
                 d == ran(b, sent, ok)
      <3>1. told' = CASE b.op \in Notifications -> tell(b.op, notified(b))
                      [] b.op = "leave" -> tell(b.op, d.ok)
                      [] OTHER -> IF d.ok THEN told ELSE tell(b.op, FALSE)
        BY <2>3 DEF run_queue
      <3> HIDE DEF b, d
      <3> QED BY <2>2, <3>1
    <2>4. ASSUME NEW type \in 0 .. 7, NEW ec \in 0 .. 2, win_handle_data(type, ec) PROVE told' = told
      BY <2>2, <2>4 DEF win_handle_data
    <2>5. \/ told' = told
          \/ \E sent, ok \in BOOLEAN : run_queue(sent, ok)
          \/ \E type \in 0 .. 7, ec \in 0 .. 2 : win_handle_data(type, ec)
      BY DEF RoomNext, initialize, uninitialize, openSession, closeSession, join, leave, connect, disconnect,
             setupPushStream, getAudioInputLevel, getAudioOutputLevel, switchCamera, dispatch, handleData, win_call,
             win_open, win_init, win_join, win_leave, win_connect, win_setup_push_stream, run_main,
             audioSession_didDetectPlayoutGlitch
    <2> QED BY <2>3, <2>4, <2>5
  <1> QED BY <1>1, RoomHolds, PTL DEF RoomSpec, LeftQuiet

-----------------------------------------------------------------------------
(* The encoder, for any frames, any length of its queue and any threshold. *)

\* Every value a field of the encoder may have.
Codec == [state : {"null", "dead", "live"}, queued : Seq(Frame), encoded : Seq(Frame)]
FrameSizes == Size \cup {CHOOSE n \in Size : TRUE}
Encoder ==
    [inited : BOOLEAN, use_surface : BOOLEAN, size : FrameSizes, sw_fallback_required : BOOLEAN,
     sw_encoder : BOOLEAN, input_frame_infos : Seq(Frame), drop_next_input_frame : BOOLEAN,
     full_queue_frame_drops : Nat, poll : BOOLEAN, codec : Codec, held : BOOLEAN, tasks : Nat,
     failed_check : BOOLEAN]

\* What the codec has is what is remembered, at most n frames, and with p a
\* poll is posted for them.
Matched(e) == e.inited /\ e.codec.state = "live" => e.codec.encoded \o e.codec.queued = e.input_frame_infos
Polled(e) == e.inited /\ e.input_frame_infos # <<>> => e.poll
Fits(e, n, p) ==
    /\ e \in Encoder
    /\ e.codec.state = "live" => e.held
    /\ Matched(e)
    /\ Len(e.input_frame_infos) <= n
    /\ p => Polled(e)

\* It may be initialised: no codec would be left behind.
Loose(e) == e.inited => ~e.held


\* The frames after the first n, of those that are encoded and of all.
LEMMA RestShorter ==
    ASSUME NEW a \in Seq(Frame), NEW n \in Nat
    PROVE  /\ SubSeq(a, n + 1, Len(a)) \in Seq(Frame)
           /\ Len(SubSeq(a, n + 1, Len(a))) <= Len(a)
           /\ a = <<>> => SubSeq(a, n + 1, Len(a)) = <<>>
  OBVIOUS

\* Taking frames from the front leaves the rest in step.
LEMMA RestOfFrames ==
    ASSUME NEW a \in Seq(Frame), NEW b \in Seq(Frame), NEW n \in 0 .. Len(a)
    PROVE  SubSeq(a \o b, n + 1, Len(a \o b)) = SubSeq(a, n + 1, Len(a)) \o b
  <1> DEFINE j == a \o b
             x == SubSeq(j, n + 1, Len(j))
             y == SubSeq(a, n + 1, Len(a))
  <1>1. Len(a) \in Nat /\ Len(b) \in Nat /\ n \in Nat /\ n <= Len(a)
    BY LenProperties
  <1>2. /\ j \in Seq(Frame) /\ Len(j) = Len(a) + Len(b)
        /\ \A i \in 1 .. Len(a) + Len(b) : j[i] = IF i <= Len(a) THEN a[i] ELSE b[i - Len(a)]
    BY ConcatProperties
  <1>3. /\ y \in Seq(Frame) /\ Len(y) = Len(a) - n
        /\ \A i \in 1 .. Len(a) - n : y[i] = a[n + i]
    BY <1>1
  <1>4. /\ x \in Seq(Frame) /\ Len(x) = Len(j) - n
        /\ \A i \in 1 .. Len(j) - n : x[i] = j[n + i]
    BY <1>1, <1>2
  <1> HIDE DEF j, x, y
  <1>5. /\ y \o b \in Seq(Frame) /\ Len(y \o b) = Len(y) + Len(b)
        /\ \A i \in 1 .. Len(y) + Len(b) : (y \o b)[i] = IF i <= Len(y) THEN y[i] ELSE b[i - Len(y)]
    BY <1>3, ConcatProperties
  <1>6. Len(x) = Len(y \o b)
    BY <1>1, <1>2, <1>3, <1>4, <1>5
  <1>7. ASSUME NEW i \in 1 .. Len(x) PROVE x[i] = (y \o b)[i]
    <2>1. i \in 1 .. Len(a) + Len(b) - n /\ n + i \in 1 .. Len(a) + Len(b) /\ i \in 1 .. Len(y) + Len(b)
      BY <1>1, <1>2, <1>3, <1>4
    <2>2. x[i] = j[n + i]
      BY <1>2, <1>4, <2>1
    <2>3. CASE n + i <= Len(a)
      <3>1. i \in 1 .. Len(a) - n /\ i <= Len(y)
        BY <1>1, <1>3, <2>1, <2>3
      <3> QED BY <1>2, <1>3, <1>5, <2>1, <2>2, <2>3, <3>1
    <2>4. CASE ~(n + i <= Len(a))
      <3>1. ~(i <= Len(y)) /\ n + i - Len(a) = i - Len(y)
        BY <1>1, <1>3, <2>1, <2>4
      <3>2. j[n + i] = b[n + i - Len(a)]
        BY <1>2, <2>1, <2>4
      <3>3. (y \o b)[i] = b[i - Len(y)]
        BY <1>5, <2>1, <3>1
      <3> QED BY <2>2, <3>1, <3>2, <3>3
    <2> QED BY <2>3, <2>4
  <1>8. x = y \o b
    BY <1>4, <1>5, <1>6, <1>7, SeqEqual
  <1> QED BY <1>8 DEF x, y, j

\* n outputs are dequeued.
LEMMA Dequeued ==
    ASSUME NEW n \in Nat, NEW p \in BOOLEAN, NEW e, Fits(e, n, p), NEW k \in 0 .. Len(e.codec.encoded)
    PROVE  Fits(dequeued(e, k), n, p)
  <1> DEFINE enco == SubSeq(e.codec.encoded, k + 1, Len(e.codec.encoded))
             info == SubSeq(e.input_frame_infos, k + 1, Len(e.input_frame_infos))
             d == dequeued(e, k)
  <1>1. /\ d.codec.encoded = enco /\ d.codec.queued = e.codec.queued /\ d.codec.state = e.codec.state
        /\ d.input_frame_infos = info
        /\ d.inited = e.inited /\ d.held = e.held /\ d.poll = e.poll
    BY DEF Fits, Encoder, Codec, dequeued
  <1>2. /\ enco \in Seq(Frame) /\ info \in Seq(Frame)
        /\ Len(info) <= Len(e.input_frame_infos)
        /\ e.input_frame_infos = <<>> => info = <<>>
    BY RestShorter DEF Fits, Encoder, Codec
  <1> HIDE DEF enco, info
  <1>3. d \in Encoder
    BY <1>2 DEF Fits, Encoder, Codec, dequeued, enco, info
  <1>4. ASSUME e.codec.encoded \o e.codec.queued = e.input_frame_infos
        PROVE  enco \o e.codec.queued = info
    <2>1. e.codec.encoded \in Seq(Frame) /\ e.codec.queued \in Seq(Frame)
      BY DEF Fits, Encoder, Codec
    <2>2. SubSeq(e.codec.encoded \o e.codec.queued, k + 1, Len(e.codec.encoded \o e.codec.queued))
          = SubSeq(e.codec.encoded, k + 1, Len(e.codec.encoded)) \o e.codec.queued
      BY <2>1, RestOfFrames
    <2> QED BY <1>4, <2>2, Zenon DEF enco, info
  <1>5. Len(info) <= n
    BY <1>2, LenProperties DEF Fits, Encoder
  <1> QED BY <1>1, <1>2, <1>3, <1>4, <1>5 DEF Fits, Matched, Polled

\* A field that says nothing of the frames may change.
LEMMA SameFrames ==
    ASSUME NEW n \in Nat, NEW p \in BOOLEAN, NEW e, Fits(e, n, p), NEW f \in Encoder,
           f.inited = e.inited, f.codec = e.codec, f.held = e.held, f.poll = e.poll,
           f.input_frame_infos = e.input_frame_infos
    PROVE  Fits(f, n, p)
  BY DEF Fits, Matched, Polled

\* The fields there are of that kind.
LEMMA OtherFields ==
    ASSUME NEW n \in Nat, NEW p \in BOOLEAN, NEW e, Fits(e, n, p),
           NEW drop \in BOOLEAN, NEW drops \in Nat, NEW sz \in FrameSizes
    PROVE  /\ Fits([e EXCEPT !.drop_next_input_frame = drop], n, p)
           /\ Fits([e EXCEPT !.full_queue_frame_drops = drops], n, p)
           /\ Fits([e EXCEPT !.size = sz], n, p)
           /\ Fits(failed_check(e), n, p)
  <1>1. e \in Encoder
    BY DEF Fits
  <1>2. Fits([e EXCEPT !.drop_next_input_frame = drop], n, p)
    BY <1>1, SameFrames DEF Encoder
  <1>3. Fits([e EXCEPT !.full_queue_frame_drops = drops], n, p)
    BY <1>1, SameFrames DEF Encoder
  <1>4. Fits([e EXCEPT !.size = sz], n, p)
    BY <1>1, SameFrames DEF Encoder
  <1>5. Fits(failed_check(e), n, p)
    BY <1>1, SameFrames DEF Encoder, failed_check
  <1> QED BY <1>2, <1>3, <1>4, <1>5

\* Falling back to the software encoder is one.
LEMMA FallsBack ==
    ASSUME NEW n \in Nat, NEW p \in BOOLEAN, NEW e, Fits(e, n, p)
    PROVE  /\ Fits(fall_back(e), n, p)
           /\ fall_back(e).inited = e.inited /\ fall_back(e).held = e.held
           /\ fall_back(e).codec = e.codec
  <1>1. e \in Encoder
    BY DEF Fits
  <1> QED BY <1>1, SameFrames DEF Encoder, fall_back

\* Java has released the codec, or tried to.
LEMMA JavaReleases ==
    ASSUME NEW n \in Nat, NEW p \in BOOLEAN, NEW e, Fits(e, n, p), NEW r \in release_outcomes(e)
    PROVE  /\ r \in {fine(r.enc), failed(r.enc)}
           /\ Fits(r.enc, n, p) /\ ~r.enc.held
           /\ ~e.held => r = failed(e)
  <1>1. CASE ~e.held
    BY <1>1 DEF release_outcomes, failed, fine
  <1>2. CASE e.held
    <2>1. PICK m \in 0 .. e.tasks + 1 :
             LET g == [e EXCEPT !.codec = NoCodec, !.held = FALSE, !.tasks = m] IN r = fine(g) \/ r = failed(g)
      BY <1>2 DEF release_outcomes
    <2> DEFINE g == [e EXCEPT !.codec = NoCodec, !.held = FALSE, !.tasks = m]
    <2>2. r.enc = g /\ r \in {fine(g), failed(g)}
      BY <2>1 DEF fine, failed
    <2>3. NoCodec \in Codec /\ NoCodec.state = "null" /\ m \in Nat
      BY EmptySeq DEF NoCodec, Codec, Fits, Encoder
    <2>4. /\ g \in Encoder /\ g.codec = NoCodec /\ ~g.held /\ g.inited = e.inited /\ g.poll = e.poll
          /\ g.input_frame_infos = e.input_frame_infos
      BY <2>3 DEF Fits, Encoder
    <2>5. Fits(g, n, p)
      BY <2>3, <2>4 DEF Fits, Matched, Polled
    <2> QED BY <1>2, <2>2, <2>4, <2>5
  <1> QED BY <1>1, <1>2

\* The codec is released; whether or not that failed, the encoder may be
\* initialised.
LEMMA Releases ==
    ASSUME NEW n \in Nat, NEW p \in BOOLEAN, NEW e, Fits(e, n, p), NEW r \in ReleaseOnCodecThread(e)
    PROVE  /\ Fits(r.enc, n, p) /\ Loose(r.enc)
           /\ e.inited /\ ~e.held => r = failed(fall_back(e))
  <1>1. CASE ~e.inited
    BY <1>1 DEF ReleaseOnCodecThread, fine, Loose
  <1>2. CASE e.inited
    <2>1. CASE \E f \in succeeded(release_outcomes(e)) :
                  r = fine([f EXCEPT !.poll = FALSE, !.inited = FALSE, !.use_surface = FALSE])
      <3>1. PICK f \in succeeded(release_outcomes(e)) :
                  r = fine([f EXCEPT !.poll = FALSE, !.inited = FALSE, !.use_surface = FALSE])
        BY <2>1
      <3>2. PICK u \in release_outcomes(e) : u.ok /\ f = u.enc
        BY DEF succeeded, left
      <3>3. Fits(f, n, p) /\ ~f.held
        BY <3>2, JavaReleases
      <3>4. e.held
        BY <3>2, JavaReleases DEF failed
      <3> DEFINE g == [f EXCEPT !.poll = FALSE, !.inited = FALSE, !.use_surface = FALSE]
      <3>5. /\ g \in Encoder /\ ~g.inited /\ g.held = f.held /\ g.codec = f.codec
            /\ g.input_frame_infos = f.input_frame_infos
        BY <3>3 DEF Fits, Encoder
      <3>6. Fits(g, n, p)
        BY <3>3, <3>5 DEF Fits, Matched, Polled
      <3> HIDE DEF g
      <3>7. r.enc = g
        BY <3>1 DEF fine, g
      <3> QED BY <3>4, <3>5, <3>6, <3>7 DEF Loose
    <2>2. CASE \E f \in refused(release_outcomes(e)) : r = failed(fall_back(f))
      <3>1. PICK f \in refused(release_outcomes(e)) : r = failed(fall_back(f))
        BY <2>2
      <3>2. PICK u \in release_outcomes(e) : ~u.ok /\ f = u.enc
        BY DEF refused, left
      <3>3. Fits(f, n, p) /\ ~f.held /\ (~e.held => f = e)
        BY <3>2, JavaReleases DEF failed
      <3>4. Fits(fall_back(f), n, p) /\ ~fall_back(f).held
        BY <3>3, FallsBack
      <3>5. r.enc = fall_back(f)
        BY <3>1 DEF failed
      <3> QED BY <3>1, <3>3, <3>4, <3>5 DEF Loose
    <2> QED BY <1>2, <2>1, <2>2 DEF ReleaseOnCodecThread
  <1> QED BY <1>1, <1>2
\* Java has made a codec, or tried to.
LEMMA JavaInits ==
    ASSUME NEW e \in Encoder, e.input_frame_infos = <<>>, e.codec.state = "live" => e.held,
           NEW r \in init_outcomes(e)
    PROVE  /\ r \in {fine(r.enc), failed(r.enc)}
           /\ r.enc \in Encoder /\ r.enc.input_frame_infos = <<>>
           /\ r.enc.inited = e.inited
           /\ r.enc.codec.state = "live" => r.enc.held
           /\ ~e.held /\ r.enc.codec.state = "live" => r.enc.codec.encoded = <<>> /\ r.enc.codec.queued = <<>>
  <1>1. CASE r = failed(e)
    BY <1>1 DEF failed, fine
  <1>2. CASE \E j \in {NoCodec, DeadCodec, LiveCodec} :
                r.enc = [e EXCEPT !.held = TRUE, !.codec = j] /\ r \in {fine(r.enc), failed(r.enc)}
    <2>1. PICK j \in {NoCodec, DeadCodec, LiveCodec} :
                r.enc = [e EXCEPT !.held = TRUE, !.codec = j] /\ r \in {fine(r.enc), failed(r.enc)}
      BY <1>2
    <2>2. NoCodec \in Codec /\ NoCodec.encoded = <<>> /\ NoCodec.queued = <<>>
      BY EmptySeq DEF NoCodec, Codec
    <2>3. DeadCodec \in Codec /\ DeadCodec.encoded = <<>> /\ DeadCodec.queued = <<>>
      BY <2>2 DEF DeadCodec, Codec
    <2>4. LiveCodec \in Codec /\ LiveCodec.encoded = <<>> /\ LiveCodec.queued = <<>>
      BY <2>2 DEF LiveCodec, Codec
    <2>5. j \in Codec /\ j.encoded = <<>> /\ j.queued = <<>>
      BY <2>1, <2>2, <2>3, <2>4
    <2> QED BY <2>1, <2>5 DEF Encoder
  <1>3. \/ r = failed(e)
        \/ \E j \in {NoCodec, DeadCodec, LiveCodec} :
              r \in {fine([e EXCEPT !.held = TRUE, !.codec = j]), failed([e EXCEPT !.held = TRUE, !.codec = j])}
    BY DEF init_outcomes
  <1>4. \A f : fine(f).enc = f /\ failed(f).enc = f
    BY DEF fine, failed
  <1> QED BY <1>1, <1>2, <1>3, <1>4

\* The codec is configured, which starts with no frames.
LEMMA Inits ==
    ASSUME NEW n \in Nat, NEW p \in BOOLEAN, NEW e, Fits(e, n, p), Loose(e), NEW sz \in FrameSizes,
           NEW use_surface \in BOOLEAN, NEW r \in InitEncodeOnCodecThread(e, sz, use_surface)
    PROVE  Fits(r.enc, n, p)
  <1> DEFINE fresh == [e EXCEPT !.size = sz, !.full_queue_frame_drops = 0, !.input_frame_infos = <<>>,
                                !.drop_next_input_frame = FALSE, !.use_surface = use_surface]
  <1>1. /\ fresh \in Encoder /\ fresh.input_frame_infos = <<>> /\ fresh.codec = e.codec
        /\ fresh.inited = e.inited /\ fresh.held = e.held
    BY EmptySeq DEF Fits, Encoder
  <1> HIDE DEF fresh
  <1>2. Len(<<>>) = 0
    BY EmptySeq
  <1>3. ASSUME NEW u \in init_outcomes(fresh) PROVE Fits(u.enc, n, p)
    <2>1. /\ u.enc \in Encoder /\ u.enc.input_frame_infos = <<>> /\ u.enc.inited = e.inited
          /\ u.enc.codec.state = "live" => u.enc.held
          /\ ~e.held /\ u.enc.codec.state = "live" => u.enc.codec.encoded = <<>> /\ u.enc.codec.queued = <<>>
      BY <1>1, <1>3, JavaInits DEF Fits
    <2>2. Matched(u.enc)
      BY <2>1 DEF Matched, Loose
    <2> QED BY <1>2, <2>1, <2>2 DEF Fits, Polled
  <1>4. CASE r = fine(e)
    BY <1>4 DEF fine
  <1>5. CASE \E f \in succeeded(init_outcomes(fresh)) : r = fine([f EXCEPT !.inited = TRUE])
    <2>1. PICK u \in init_outcomes(fresh) : u.ok /\ r = fine([u.enc EXCEPT !.inited = TRUE])
      BY <1>5 DEF succeeded, left
    <2>2. ~e.held
      BY <1>1, <2>1 DEF init_outcomes, failed
    <2>3. /\ u.enc \in Encoder /\ u.enc.input_frame_infos = <<>>
          /\ u.enc.codec.state = "live" => u.enc.held
          /\ u.enc.codec.state = "live" => u.enc.codec.encoded = <<>> /\ u.enc.codec.queued = <<>>
      BY <1>1, <2>1, <2>2, JavaInits DEF Fits
    <2> DEFINE g == [u.enc EXCEPT !.inited = TRUE]
    <2>4. /\ g \in Encoder /\ g.input_frame_infos = <<>> /\ g.codec = u.enc.codec /\ g.held = u.enc.held
      BY <2>3 DEF Encoder
    <2> HIDE DEF g
    <2>5. Fits(g, n, p)
      BY <1>2, <2>3, <2>4 DEF Fits, Matched, Polled
    <2> QED BY <2>1, <2>5 DEF fine, g
  <1>6. CASE \E f \in refused(init_outcomes(fresh)) : r = failed(fall_back(f))
    <2>1. PICK u \in init_outcomes(fresh) : ~u.ok /\ r = failed(fall_back(u.enc))
      BY <1>6 DEF refused, left
    <2>2. Fits(fall_back(u.enc), n, p)
      BY <1>3, <2>1, FallsBack
    <2> QED BY <2>1, <2>2 DEF failed
  <1> QED BY <1>4, <1>5, <1>6 DEF InitEncodeOnCodecThread, fresh

\* An error, from what it finds.
LEMMA HandlesError ==
    ASSUME NEW n \in Nat, NEW p \in BOOLEAN, NEW e, Fits(e, n, p), NEW r \in ProcessHWError(e)
    PROVE  /\ Fits(r.enc, n, p)
           /\ e.inited /\ ~e.held => r = failed(fall_back(e)) \/ r = failed(fall_back(fall_back(e)))
  <1>1. CASE e.sw_encoder
    BY <1>1, FallsBack DEF ProcessHWError, failed
  <1>2. CASE ~e.sw_encoder
    <2>1. r \in ResetCodecOnCodecThread(e)
      BY <1>2 DEF ProcessHWError
    <2>2. CASE \E f \in refused(ReleaseOnCodecThread(e)) : r = failed(f)
      <3>1. PICK u \in ReleaseOnCodecThread(e) : ~u.ok /\ r = failed(u.enc)
        BY <2>2 DEF refused, left
      <3>2. Fits(u.enc, n, p) /\ (e.inited /\ ~e.held => u.enc = fall_back(e))
        BY <3>1, Releases DEF failed
      <3> QED BY <3>1, <3>2 DEF failed
    <2>3. CASE \E f \in succeeded(ReleaseOnCodecThread(e)) : r \in InitEncodeOnCodecThread(f, f.size, FALSE)
      <3>1. PICK u \in ReleaseOnCodecThread(e) : u.ok /\ r \in InitEncodeOnCodecThread(u.enc, u.enc.size, FALSE)
        BY <2>3 DEF succeeded, left
      <3>2. /\ Fits(u.enc, n, p) /\ Loose(u.enc)
            /\ ~(e.inited /\ ~e.held)
        BY <3>1, Releases DEF failed
      <3>3. u.enc.size \in FrameSizes
        BY <3>2 DEF Fits, Encoder
      <3> QED BY <3>1, <3>2, <3>3, Inits
    <2> QED BY <2>1, <2>2, <2>3 DEF ResetCodecOnCodecThread, then
  <1> QED BY <1>1, <1>2

\* What errors leave.
LEMMA AfterError ==
    ASSUME NEW n \in Nat, NEW p \in BOOLEAN, NEW S, \A e \in S : Fits(e, n, p), NEW f \in after_error(S)
    PROVE  Fits(f, n, p)
  <1>1. PICK e \in S : \E r \in ProcessHWError(e) : f = r.enc
    BY DEF after_error, left
  <1> QED BY <1>1, HandlesError

\* n outputs are delivered.
LEMMA Delivered ==
    ASSUME NEW n \in Nat, NEW p \in BOOLEAN, NEW e, Fits(e, n, p), NEW k \in 0 .. Len(e.codec.encoded),
           NEW f \in delivered(e, k)
    PROVE  Fits(f, n, p) /\ f.codec = dequeued(e, k).codec
  <1>1. Fits(dequeued(e, k), n, p)
    BY Dequeued
  <1> DEFINE d == dequeued(e, k)
  <1> HIDE DEF d
  <1>2. PICK drop \in BOOLEAN : f = [d EXCEPT !.drop_next_input_frame = @ \/ drop]
    BY DEF delivered, d
  <1>3. d \in Encoder /\ Fits(d, n, p)
    BY <1>1 DEF Fits, d
  <1>4. /\ f \in Encoder /\ f.inited = d.inited /\ f.codec = d.codec /\ f.held = d.held /\ f.poll = d.poll
        /\ f.input_frame_infos = d.input_frame_infos
    BY <1>2, <1>3 DEF Encoder
  <1> QED BY <1>3, <1>4, SameFrames DEF d
\* What is ready is delivered, however that ends.
LEMMA Delivers ==
    ASSUME NEW n \in Nat, NEW p \in BOOLEAN, NEW e, Fits(e, n, p), NEW r \in DeliverPendingOutputs(e)
    PROVE  /\ Fits(r.enc, n, p)
           /\ e.inited /\ ~e.held => r.enc.inited /\ ~r.enc.held
  <1> DEFINE outputs == Len(e.codec.encoded)
             between == UNION {delivered(e, k) : k \in 0 .. outputs}
             within == {dequeued(f, 1) : f \in UNION {delivered(e, k) : k \in 0 .. outputs - 1}}
             erred == after_error(between \cup within)
  <1>1. ASSUME NEW f \in after_error({e}) PROVE Fits(f, n, p) /\ (e.inited /\ ~e.held => f.inited /\ ~f.held)
    <2>1. PICK u \in ProcessHWError(e) : f = u.enc
      BY <1>1 DEF after_error, left
    <2>2. Fits(f, n, p)
      BY <2>1, HandlesError
    <2>3. ASSUME e.inited, ~e.held PROVE f = fall_back(e) \/ f = fall_back(fall_back(e))
      <3>1. u = failed(fall_back(e)) \/ u = failed(fall_back(fall_back(e)))
        BY <2>1, <2>3, HandlesError
      <3> QED BY <2>1, <3>1 DEF failed
    <2>4. Fits(fall_back(e), n, p) /\ fall_back(e).inited = e.inited /\ fall_back(e).held = e.held
      BY FallsBack
    <2>5. fall_back(fall_back(e)).inited = fall_back(e).inited /\ fall_back(fall_back(e)).held = fall_back(e).held
      BY <2>4, FallsBack
    <2> QED BY <2>2, <2>3, <2>4, <2>5
  <1>2. CASE e.codec.state = "null" \/ e.codec.state = "dead"
    <2>1. r \in {fine(f) : f \in after_error({e})} \cup {failed(f) : f \in after_error({e})}
      BY <1>2 DEF DeliverPendingOutputs
    <2>2. r.enc \in after_error({e})
      BY <2>1 DEF fine, failed
    <2> QED BY <1>1, <2>2
  <1>3. CASE e.codec.state \notin {"null", "dead"}
    <2>1. r \in {fine(f) : f \in delivered(e, outputs) \cup erred} \cup {failed(f) : f \in erred}
      BY <1>3 DEF DeliverPendingOutputs
    <2>2. r.enc \in delivered(e, outputs) \cup erred
      BY <2>1 DEF fine, failed
    <2>3. e.held /\ e.codec.encoded \in Seq(Frame)
      BY <1>3 DEF Fits, Encoder, Codec
    <2>4. outputs \in Nat
      BY <2>3, LenProperties
    <2>5. ASSUME NEW k \in 0 .. outputs, NEW f \in delivered(e, k) PROVE Fits(f, n, p)
      BY <2>5, Delivered
    <2>6. ASSUME NEW f \in between PROVE Fits(f, n, p)
      BY <2>5
    <2>7. ASSUME NEW g \in within PROVE Fits(g, n, p)
      <3>1. PICK k \in 0 .. outputs - 1 : \E f \in delivered(e, k) : g = dequeued(f, 1)
        BY <2>7
      <3>2. PICK f \in delivered(e, k) : g = dequeued(f, 1)
        BY <3>1
      <3>3. k \in 0 .. outputs
        BY <2>4
      <3>4. Fits(f, n, p) /\ f.codec = dequeued(e, k).codec
        BY <3>3, Delivered
      <3>5. dequeued(e, k).codec.encoded = SubSeq(e.codec.encoded, k + 1, outputs)
        BY DEF dequeued, Fits, Encoder, Codec
      <3>6. Len(f.codec.encoded) = outputs - k
        BY <2>3, <2>4, <3>3, <3>4, <3>5
      <3>7. 1 \in 0 .. Len(f.codec.encoded)
        BY <2>4, <3>6
      <3> QED BY <3>2, <3>4, <3>7, Dequeued
    <2> HIDE DEF between, within
    <2>8. ASSUME NEW f \in erred PROVE Fits(f, n, p)
      BY <2>6, <2>7, <2>8, AfterError
    <2>9. outputs \in 0 .. outputs
      BY <2>4
    <2> HIDE DEF erred, outputs
    <2> QED BY <2>2, <2>3, <2>5, <2>8, <2>9
  <1> QED BY <1>2, <1>3

\* A frame more at the end.
LEMMA AppendedFrames ==
    ASSUME NEW a \in Seq(Frame), NEW b \in Seq(Frame), NEW f \in Frame
    PROVE  a \o Append(b, f) = Append(a \o b, f)
  <1>1. a \o b \in Seq(Frame) /\ <<f>> \in Seq(Frame)
    BY ConcatProperties
  <1>2. Append(b, f) = b \o <<f>> /\ Append(a \o b, f) = (a \o b) \o <<f>>
    BY <1>1, AppendIsConcat
  <1>3. (a \o b) \o <<f>> = a \o (b \o <<f>>)
    BY <1>1, ConcatAssociative
  <1> QED BY <1>2, <1>3

\* A frame from one list to the other.
LEMMA MovedFrame ==
    ASSUME NEW a \in Seq(Frame), NEW b \in Seq(Frame), b # <<>>
    PROVE  Append(a, Head(b)) \o Tail(b) = a \o b
  <1>1. Head(b) \in Frame /\ Tail(b) \in Seq(Frame) /\ Len(b) \in Nat \ {0}
    BY HeadTailProperties, EmptySeq
  <1>2. <<Head(b)>> \in Seq(Frame) /\ Append(a, Head(b)) = a \o <<Head(b)>>
    BY <1>1, AppendIsConcat
  <1>3. a \o <<Head(b)>> \o Tail(b) = a \o (<<Head(b)>> \o Tail(b))
    BY <1>1, <1>2, ConcatAssociative
  <1>4. b = <<Head(b)>> \o Tail(b)
    <2>1. 1 \in 1 .. Len(b) /\ Len(b) \in 1 .. Len(b)
      BY <1>1
    <2>2. SubSeq(b, 1, Len(b)) = <<b[1]>> \o SubSeq(b, 2, Len(b))
      BY <2>1, SubSeqRecursiveFirst
    <2>3. SubSeq(b, 1, Len(b)) = b /\ Tail(b) = SubSeq(b, 2, Len(b)) /\ Head(b) = b[1]
      BY SubSeqFull, TailIsSubSeq
    <2> QED BY <2>2, <2>3
  <1> QED BY <1>2, <1>3, <1>4

\* The codec takes a frame, if there is one.
LEMMA Fed ==
    ASSUME NEW n \in Nat, NEW p \in BOOLEAN, NEW e, Fits(e, n, p), NEW f \in Frame
    PROVE  Fits(fed(e, f), n + 1, p)
  <1> DEFINE d == fed(e, f)
  <1>1. e \in Encoder /\ e.codec.encoded \in Seq(Frame) /\ e.codec.queued \in Seq(Frame)
        /\ e.input_frame_infos \in Seq(Frame)
    BY DEF Fits, Encoder, Codec
  <1>2. Append(e.codec.queued, f) \in Seq(Frame) /\ Append(e.input_frame_infos, f) \in Seq(Frame)
    BY <1>1, AppendProperties
  <1>3. /\ d.codec.encoded = e.codec.encoded /\ d.codec.queued = Append(e.codec.queued, f)
        /\ d.codec.state = e.codec.state /\ d.input_frame_infos = Append(e.input_frame_infos, f)
        /\ d.inited = e.inited /\ d.held = e.held /\ d.poll
    BY <1>1 DEF fed, Encoder, Codec
  <1>4. d \in Encoder
    BY <1>1, <1>2 DEF fed, Encoder, Codec
  <1>5. Len(Append(e.input_frame_infos, f)) = Len(e.input_frame_infos) + 1
    BY <1>1, AppendProperties
  <1>6. Len(d.input_frame_infos) <= n + 1
    <2>1. Len(e.input_frame_infos) \in Nat /\ Len(e.input_frame_infos) <= n
      BY <1>1, LenProperties DEF Fits
    <2> QED BY <1>3, <1>5, <2>1
  <1>7. ASSUME e.codec.encoded \o e.codec.queued = e.input_frame_infos
        PROVE  e.codec.encoded \o Append(e.codec.queued, f) = Append(e.input_frame_infos, f)
    <2>1. \A a, b \in Seq(Frame) : a \o Append(b, f) = Append(a \o b, f)
      BY AppendedFrames
    <2>2. e.codec.encoded \o Append(e.codec.queued, f) = Append(e.codec.encoded \o e.codec.queued, f)
      BY <1>1, <2>1, Zenon
    <2> QED BY <1>7, <2>2, Zenon
  <1> HIDE DEF d
  <1>8. Matched(d)
    BY <1>3, <1>7 DEF Matched, Fits
  <1> QED BY <1>3, <1>4, <1>6, <1>8 DEF Fits, Polled, d

\* A looser bound.
LEMMA FitsMore ==
    ASSUME NEW n \in Nat, NEW p \in BOOLEAN, NEW e, Fits(e, n, p)
    PROVE  Fits(e, n + 1, p)
  <1>1. Len(e.input_frame_infos) \in Nat
    BY LenProperties DEF Fits, Encoder
  <1>2. Len(e.input_frame_infos) <= n + 1
    BY <1>1 DEF Fits
  <1> QED BY <1>2 DEF Fits

\* The frame was fed, and what is ready is delivered.
LEMMA AfterFeeding ==
    ASSUME NEW n \in Nat, NEW p \in BOOLEAN, NEW e, Fits(e, n, p), NEW f \in Frame,
           NEW g \in after_feeding(e, f)
    PROVE  Fits(g, n + 1, p)
  <1> DEFINE outcomes == DeliverPendingOutputs(fed(e, f))
  <1>1. n + 1 \in Nat
    OBVIOUS
  <1>2. ASSUME NEW r \in outcomes PROVE Fits(r.enc, n + 1, p)
    BY <1>1, <1>2, Fed, Delivers
  <1> HIDE DEF outcomes
  <1>3. g \in succeeded(outcomes) \cup after_error(refused(outcomes))
    BY DEF after_feeding, outcomes
  <1>4. \A h \in succeeded(outcomes) \cup refused(outcomes) : Fits(h, n + 1, p)
    BY <1>2 DEF succeeded, refused, left
  <1> QED BY <1>1, <1>3, <1>4, AfterError

\* A frame is encoded.
LEMMA Encodes ==
    ASSUME NEW n \in Nat, NEW p \in BOOLEAN, NEW e, Fits(e, n, p), NEW f \in Frame,
           NEW g \in EncodeByteBuffer(e, f) \cup EncodeTexture(e, f)
    PROVE  Fits(g, n + 1, p)
  <1> DEFINE erred == after_error({e})
  <1>1. ASSUME NEW h \in erred PROVE Fits(h, n, p)
    BY <1>1, AfterError
  <1> HIDE DEF erred
  <1>2. ASSUME NEW h \in after_error(erred) PROVE Fits(h, n, p)
    BY <1>1, <1>2, AfterError
  <1>3. g \in {e, failed_check(e)} \cup erred \cup after_error(erred) \cup after_feeding(e, f)
    BY DEF EncodeByteBuffer, EncodeTexture, erred
  <1>4. Fits(failed_check(e), n, p)
    <2>1. e.drop_next_input_frame \in BOOLEAN /\ e.full_queue_frame_drops \in Nat /\ e.size \in FrameSizes
      BY DEF Fits, Encoder
    <2> QED BY <2>1, OtherFields
  <1>5. CASE g \in after_feeding(e, f)
    BY <1>5, AfterFeeding
  <1>6. CASE g \notin after_feeding(e, f)
    BY <1>1, <1>2, <1>3, <1>4, <1>6, FitsMore
  <1> QED BY <1>5, <1>6
\* The encoder is configured for the frame, if it was not.
LEMMA Reconfigures ==
    ASSUME NEW n \in Nat, NEW p \in BOOLEAN, NEW e, Fits(e, n, p),
           NEW frame \in [id : Frame, size : Size, texture : BOOLEAN], NEW r \in MaybeReconfigure(e, frame)
    PROVE  Fits(r.enc, n, p)
  <1>1. CASE r = fine(e)
    BY <1>1 DEF fine
  <1>2. CASE r # fine(e)
    <2> DEFINE s == [e EXCEPT !.size = frame.size]
    <2>1. PICK f \in left(ReleaseOnCodecThread(s)) : r \in InitEncodeOnCodecThread(f, frame.size, frame.texture)
      BY <1>2 DEF MaybeReconfigure
    <2>2. frame.size \in FrameSizes /\ frame.texture \in BOOLEAN
      BY DEF FrameSizes
    <2>3. Fits(s, n, p)
      <3>1. e.drop_next_input_frame \in BOOLEAN /\ e.full_queue_frame_drops \in Nat
        BY DEF Fits, Encoder
      <3> QED BY <2>2, <3>1, OtherFields
    <2> HIDE DEF s
    <2>4. PICK u \in ReleaseOnCodecThread(s) : f = u.enc
      BY <2>1 DEF left
    <2>5. Fits(f, n, p) /\ Loose(f)
      BY <2>3, <2>4, Releases
    <2> QED BY <2>1, <2>2, <2>5, Inits
  <1> QED BY <1>1, <1>2

\* EncodeOnCodecThread: a frame more is remembered only when no more than
\* MAX_ENCODER_Q_SIZE are.
LEMMA EncodesOnCodecThread ==
    ASSUME NEW p \in BOOLEAN, NEW e, Fits(e, MAX_ENCODER_Q_SIZE + 1, p),
           NEW frame \in [id : Frame, size : Size, texture : BOOLEAN], NEW g \in EncodeOnCodecThread(e, frame)
    PROVE  Fits(g, MAX_ENCODER_Q_SIZE + 1, p)
  <1> DEFINE m == MAX_ENCODER_Q_SIZE
             outputs == DeliverPendingOutputs(e)
             resets == UNION {ProcessHWError(f) : f \in refused(outputs)}
             going_on == succeeded(outputs) \cup succeeded(resets)
             told_drop == {f \in going_on : f.drop_next_input_frame}
             full_up == {f \in going_on \ told_drop : Len(f.input_frame_infos) > MAX_ENCODER_Q_SIZE}
             counted == {count_drop(f) : f \in full_up}
             stuck == {f \in counted : f.full_queue_frame_drops >= ENCODER_STALL_FRAMEDROP_THRESHOLD}
             ready == UNION {MaybeReconfigure([f EXCEPT !.full_queue_frame_drops = 0], frame) :
                             f \in going_on \ (told_drop \cup full_up)}
             encoded == UNION {IF frame.texture THEN EncodeTexture(f, frame.id)
                               ELSE EncodeByteBuffer(f, frame.id) : f \in succeeded(ready)}
  <1>1. m \in Nat /\ m + 1 \in Nat
    BY EncoderAssumption
  <1>2. ASSUME NEW r \in outputs PROVE Fits(r.enc, m + 1, p)
    BY <1>1, <1>2, Delivers
  <1>3. ASSUME NEW r \in resets PROVE Fits(r.enc, m + 1, p)
    <2>1. PICK f \in refused(outputs) : r \in ProcessHWError(f)
      BY <1>3
    <2>2. Fits(f, m + 1, p)
      BY <1>2, <2>1 DEF refused, left
    <2> QED BY <1>1, <2>1, <2>2, HandlesError
  <1> HIDE DEF outputs, resets
  <1>4. ASSUME NEW f \in going_on PROVE Fits(f, m + 1, p)
    BY <1>2, <1>3, <1>4 DEF succeeded, left
  <1>5. ASSUME NEW f \in refused(resets) PROVE Fits(f, m + 1, p)
    BY <1>3, <1>5 DEF refused, left
  <1>6. ASSUME NEW f \in going_on, NEW drop \in BOOLEAN, NEW drops \in Nat
        PROVE  /\ Fits([f EXCEPT !.drop_next_input_frame = drop], m + 1, p)
               /\ Fits([f EXCEPT !.full_queue_frame_drops = drops], m + 1, p)
    <2>1. Fits(f, m + 1, p) /\ f.size \in FrameSizes
      BY <1>4, <1>6 DEF Fits, Encoder
    <2> QED BY <1>1, <1>6, <2>1, OtherFields
  <1> HIDE DEF going_on
  <1>7. ASSUME NEW f \in counted PROVE Fits(f, m + 1, p)
    <2>1. PICK h \in going_on : f = count_drop(h)
      BY <1>7
    <2>2. Fits(h, m + 1, p) /\ h.full_queue_frame_drops + 1 \in Nat
      BY <1>4, <2>1 DEF Fits, Encoder
    <2>3. CASE f = h
      BY <2>2, <2>3
    <2>4. CASE f # h
      <3>1. f = [h EXCEPT !.full_queue_frame_drops = h.full_queue_frame_drops + 1]
        BY <2>1, <2>4 DEF count_drop
      <3> QED BY <1>6, <2>2, <3>1
    <2> QED BY <2>3, <2>4
  <1> HIDE DEF counted
  <1>8. ASSUME NEW f \in after_error(stuck) PROVE Fits(f, m + 1, p)
    BY <1>1, <1>7, <1>8, AfterError
  <1>9. ASSUME NEW r \in ready PROVE Fits(r.enc, m, p)
    <2>1. PICK f \in going_on \ (told_drop \cup full_up) :
             r \in MaybeReconfigure([f EXCEPT !.full_queue_frame_drops = 0], frame)
      BY <1>9
    <2> DEFINE h == [f EXCEPT !.full_queue_frame_drops = 0]
    <2>2. Fits(h, m + 1, p)
      BY <1>6, <2>1
    <2>3. ~(Len(f.input_frame_infos) > m)
      BY <2>1
    <2>4. h.input_frame_infos = f.input_frame_infos
      BY <1>4, <2>1 DEF Fits, Encoder
    <2> HIDE DEF h
    <2>5. Len(h.input_frame_infos) \in Nat
      BY <2>2, LenProperties DEF Fits, Encoder
    <2>6. Len(h.input_frame_infos) <= m
      BY <1>1, <2>3, <2>4, <2>5
    <2>7. Fits(h, m, p)
      BY <2>2, <2>6 DEF Fits
    <2> QED BY <1>1, <2>1, <2>7, Reconfigures DEF h
  <1> HIDE DEF ready, m, stuck
  <1>10. ASSUME NEW f \in encoded PROVE Fits(f, m + 1, p)
    <2>1. PICK h \in succeeded(ready) : f \in EncodeByteBuffer(h, frame.id) \cup EncodeTexture(h, frame.id)
      BY <1>10
    <2>2. Fits(h, m, p)
      BY <1>9, <2>1 DEF succeeded, left
    <2> QED BY <1>1, <2>1, <2>2, Encodes
  <1>11. ASSUME NEW f \in refused(ready) PROVE Fits(f, m + 1, p)
    <2>1. Fits(f, m, p)
      BY <1>9, <1>11 DEF refused, left
    <2> QED BY <1>1, <2>1, FitsMore
  <1>12. g \in {e} \cup refused(resets) \cup {[f EXCEPT !.drop_next_input_frame = FALSE] : f \in told_drop}
              \cup (counted \ stuck) \cup after_error(stuck) \cup refused(ready) \cup encoded
    BY Zenon DEF EncodeOnCodecThread, outputs, resets, going_on, counted, stuck, ready, m
  <1>13. ASSUME NEW f \in {[f EXCEPT !.drop_next_input_frame = FALSE] : f \in told_drop}
         PROVE  Fits(f, m + 1, p)
    <2>1. PICK h \in going_on : f = [h EXCEPT !.drop_next_input_frame = FALSE]
      BY <1>13
    <2> QED BY <1>6, <2>1
  <1>14. Fits(e, m + 1, p)
    BY DEF m
  <1> HIDE DEF told_drop, encoded
  <1>15. Fits(g, m + 1, p)
    BY <1>5, <1>7, <1>8, <1>10, <1>11, <1>12, <1>13, <1>14
  <1> QED BY <1>15 DEF m
-----------------------------------------------------------------------------

\* The encoder the engine has, whatever it has called last.
EncoderInvariant ==
    /\ client \in {"closed", "open", "refused", "deleted"}
    /\ Fits(enc, MAX_ENCODER_Q_SIZE + 1, client # "deleted")
    /\ client = "closed" => Loose(enc)

\* A call of the engine, by what it leaves.
LEMMA EngineCalls ==
    ASSUME EncoderInvariant, [EncoderNext]_encVars
    PROVE  EncoderInvariant'
  <1> DEFINE m == MAX_ENCODER_Q_SIZE + 1
             p == client # "deleted"
  <1>1. m \in Nat /\ p \in BOOLEAN
    BY EncoderAssumption
  <1>2. Fits(enc, m, p) /\ client \in {"closed", "open", "refused", "deleted"}
    BY DEF EncoderInvariant
  <1> HIDE DEF m
  <1>3. ASSUME NEW sz \in Size, NEW texture \in BOOLEAN, InitEncode(sz, texture)
        PROVE  EncoderInvariant'
    <2>1. PICK r \in InitEncodeOnCodecThread(enc, sz, texture) :
             enc' = r.enc /\ client' = IF r.ok THEN "open" ELSE "refused"
      BY <1>3 DEF InitEncode
    <2>2. client = "closed" /\ Loose(enc) /\ sz \in FrameSizes
      BY <1>3 DEF InitEncode, EncoderInvariant, FrameSizes
    <2>3. Fits(r.enc, m, TRUE)
      BY <1>1, <1>2, <2>1, <2>2, Inits
    <2> QED BY <2>1, <2>3 DEF EncoderInvariant, m
  <1>4. ASSUME NEW sz \in Size, NEW texture \in BOOLEAN, Encode(sz, texture)
        PROVE  EncoderInvariant'
    <2> DEFINE present == Range(enc.input_frame_infos) \cup Range(enc.codec.queued \o enc.codec.encoded)
               id == CHOOSE f \in Frame : f \notin present
               frame == [id |-> id, size |-> sz, texture |-> texture]
    <2>1. Frame \ present # {} /\ client = "open" /\ enc' \in EncodeOnCodecThread(enc, frame) /\ client' = client
      BY <1>4 DEF Encode, engine_calls
    <2> HIDE DEF present
    <2>2. id \in Frame
      BY <2>1
    <2> HIDE DEF id
    <2>3. frame \in [id : Frame, size : Size, texture : BOOLEAN]
      BY <2>2
    <2> HIDE DEF frame
    <2>4. Fits(enc', m, TRUE)
      BY <1>2, <2>1, <2>3, EncodesOnCodecThread DEF m
    <2> QED BY <2>1, <2>4 DEF EncoderInvariant, m
  <1>5. CASE SetRateAllocation
    <2>1. client = "open" /\ client' = client /\ enc' \in after_error({enc}) \cup {enc}
      BY <1>5 DEF SetRateAllocation, engine_calls
    <2>2. \A e \in {enc} : Fits(e, m, TRUE)
      BY <1>2, <2>1
    <2>3. Fits(enc', m, TRUE)
      BY <1>1, <1>2, <2>1, <2>2, AfterError
    <2> QED BY <2>1, <2>3 DEF EncoderInvariant, m
  <1>6. CASE Release
    <2>1. PICK r \in ReleaseOnCodecThread(enc) : enc' = r.enc
      BY <1>6 DEF Release, engine_calls, left
    <2>2. client # "deleted" /\ client' = "closed"
      BY <1>6 DEF Release, engine_calls
    <2>3. Fits(enc', m, TRUE) /\ Loose(enc')
      BY <1>1, <1>2, <2>1, <2>2, Releases
    <2> QED BY <2>2, <2>3 DEF EncoderInvariant, m
  <1>7. CASE Delete
    <2>1. PICK r \in ReleaseOnCodecThread(enc) : enc' = [r.enc EXCEPT !.poll = FALSE]
      BY <1>7 DEF Delete, engine_calls, left
    <2>2. client' = "deleted"
      BY <1>7 DEF Delete
    <2>3. Fits(r.enc, m, p)
      BY <1>1, <1>2, <2>1, Releases
    <2>4. Fits(enc', m, FALSE)
      BY <2>1, <2>3 DEF Fits, Matched, Encoder
    <2> QED BY <2>2, <2>4 DEF EncoderInvariant, m
  <1>8. CASE OnMessage
    <2>0. client' = client
      BY <1>8 DEF OnMessage
    <2>1. CASE ~enc.inited
      <3>1. enc' = [enc EXCEPT !.poll = FALSE]
        BY <1>8, <2>1 DEF OnMessage
      <3>2. Fits(enc', m, p) /\ Loose(enc')
        BY <1>2, <2>1, <3>1 DEF Fits, Matched, Polled, Encoder, Loose
      <3> QED BY <1>2, <2>0, <3>2 DEF EncoderInvariant, m
    <2>2. CASE enc.inited
      <3> DEFINE e == [enc EXCEPT !.poll = FALSE]
      <3>1. PICK r \in DeliverPendingOutputs(e) : enc' = [r.enc EXCEPT !.poll = TRUE]
        BY <1>8, <2>2 DEF OnMessage
      <3>2. Fits(e, m, FALSE) /\ e.inited = enc.inited /\ e.held = enc.held
        BY <1>2 DEF Fits, Matched, Encoder
      <3> HIDE DEF e
      <3>3. Fits(r.enc, m, FALSE) /\ (e.inited /\ ~e.held => r.enc.inited /\ ~r.enc.held)
        BY <1>1, <3>1, <3>2, Delivers
      <3>4. Fits(enc', m, p) /\ enc'.held = r.enc.held
        BY <3>1, <3>3 DEF Fits, Matched, Polled, Encoder
      <3>5. client = "closed" => Loose(enc')
        BY <2>2, <3>2, <3>3, <3>4 DEF EncoderInvariant, Loose
      <3> QED BY <1>2, <2>0, <3>4, <3>5 DEF EncoderInvariant, m
    <2> QED BY <2>1, <2>2
  <1>9. CASE CodecEncodes
    <2> DEFINE enco == Append(enc.codec.encoded, Head(enc.codec.queued))
               que == Tail(enc.codec.queued)
    <2>1. /\ enc.codec.queued # <<>> /\ client' = client
          /\ enc' = [enc EXCEPT !.codec.queued = Tail(@), !.codec.encoded = Append(@, Head(enc.codec.queued))]
      BY <1>9 DEF CodecEncodes
    <2>2. enc \in Encoder /\ enc.codec.encoded \in Seq(Frame) /\ enc.codec.queued \in Seq(Frame)
      BY <1>2 DEF Fits, Encoder, Codec
    <2>3. Head(enc.codec.queued) \in Frame /\ que \in Seq(Frame)
      BY <2>1, <2>2, HeadTailProperties
    <2>4. enco \in Seq(Frame)
      BY <2>2, <2>3, AppendProperties
    <2>5. enco \o que = enc.codec.encoded \o enc.codec.queued
      BY <2>1, <2>2, MovedFrame
    <2>6. /\ enc'.codec.encoded = enco /\ enc'.codec.queued = que /\ enc'.codec.state = enc.codec.state
          /\ enc'.inited = enc.inited /\ enc'.held = enc.held /\ enc'.poll = enc.poll
          /\ enc'.input_frame_infos = enc.input_frame_infos
      BY <2>1, <2>2 DEF Encoder, Codec
    <2>7. enc' \in Encoder
      BY <2>1, <2>2, <2>3, <2>4 DEF Encoder, Codec
    <2> HIDE DEF enco, que
    <2>8. Fits(enc', m, p)
      BY <1>2, <2>5, <2>6, <2>7 DEF Fits, Matched, Polled
    <2> QED BY <1>2, <2>1, <2>6, <2>8 DEF EncoderInvariant, Loose, m
  <1>10. NoCodec \in Codec /\ DeadCodec \in Codec /\ NoCodec.state # "live" /\ DeadCodec.state # "live"
    <2>1. NoCodec \in Codec /\ NoCodec.state = "null"
      BY EmptySeq DEF NoCodec, Codec
    <2> QED BY <2>1 DEF DeadCodec, Codec
  <1>11. ASSUME NEW j \in {NoCodec, DeadCodec}, NEW k \in Nat, enc' = [enc EXCEPT !.codec = j, !.tasks = k],
                client' = client
         PROVE  EncoderInvariant'
    <2>1. /\ enc' \in Encoder /\ enc'.codec.state # "live" /\ enc'.inited = enc.inited /\ enc'.held = enc.held
          /\ enc'.poll = enc.poll /\ enc'.input_frame_infos = enc.input_frame_infos
      BY <1>2, <1>10, <1>11 DEF Fits, Encoder
    <2>2. Fits(enc', m, p)
      BY <1>2, <2>1 DEF Fits, Matched, Polled
    <2> QED BY <1>2, <1>11, <2>1, <2>2 DEF EncoderInvariant, Loose, m
  <1>12. CASE CodecDies
    <2>1. enc' = [enc EXCEPT !.codec = DeadCodec, !.tasks = enc.tasks] /\ enc.tasks \in Nat
      BY <1>2, <1>12 DEF CodecDies, Fits, Encoder
    <2> QED BY <1>11, <1>12, <2>1 DEF CodecDies
  <1>13. CASE TaskEnds
    <2>1. enc.tasks - 1 \in Nat
      BY <1>2, <1>13 DEF TaskEnds, Fits, Encoder
    <2>2. PICK j \in {NoCodec, DeadCodec} : enc' = [enc EXCEPT !.codec = j, !.tasks = enc.tasks - 1]
      BY <1>13 DEF TaskEnds
    <2> QED BY <1>11, <1>13, <2>1, <2>2 DEF TaskEnds
  <1>14. CASE UNCHANGED encVars
    BY <1>14 DEF encVars, EncoderInvariant, Loose, Fits, Matched, Polled
  <1> QED BY <1>3, <1>4, <1>5, <1>6, <1>7, <1>8, <1>9, <1>12, <1>13, <1>14 DEF EncoderNext

\* What the codec has of the frames is what the encoder remembers of them, in
\* the same order, through every reset and reconfiguration; an initialised
\* encoder with frames inside has a poll posted; and no more than one frame
\* more than MAX_ENCODER_Q_SIZE is inside.
THEOREM FramesStayMatched == EncoderSpec => []EncoderInv
  <1>1. EncoderInit => EncoderInvariant
    <2> SUFFICES ASSUME EncoderInit PROVE EncoderInvariant
      OBVIOUS
    <2>1. PICK sw \in BOOLEAN : enc = new_encoder(sw)
      BY EncoderAssumption DEF EncoderInit
    <2>2. NoCodec \in Codec /\ NoCodec.state = "null"
      BY EmptySeq DEF NoCodec, Codec
    <2>3. <<>> \in Seq(Frame) /\ Len(<<>>) = 0
      BY EmptySeq
    <2>4. enc \in Encoder
      BY <2>1, <2>2, <2>3 DEF new_encoder, Encoder, FrameSizes
    <2>5. /\ enc.codec = NoCodec /\ ~enc.inited /\ enc.input_frame_infos = <<>>
      BY <2>1 DEF new_encoder
    <2>6. Len(enc.input_frame_infos) <= MAX_ENCODER_Q_SIZE + 1
      BY <2>3, <2>5, EncoderAssumption
    <2> QED BY <2>2, <2>4, <2>5, <2>6 DEF EncoderInit, EncoderInvariant, Fits, Matched, Polled, Loose
  <1>2. EncoderInvariant => EncoderInv
    BY DEF EncoderInvariant, EncoderInv, EncoderTypeOK, Fits, Matched, Polled, Encoder, Codec
  <1> QED BY <1>1, <1>2, EngineCalls, PTL DEF EncoderSpec

-----------------------------------------------------------------------------
(* The Android decoder, for any codec types, limits and queue of Java.     *)

\* A decoder whose fields agree: a codec that runs is one that Java holds and an
\* initialised decoder uses.
Known(d) ==
    /\ d \in Decoder
    /\ d.codec.state = "live" => d.held
    /\ d.inited \/ d.codec.state # "live"
    /\ d.thrown => d.sw_fallback_required

\* No buffer is on its way to the texture while one waits there.
Apart(d) == ~(d.texture.bufferToRender /\ d.texture.renderedBuffer)

\* Whether or not a call is under way: the frames are counted and the texture is
\* owned.  A decoder that was never flushed in vain keeps its texture in order
\* when it is released, too.
Sane(d) ==
    /\ Known(d)
    /\ d.inited => d.held /\ d.codec.state # "null" /\ Counted(d) /\ Owned(d.texture)
    /\ ~d.inited /\ ~d.sw_fallback_required => Owned(d.texture)

\* A decoder between two calls of the codec thread.
Rest(d) ==
    /\ Sane(d)
    /\ d.inited => Apart(d) /\ d.dequeuedSurfaceOutputBuffers < MAX_QUEUED_OUTPUTBUFFERS

\* A decoder whose codec could not be flushed has fallen back to software.
Dormant(d) ==
    /\ d \in Decoder /\ ~d.inited /\ d.sw_fallback_required
    /\ d.codec.state = "live" => d.held

\* A decoder that is not too far behind and has a poll.
Watched(d) ==
    d.inited => /\ d.behind <= max_pending_frames(d) + 1
                /\ d.poll \/ d.sw_fallback_required

\* The decoder f is d but for its frames and its codec.
Same(d, f) ==
    /\ (f.inited <=> d.inited) /\ (f.sw_fallback_required <=> d.sw_fallback_required)
    /\ (f.poll <=> d.poll) /\ f.codecType = d.codecType /\ f.behind <= d.behind

\* The inductive invariant.  Only a decoder that no call is made of may be dormant.
DecoderInvariant ==
    /\ Watched(dec)
    /\ Rest(dec) \/ (Dormant(dec) /\ call = "none")
    /\ call \in {"none", "resize", "key", "posted", "draining"}
    /\ owner \in {"closed", "open", "refused", "deleted"}

\* The surface texture starts with nothing that anybody uses.
LEMMA NoTextureType == NoTexture \in Texture /\ Owned(NoTexture)
  BY DEF NoTexture, Texture, Owned

\* What an outcome is made of: the record of works() and of fails().
LEMMA OutcomeOf ==
    ASSUME NEW d
    PROVE  works(d).dec = d /\ works(d).ok /\ fails(d).dec = d /\ ~fails(d).ok
  BY DEF works, fails

\* The limit of a decoder is a number: kMaxPendingFrames is given for its type.
LEMMA PendingType ==
    ASSUME NEW d \in Decoder
    PROVE  max_pending_frames(d) \in Nat
  BY DecoderAssumption DEF max_pending_frames, Decoder

-----------------------------------------------------------------------------

\* ReleaseDecodeOnCodecThread: whatever Java throws, the decoder is no more
\* initialised, and what it released it has lost.
LEMMA Released ==
    ASSUME NEW d, Known(d), NEW r \in ReleaseDecodeOnCodecThread(d)
    PROVE  /\ Known(r.dec) /\ ~r.dec.inited
           /\ r.dec.sw_fallback_required = d.sw_fallback_required
           /\ r.dec.codecType = d.codecType
           /\ \/ r.dec = d
              \/ r.dec.codec.state = "null" /\ ~r.dec.held /\ r.dec.texture = NoTexture
<1>1. CASE ~d.inited
  <2>1. r = works(d)
    BY <1>1 DEF ReleaseDecodeOnCodecThread
  <2> QED BY <1>1, <2>1, OutcomeOf
<1>2. CASE d.inited
  <2>1. PICK y \in release_decoder(d) : r = [y EXCEPT !.dec = stopped(y.dec)]
    BY <1>2 DEF ReleaseDecodeOnCodecThread
  <2> DEFINE gone(n) == [d EXCEPT !.codec = no_codec, !.held = FALSE, !.releases = n, !.texture = NoTexture]
  <2>2. PICK n \in 0 .. d.releases + 1 : n <= MaxReleases /\ y \in {works(gone(n)), fails(gone(n))}
    BY <2>1 DEF release_decoder
  <2>3. d \in Decoder /\ (d.thrown => d.sw_fallback_required)
    BY DEF Known
  <2>4. n \in 0 .. MaxReleases
    BY <2>2, <2>3, DecoderAssumption DEF Decoder
  <2>5. no_codec \in [state : {"null", "dead", "live"}, queued : Nat, decoded : Nat] /\ no_codec.state = "null"
    BY DEF no_codec
  <2>6. gone(n) \in Decoder
    BY <2>3, <2>4, <2>5, NoTextureType DEF Decoder
  <2>7. r.dec = stopped(gone(n))
    <3> HIDE DEF gone
    <3> QED BY <2>1, <2>2 DEF works, fails
  <2>8. r.dec = [d EXCEPT !.codec = no_codec, !.held = FALSE, !.releases = n, !.texture = NoTexture,
                          !.inited = FALSE, !.poll = FALSE]
    BY <2>7, <2>3 DEF Decoder, stopped
  <2>9. r.dec \in Decoder
    BY <2>8, <2>3, <2>4, <2>5, NoTextureType DEF Decoder
  <2> QED BY <2>8, <2>9, <2>3, <2>5 DEF Known, Decoder
<1> QED BY <1>1, <1>2

-----------------------------------------------------------------------------

\* A decoder that was configured again, or has fallen back to software.
Ready(d) == Rest(d) /\ Watched(d)

\* sw_fallback_required_ set on a decoder that was released: it rests.
LEMMA FallenBack ==
    ASSUME NEW d, Known(d), ~d.inited
    PROVE  /\ Ready(sw_fallback(d)) /\ ~sw_fallback(d).inited
           /\ sw_fallback(d).sw_fallback_required
<1> DEFINE f == sw_fallback(d)
<1>1. /\ f \in Decoder /\ ~f.inited /\ f.sw_fallback_required
      /\ f.codec = d.codec /\ f.held = d.held
  BY DEF Known, Decoder, sw_fallback
<1> QED BY <1>1 DEF Known, Ready, Rest, Sane, Watched

\* What a decoder that was configured or flushed is.
Blank(d) ==
    /\ d \in Decoder
    /\ d.held /\ d.codec = live_codec /\ d.behind = 0
    /\ d.decodeStartTimeMs = 0 /\ d.dequeuedSurfaceOutputBuffers = 0
    /\ Owned(d.texture) /\ Apart(d)
    /\ d.thrown => d.sw_fallback_required

\* A blank decoder that is initialised and has a poll, or has fallen back, rests.
LEMMA BlankRests ==
    ASSUME NEW d, Blank(d), d.inited, d.poll \/ d.sw_fallback_required
    PROVE  Ready(d)
<1>1. max_pending_frames(d) \in Nat /\ MAX_QUEUED_OUTPUTBUFFERS > 0 /\ MAX_QUEUED_OUTPUTBUFFERS \in Nat
  BY DecoderAssumption, PendingType DEF Blank
<1>2. d.codec.state = "live" /\ d.codec.queued = 0 /\ d.codec.decoded = 0
  BY DEF Blank, live_codec, no_codec
<1>3. Counted(d)
  BY <1>2 DEF Blank, Counted, inside, Apart, Decoder, Texture
<1>4. Known(d)
  BY DEF Blank, Known
<1>5. Sane(d)
  BY <1>2, <1>3, <1>4 DEF Sane, Blank
<1>6. Rest(d)
  BY <1>1, <1>5 DEF Rest, Blank
<1>7. Watched(d)
  BY <1>1 DEF Watched, Blank
<1> QED BY <1>6, <1>7 DEF Ready

\* Java's initDecode(): a configured decoder is blank, and one that could not be
\* configured is still not initialised.
LEMMA Configured ==
    ASSUME NEW d, Known(d), d.behind = 0, ~d.inited, NEW r \in initDecode(d)
    PROVE  /\ ~r.ok => Known(r.dec)
           /\ ~r.dec.inited
           /\ r.ok => Blank(r.dec)
<1> DEFINE java(j) == [d EXCEPT !.held = TRUE, !.codec = j]
           configured == [java(live_codec) EXCEPT !.decodeStartTimeMs = 0,
                              !.dequeuedSurfaceOutputBuffers = 0, !.texture = NoTexture]
<1>0. d \in Decoder /\ (d.thrown => d.sw_fallback_required)
  BY DEF Known
<1>1. \A j \in {no_codec, dead_codec, live_codec} :
        j \in [state : {"null", "dead", "live"}, queued : Nat, decoded : Nat]
  BY DEF no_codec, dead_codec, live_codec
<1>2. CASE d.held
  <2>1. r = fails(d)
    BY <1>2 DEF initDecode
  <2> QED BY <2>1, OutcomeOf
<1>3. CASE r \in {fails(java(no_codec)), fails(java(dead_codec))}
  <2>1. PICK j \in {no_codec, dead_codec} : r = fails(java(j))
    BY <1>3
  <2>2. r.dec = [d EXCEPT !.held = TRUE, !.codec = j] /\ ~r.ok
    BY <2>1, OutcomeOf
  <2>3. j.state # "live"
    BY <2>1 DEF no_codec, dead_codec
  <2>4. r.dec \in Decoder /\ r.dec.codec = j /\ ~r.dec.inited /\ r.dec.thrown = d.thrown
        /\ r.dec.sw_fallback_required = d.sw_fallback_required
    <3>1. j \in [state : {"null", "dead", "live"}, queued : Nat, decoded : Nat]
      BY <1>1, <2>1
    <3> QED BY <2>2, <3>1, <1>0 DEF Decoder
  <2> QED BY <2>2, <2>3, <2>4, <1>0 DEF Known
<1>4. CASE r = works(configured)
  <2>1. r.dec = [d EXCEPT !.held = TRUE, !.codec = live_codec, !.decodeStartTimeMs = 0,
                          !.dequeuedSurfaceOutputBuffers = 0, !.texture = NoTexture]
    <3>1. r.dec = configured
      <4> HIDE DEF configured
      <4> QED BY <1>4, OutcomeOf
    <3> QED BY <3>1, <1>0 DEF Decoder
  <2>2. r.dec \in Decoder
    BY <2>1, <1>0, <1>1, NoTextureType DEF Decoder
  <2>3. Apart(r.dec)
    BY <2>1, <1>0 DEF Apart, NoTexture, Decoder
  <2>4. r.dec.codec = live_codec /\ r.dec.held /\ ~r.dec.inited /\ r.dec.behind = 0
        /\ r.dec.decodeStartTimeMs = 0 /\ r.dec.dequeuedSurfaceOutputBuffers = 0
        /\ r.dec.texture = NoTexture
        /\ (r.dec.thrown => r.dec.sw_fallback_required)
    BY <2>1, <1>0 DEF Decoder
  <2>5. r.ok
    BY <1>4, OutcomeOf
  <2> QED BY <2>2, <2>3, <2>4, <2>5, NoTextureType DEF Blank
<1> QED
  <2>1. ~d.held => r \in {fails(java(no_codec)), fails(java(dead_codec)), works(configured)}
    <3> HIDE DEF java, configured
    <3> USE DEF java, configured
    <3> QED BY DEF initDecode
  <2> HIDE DEF java, configured
  <2> QED BY <1>2, <1>3, <1>4, <2>1

\* InitDecodeOnCodecThread: whichever step of it fails, the decoder rests, and a
\* failure asks for the software decoder.
LEMMA InitSettles ==
    ASSUME NEW d, Known(d), NEW r \in InitDecodeOnCodecThread(d)
    PROVE  /\ Ready(r.dec)
           /\ ~r.ok => r.dec.sw_fallback_required
<1> DEFINE released == ReleaseDecodeOnCodecThread(d)
           fresh == {ResetVariables(f) : f \in worked(released)}
           configured == UNION {initDecode(f) : f \in fresh}
           ready == {[f EXCEPT !.inited = TRUE] : f \in worked(configured)}
           no_surface == {f \in fresh : f.use_surface}
<1>1. \A f \in worked(released) \cup broken(released) : Known(f) /\ ~f.inited
  <2> SUFFICES ASSUME NEW y \in released PROVE Known(y.dec) /\ ~y.dec.inited
    BY DEF worked, broken
  <2> QED BY Released
<1>2. ASSUME NEW f \in fresh PROVE Known(f) /\ ~f.inited /\ f.behind = 0
  <2>1. PICK g \in worked(released) : f = ResetVariables(g)
    OBVIOUS
  <2>2. Known(g) /\ ~g.inited
    BY <1>1
  <2> QED BY <2>1, <2>2 DEF Known, Decoder, ResetVariables
<1>3. ASSUME NEW y \in configured PROVE (~y.ok => Known(y.dec)) /\ ~y.dec.inited /\ (y.ok => Blank(y.dec))
  <2>1. PICK f \in fresh : y \in initDecode(f)
    OBVIOUS
  <2> QED BY <1>2, <2>1, Configured
<1>4. \A f \in worked(configured) : Blank(f)
  BY <1>3 DEF worked
<1>5. ASSUME NEW f \in worked(configured), NEW p \in {f.poll, TRUE}, NEW s \in {f.sw_fallback_required, TRUE}, p \/ s
      PROVE  Ready([f EXCEPT !.inited = TRUE, !.poll = p, !.sw_fallback_required = s])
  <2> DEFINE g == [f EXCEPT !.inited = TRUE, !.poll = p, !.sw_fallback_required = s]
  <2>1. Blank(f)
    BY <1>4
  <2>2. /\ g \in Decoder /\ g.inited /\ (g.poll \/ g.sw_fallback_required)
        /\ g.held /\ g.codec = live_codec /\ g.behind = 0
        /\ g.decodeStartTimeMs = 0 /\ g.dequeuedSurfaceOutputBuffers = 0
        /\ g.texture = f.texture /\ (g.thrown => g.sw_fallback_required)
    BY <1>5, <2>1 DEF Blank, Decoder
  <2> HIDE DEF g
  <2>3. Blank(g)
    BY <2>1, <2>2 DEF Blank, Apart
  <2>4. Ready(g)
    BY <2>2, <2>3, BlankRests
  <2> QED BY <2>4 DEF g
<1>6. CASE \E f \in broken(released) \cup no_surface \cup broken(configured) : r = fails(sw_fallback(f))
  <2>1. PICK f \in broken(released) \cup no_surface \cup broken(configured) : r = fails(sw_fallback(f))
    BY <1>6
  <2>2. Known(f) /\ ~f.inited
    BY <1>1, <1>2, <1>3 DEF broken
  <2> QED BY <2>1, <2>2, FallenBack, OutcomeOf
<1>7. CASE \E f \in ready : r = fails(sw_fallback(f))
  <2>1. PICK f \in worked(configured) : r = fails(sw_fallback([f EXCEPT !.inited = TRUE]))
    BY <1>7
  <2>2. r.dec = [f EXCEPT !.inited = TRUE, !.poll = f.poll, !.sw_fallback_required = TRUE]
    <3>1. f \in Decoder
      BY <1>4 DEF Blank
    <3> HIDE DEF configured
    <3>2. r.dec = sw_fallback([f EXCEPT !.inited = TRUE])
      BY <2>1, OutcomeOf
    <3> QED BY <3>1, <3>2 DEF sw_fallback, Decoder
  <2>3. r.dec.sw_fallback_required
    BY <1>4, <2>1, <2>2 DEF Blank, Decoder
  <2> HIDE DEF configured
  <2> QED BY <1>5, <2>1, <2>2, <2>3
<1>8. CASE \E f \in ready : r = works([f EXCEPT !.poll = TRUE])
  <2>1. PICK f \in worked(configured) : r = works([[f EXCEPT !.inited = TRUE] EXCEPT !.poll = TRUE])
    BY <1>8
  <2>2. r.dec = [f EXCEPT !.inited = TRUE, !.poll = TRUE, !.sw_fallback_required = f.sw_fallback_required]
    <3>1. f \in Decoder
      BY <1>4 DEF Blank
    <3> HIDE DEF configured
    <3>2. r.dec = [[f EXCEPT !.inited = TRUE] EXCEPT !.poll = TRUE]
      BY <2>1, OutcomeOf
    <3> QED BY <3>1, <3>2 DEF Decoder
  <2>3. r.ok
    BY <2>1, OutcomeOf
  <2> HIDE DEF configured
  <2> QED BY <1>4, <1>5, <2>1, <2>2, <2>3 DEF Blank
<1> QED
  <2>1. \/ \E f \in broken(released) \cup no_surface \cup broken(configured) \cup ready : r = fails(sw_fallback(f))
        \/ \E f \in ready : r = works([f EXCEPT !.poll = TRUE])
    BY DEF InitDecodeOnCodecThread
  <2> HIDE DEF released, fresh, configured, ready, no_surface
  <2> QED BY <2>1, <1>6, <1>7, <1>8

\* ProcessHWErrorOnCodecThread, for a decoder that an error has left halfway: it is
\* configured again or has fallen back to software.
LEMMA HWErrorSettles ==
    ASSUME NEW D, \A d \in D : Known(d), NEW f \in after_HWError(D)
    PROVE  Ready(f)
<1>1. PICK d \in D : f \in ProcessHWErrorOnCodecThread(d)
  BY DEF after_HWError
<1> DEFINE released == ReleaseDecodeOnCodecThread(d)
           free == worked(released) \cup broken(released)
           again == UNION {InitDecodeOnCodecThread(g) : g \in free}
<1>2. \A g \in free : Known(g) /\ ~g.inited
  <2> SUFFICES ASSUME NEW y \in released PROVE Known(y.dec) /\ ~y.dec.inited
    BY DEF worked, broken
  <2> QED BY Released
<1>3. CASE d.codecType # "H264"
  <2>1. PICK g \in free : f = sw_fallback(g)
    BY <1>1, <1>3 DEF ProcessHWErrorOnCodecThread
  <2> HIDE DEF free
  <2> QED BY <1>2, <2>1, FallenBack
<1>4. CASE d.codecType = "H264"
  <2>1. f \in worked(again) \cup broken(again)
    BY <1>1, <1>4 DEF ProcessHWErrorOnCodecThread
  <2>2. PICK y \in again : f = y.dec
    <3> HIDE DEF again
    <3> QED BY <2>1 DEF worked, broken
  <2>3. PICK g \in free : y \in InitDecodeOnCodecThread(g)
    OBVIOUS
  <2> HIDE DEF free
  <2> QED BY <1>2, <2>2, <2>3, InitSettles
<1> QED BY <1>3, <1>4

\* ResetDecodeOnCodecThread: the flushed decoder rests, with the frame that was on
\* its way to the texture; one that could not be flushed is dormant.
LEMMA ResetSettles ==
    ASSUME NEW d, Rest(d), NEW r \in ResetDecodeOnCodecThread(d)
    PROVE  /\ r.ok => Ready(r.dec)
           /\ ~r.ok => Dormant(sw_fallback(r.dec))
<1> DEFINE e == ResetVariables(stopped(d))
           R == java_reset(e)
           flushed == [e EXCEPT !.codec = live_codec, !.decodeStartTimeMs = 0, !.dequeuedSurfaceOutputBuffers = 0]
<1>0. d \in Decoder /\ Known(d)
  BY DEF Rest, Sane, Known
<1>1. /\ e \in Decoder /\ ~e.inited /\ e.behind = 0 /\ e.codec = d.codec /\ e.held = d.held
      /\ e.texture = d.texture /\ e.thrown = d.thrown
      /\ e.sw_fallback_required = d.sw_fallback_required
  BY <1>0 DEF Decoder, ResetVariables, stopped
<1> HIDE DEF e
<1>3. CASE r = fails(sw_fallback(e))
  <2>1. ~r.ok /\ r.dec = sw_fallback(e)
    BY <1>3, OutcomeOf
  <2>2. Dormant(sw_fallback(sw_fallback(e)))
    BY <1>0, <1>1 DEF Dormant, sw_fallback, Decoder, Known
  <2> QED BY <2>1, <2>2
<1>4. CASE live(e) /\ r = works([flushed EXCEPT !.inited = TRUE, !.poll = TRUE])
  <2> DEFINE g == [e EXCEPT !.codec = live_codec, !.decodeStartTimeMs = 0, !.dequeuedSurfaceOutputBuffers = 0,
                            !.inited = TRUE, !.poll = TRUE]
  <2>1. r.ok /\ r.dec = g
    <3>1. r.ok /\ r.dec = [flushed EXCEPT !.inited = TRUE, !.poll = TRUE]
      <4> HIDE DEF flushed
      <4> QED BY <1>4, OutcomeOf
    <3> QED BY <3>1, <1>1 DEF Decoder
  <2>2. live_codec \in [state : {"null", "dead", "live"}, queued : Nat, decoded : Nat]
    BY DEF live_codec, no_codec
  <2>3. /\ g \in Decoder /\ g.inited /\ g.poll /\ g.held = d.held /\ g.codec = live_codec /\ g.behind = 0
        /\ g.decodeStartTimeMs = 0 /\ g.dequeuedSurfaceOutputBuffers = 0
        /\ g.texture = d.texture /\ g.thrown = d.thrown
        /\ g.sw_fallback_required = d.sw_fallback_required
    BY <1>1, <2>2 DEF Decoder
  <2>4. d.held /\ d.codec.state = "live"
    BY <1>1, <1>4 DEF live
  <2> HIDE DEF g
  <2>5. CASE d.inited
    <3>1. Owned(d.texture) /\ Apart(d)
      BY <2>5 DEF Rest, Sane
    <3>2. Blank(g)
      BY <2>3, <2>4, <3>1, <1>0 DEF Blank, Apart, Known
    <3> QED BY <2>1, <2>3, <3>2, BlankRests
  <2>6. CASE ~d.inited
    <3>1. FALSE
      BY <1>0, <2>4, <2>6 DEF Known
    <3> QED BY <3>1
  <2> QED BY <2>5, <2>6
<1> QED
  <2>1. R = {fails(e)} \cup IF live(e) THEN {works(flushed)} ELSE {}
    BY DEF java_reset
  <2>2. \/ \E f \in broken(R) : r = fails(sw_fallback(f))
        \/ \E f \in worked(R) : r = works([f EXCEPT !.inited = TRUE, !.poll = TRUE])
    BY DEF ResetDecodeOnCodecThread, e
  <2>3. broken(R) = {e} /\ (worked(R) = IF live(e) THEN {flushed} ELSE {})
    <3> HIDE DEF R, flushed
    <3> QED BY <2>1, OutcomeOf DEF broken, worked
  <2> HIDE DEF R, flushed
  <2> QED BY <1>3, <1>4, <2>2, <2>3

-----------------------------------------------------------------------------

\* The decoder f is d after something that is not of the codec thread.
Moved(d, f) ==
    /\ Sane(f) /\ Same(d, f) /\ f.behind = d.behind
    /\ f.dequeuedSurfaceOutputBuffers = d.dequeuedSurfaceOutputBuffers
    /\ Apart(d) => Apart(f)

\* Two steps of the texture thread are like one.
LEMMA MovedTwice ==
    ASSUME NEW d, NEW f, NEW g, Moved(d, f), Moved(f, g)
    PROVE  Moved(d, g)
  BY DEF Moved, Same

\* A texture changed in its own order moves no frame in or out of the decoder.
LEMMA TextureMoves ==
    ASSUME NEW d, Sane(d), NEW t \in Texture, NEW x \in BOOLEAN,
           Owned(d.texture) =>
               /\ Owned(t) /\ x = d.thrown
               /\ inside([d EXCEPT !.texture = t, !.thrown = x]) = inside(d),
           Apart(d) => ~(t.bufferToRender /\ t.renderedBuffer)
    PROVE  Moved(d, [d EXCEPT !.texture = t, !.thrown = x])
<1> DEFINE f == [d EXCEPT !.texture = t, !.thrown = x]
<1>1. d \in Decoder
  BY DEF Sane, Known
<1>2. /\ f \in Decoder /\ f.texture = t /\ f.thrown = x
      /\ f.inited = d.inited /\ f.sw_fallback_required = d.sw_fallback_required
      /\ f.poll = d.poll /\ f.codecType = d.codecType /\ f.behind = d.behind
      /\ f.dequeuedSurfaceOutputBuffers = d.dequeuedSurfaceOutputBuffers
      /\ f.decodeStartTimeMs = d.decodeStartTimeMs
      /\ f.codec = d.codec /\ f.held = d.held
  BY <1>1 DEF Decoder
<1>3. d.behind \in Nat
  BY <1>1 DEF Decoder
<1>4. Owned(d.texture) => inside(f) = inside(d)
  OBVIOUS
<1> HIDE DEF f
<1>5. Owned(d.texture) => Known(f)
  BY <1>2 DEF Sane, Known
<1>6. ~Owned(d.texture) => ~d.inited /\ d.sw_fallback_required
  BY DEF Sane
<1>7. Known(f)
  BY <1>2, <1>5, <1>6 DEF Sane, Known
<1>8. f.inited => Counted(f)
  BY <1>2, <1>4, <1>6 DEF Sane, Counted
<1>9. Sane(f)
  BY <1>2, <1>6, <1>7, <1>8 DEF Sane
<1>10. Apart(d) => Apart(f)
  BY <1>2 DEF Apart
<1>11. Moved(d, f)
  BY <1>2, <1>3, <1>9, <1>10 DEF Moved, Same
<1> QED BY <1>11 DEF f

\* tryDeliverTextureFrame: the pending texture becomes the one in use, and the
\* buffer on its way to it the rendered one.
LEMMA TextureDelivered ==
    ASSUME NEW d, Sane(d)
    PROVE  Moved(d, tryDeliverTextureFrame(d))
<1> DEFINE t == d.texture
           s == [t EXCEPT !.hasPendingTexture = FALSE, !.isTextureInUse = TRUE,
                          !.bufferToRender = FALSE, !.renderedBuffer = TRUE]
           x == d.thrown \/ t.renderedBuffer \/ ~t.bufferToRender
           f == [d EXCEPT !.texture = s, !.thrown = x]
<1>1. d \in Decoder /\ t \in Texture /\ d.thrown \in BOOLEAN
  BY DEF Sane, Known, Decoder
<1>2. CASE ~t.hasPendingTexture \/ t.isTextureInUse
  <2>1. tryDeliverTextureFrame(d) = d
    BY <1>2 DEF tryDeliverTextureFrame
  <2>2. d.behind <= d.behind
    BY <1>1 DEF Decoder
  <2> QED BY <2>1, <2>2 DEF Moved, Same
<1>3. CASE t.hasPendingTexture /\ ~t.isTextureInUse
  <2>1. tryDeliverTextureFrame(d) = f
    <3>1. tryDeliverTextureFrame(d) =
            [d EXCEPT !.texture.hasPendingTexture = FALSE, !.texture.isTextureInUse = TRUE,
                      !.texture.bufferToRender = FALSE, !.texture.renderedBuffer = TRUE,
                      !.thrown = x]
      BY <1>3 DEF tryDeliverTextureFrame
    <3> QED BY <1>1, <3>1 DEF Decoder, Texture
  <2>2. /\ s \in Texture /\ s.hasPendingTexture = FALSE /\ s.isTextureInUse = TRUE /\ s.bufferToRender = FALSE
        /\ s.renderedBuffer = TRUE /\ s.images = t.images /\ s.taken = t.taken
    BY <1>1 DEF Texture
  <2>3. x \in BOOLEAN
    OBVIOUS
  <2>4. ASSUME Owned(t)
        PROVE  Owned(s) /\ x = d.thrown /\ inside(f) = inside(d)
    <3>1. ~t.renderedBuffer /\ ~t.taken /\ t.bufferToRender /\ t.images = 0
      BY <1>1, <1>3, <2>4 DEF Owned, Texture
    <3>2. Owned(s)
      BY <2>2, <3>1 DEF Owned
    <3>3. x = d.thrown
      BY <1>1, <3>1
    <3>4. f.texture = s /\ f.decodeStartTimeMs = d.decodeStartTimeMs
          /\ f.dequeuedSurfaceOutputBuffers = d.dequeuedSurfaceOutputBuffers
      BY <1>1 DEF Decoder
    <3>5. inside(f) = inside(d)
      <4> HIDE DEF f
      <4> QED BY <1>1, <2>2, <3>1, <3>4 DEF inside, Decoder
    <3> QED BY <3>2, <3>3, <3>5
  <2> HIDE DEF s, x
  <2>5. Moved(d, f)
    BY <2>2, <2>3, <2>4, TextureMoves
  <2> QED BY <2>1, <2>5
<1> QED BY <1>1, <1>2, <1>3 DEF Texture

\* onFrameAvailable, for an image that was rendered.
LEMMA Announces ==
    ASSUME NEW d, Sane(d), d.texture.images > 0
    PROVE  Moved(d, announced(d))
<1> DEFINE t == d.texture
           s == [t EXCEPT !.images = t.images - 1, !.hasPendingTexture = TRUE]
           f == [d EXCEPT !.texture = s, !.thrown = d.thrown]
<1>1. d \in Decoder /\ t \in Texture /\ d.thrown \in BOOLEAN
  BY DEF Sane, Known, Decoder
<1>0. t.images \in Nat /\ t.images - 1 \in Nat
  BY <1>1 DEF Texture
<1>2. /\ s \in Texture /\ s.hasPendingTexture = TRUE /\ s.isTextureInUse = t.isTextureInUse
      /\ s.bufferToRender = t.bufferToRender
      /\ s.renderedBuffer = t.renderedBuffer /\ s.images = t.images - 1 /\ s.taken = t.taken
  BY <1>0, <1>1 DEF Texture
<1>3. ASSUME Owned(t)
      PROVE  Owned(s) /\ inside(f) = inside(d)
  <2>1. t.images = 1 /\ t.bufferToRender
    BY <1>1, <1>3 DEF Owned, Texture
  <2>2. Owned(s)
    BY <1>2, <1>3, <2>1 DEF Owned
  <2>3. f.texture = s /\ f.decodeStartTimeMs = d.decodeStartTimeMs
        /\ f.dequeuedSurfaceOutputBuffers = d.dequeuedSurfaceOutputBuffers
    BY <1>1 DEF Decoder
  <2>4. inside(f) = inside(d)
    <3> HIDE DEF f
    <3> QED BY <1>1, <1>2, <2>3 DEF inside
  <2> QED BY <2>2, <2>4
<1>4. announced(d) = tryDeliverTextureFrame(f)
  <2>1. f = [d EXCEPT !.texture.images = @ - 1, !.texture.hasPendingTexture = TRUE]
    BY <1>1 DEF Decoder, Texture
  <2> HIDE DEF f
  <2> QED BY <2>1 DEF announced
<1>5. Apart(d) => ~(s.bufferToRender /\ s.renderedBuffer)
  BY <1>2 DEF Apart
<1> HIDE DEF s
<1>6. Moved(d, f)
  BY <1>1, <1>2, <1>3, <1>5, TextureMoves
<1> HIDE DEF f
<1>7. Moved(f, tryDeliverTextureFrame(f))
  BY <1>6, TextureDelivered DEF Moved
<1> QED BY <1>4, <1>6, <1>7, MovedTwice

\* returnTextureFrame, for a texture that C++ has taken.
LEMMA Returns ==
    ASSUME NEW d, Sane(d), d.texture.taken
    PROVE  Moved(d, returned(d))
<1> DEFINE t == d.texture
           s == [t EXCEPT !.taken = FALSE, !.isTextureInUse = FALSE]
           f == [d EXCEPT !.texture = s, !.thrown = d.thrown]
<1>1. d \in Decoder /\ t \in Texture /\ d.thrown \in BOOLEAN
  BY DEF Sane, Known, Decoder
<1>2. /\ s \in Texture /\ s.hasPendingTexture = t.hasPendingTexture /\ s.isTextureInUse = FALSE
      /\ s.bufferToRender = t.bufferToRender
      /\ s.renderedBuffer = t.renderedBuffer /\ s.images = t.images /\ s.taken = FALSE
  BY <1>1 DEF Texture
<1>3. ASSUME Owned(t)
      PROVE  Owned(s) /\ inside(f) = inside(d)
  <2>1. ~t.renderedBuffer
    BY <1>1, <1>3 DEF Owned, Texture
  <2>2. Owned(s)
    BY <1>2, <1>3, <2>1 DEF Owned
  <2>3. f.texture = s /\ f.decodeStartTimeMs = d.decodeStartTimeMs
        /\ f.dequeuedSurfaceOutputBuffers = d.dequeuedSurfaceOutputBuffers
    BY <1>1 DEF Decoder
  <2>4. inside(f) = inside(d)
    <3> HIDE DEF f
    <3> QED BY <1>1, <1>2, <2>3 DEF inside
  <2> QED BY <2>2, <2>4
<1>4. returned(d) = tryDeliverTextureFrame(f)
  <2>1. f = [d EXCEPT !.texture.taken = FALSE, !.texture.isTextureInUse = FALSE]
    BY <1>1 DEF Decoder, Texture
  <2> HIDE DEF f
  <2> QED BY <2>1 DEF returned
<1>5. Apart(d) => ~(s.bufferToRender /\ s.renderedBuffer)
  BY <1>2 DEF Apart
<1> HIDE DEF s
<1>6. Moved(d, f)
  BY <1>1, <1>2, <1>3, <1>5, TextureMoves
<1> HIDE DEF f
<1>7. Moved(f, tryDeliverTextureFrame(f))
  BY <1>6, TextureDelivered DEF Moved
<1> QED BY <1>4, <1>6, <1>7, MovedTwice

\* What the texture thread does while the codec thread waits for it.
LEMMA MovesMeanwhile ==
    ASSUME NEW d, Sane(d), NEW g \in meanwhile(d)
    PROVE  Moved(d, g)
<1> DEFINE arrived(f) == IF f.texture.images > 0 THEN {f, announced(f)} ELSE {f}
           freed(f) == IF f.texture.taken THEN {f, returned(f)} ELSE {f}
<1>1. ASSUME NEW f, Sane(f), NEW h \in arrived(f) \cup freed(f)
      PROVE  Moved(f, h)
  <2>1. f.behind <= f.behind
    BY <1>1 DEF Sane, Known, Decoder
  <2>2. Moved(f, f)
    BY <1>1, <2>1 DEF Moved, Same
  <2> QED BY <1>1, <2>2, Announces, Returns
<1>2. \/ \E f \in freed(d) : g \in arrived(f)
      \/ \E f \in arrived(d) : g \in freed(f)
  <2> DEFINE A == {arrived(f) : f \in freed(d)}
             B == {freed(f) : f \in arrived(d)}
  <2>1. g \in UNION (A \cup B)
    BY DEF meanwhile
  <2>2. PICK S \in A \cup B : g \in S
    <3> HIDE DEF A, B
    <3> QED BY <2>1
  <2>3. CASE S \in A
    <3>1. PICK f \in freed(d) : S = arrived(f)
      BY <2>3
    <3> QED BY <2>2, <3>1
  <2>4. CASE S \in B
    <3>1. PICK f \in arrived(d) : S = freed(f)
      BY <2>4
    <3> QED BY <2>2, <3>1
  <2> QED BY <2>2, <2>3, <2>4
<1> HIDE DEF arrived, freed
<1>3. PICK f : (f \in freed(d) /\ g \in arrived(f)) \/ (f \in arrived(d) /\ g \in freed(f))
  BY <1>2
<1>4. Moved(d, f)
  BY <1>1, <1>3
<1>5. Moved(f, g)
  BY <1>1, <1>3, <1>4 DEF Moved
<1> QED BY <1>4, <1>5, MovedTwice

-----------------------------------------------------------------------------

\* The decoder f is d with an output taken from the codec: there may be a buffer
\* more in the queue of Java until it has been looked at.
Queued(d, f) ==
    /\ Sane(f) /\ Same(d, f) /\ f.behind = d.behind
    /\ d.inited => Apart(f) /\ f.dequeuedSurfaceOutputBuffers <= MAX_QUEUED_OUTPUTBUFFERS

\* The queue is full only while no frame waits in two places.
Looked(d, f) ==
    /\ Sane(f) /\ Same(d, f) /\ f.behind = d.behind
    /\ d.inited => /\ f.dequeuedSurfaceOutputBuffers <= MAX_QUEUED_OUTPUTBUFFERS
                   /\ f.dequeuedSurfaceOutputBuffers = MAX_QUEUED_OUTPUTBUFFERS => Apart(f)

\* What a call leaves of d.
Outcome(d, r) == Known(r.dec) /\ (r.ok => Rest(r.dec) /\ Same(d, r.dec))

\* A buffer of the queue is given to the surface, and the surface may fail.
given(d) == [d EXCEPT !.dequeuedSurfaceOutputBuffers = @ - 1, !.texture.bufferToRender = TRUE]
shown(d) == [given(d) EXCEPT !.texture.images = @ + 1]

\* MaybeRenderDecodedTextureBuffer: a buffer is given to the surface only when none
\* is on its way.
LEMMA RenderCases ==
    ASSUME NEW d \in Decoder, NEW r \in MaybeRenderDecodedTextureBuffer(d)
    PROVE  \/ r = works(d) /\ (d.dequeuedSurfaceOutputBuffers = 0 \/ d.texture.bufferToRender)
           \/ /\ d.dequeuedSurfaceOutputBuffers > 0 /\ ~d.texture.bufferToRender
              /\ r = fails(given(d)) \/ (r = works(shown(d)) /\ live(d))
<1>1. d.dequeuedSurfaceOutputBuffers \in Nat
  BY DEF Decoder
<1> QED BY <1>1 DEF MaybeRenderDecodedTextureBuffer, given, shown

\* What a decoder is after a buffer of its queue was given to the surface.
LEMMA GivenFields ==
    ASSUME NEW d \in Decoder, d.dequeuedSurfaceOutputBuffers > 0
    PROVE  /\ given(d) \in Decoder /\ given(d).codec = d.codec /\ given(d).held = d.held
           /\ given(d).inited = d.inited /\ given(d).thrown = d.thrown
           /\ given(d).sw_fallback_required = d.sw_fallback_required
<1> DEFINE s == [d.texture EXCEPT !.bufferToRender = TRUE]
<1>1. d.texture \in Texture /\ d.dequeuedSurfaceOutputBuffers - 1 \in Nat
  BY DEF Decoder
<1>2. s \in Texture
  BY <1>1 DEF Texture
<1>3. given(d) = [d EXCEPT !.dequeuedSurfaceOutputBuffers = d.dequeuedSurfaceOutputBuffers - 1, !.texture = s]
  BY <1>1 DEF given, Decoder
<1> DEFINE n == d.dequeuedSurfaceOutputBuffers - 1
           f == [d EXCEPT !.dequeuedSurfaceOutputBuffers = n, !.texture = s]
<1> HIDE DEF s, n
<1>4. n \in Nat
  BY <1>1 DEF n
<1>5. /\ f \in Decoder /\ f.codec = d.codec /\ f.held = d.held
      /\ f.inited = d.inited /\ f.thrown = d.thrown
      /\ f.sw_fallback_required = d.sw_fallback_required
  BY <1>2, <1>4 DEF Decoder
<1> QED BY <1>3, <1>5 DEF n

\* What a decoder is after the surface has rendered that buffer.
LEMMA ShownFields ==
    ASSUME NEW d \in Decoder, d.dequeuedSurfaceOutputBuffers > 0
    PROVE  /\ shown(d) \in Decoder /\ shown(d).codec = d.codec /\ shown(d).held = d.held
           /\ shown(d).inited = d.inited /\ shown(d).thrown = d.thrown
           /\ shown(d).sw_fallback_required = d.sw_fallback_required
           /\ shown(d).poll = d.poll /\ shown(d).codecType = d.codecType
           /\ shown(d).behind = d.behind /\ shown(d).decodeStartTimeMs = d.decodeStartTimeMs
           /\ shown(d).dequeuedSurfaceOutputBuffers = d.dequeuedSurfaceOutputBuffers - 1
           /\ shown(d).texture.bufferToRender = TRUE
           /\ shown(d).texture.images = d.texture.images + 1
           /\ shown(d).texture.renderedBuffer = d.texture.renderedBuffer
           /\ shown(d).texture.hasPendingTexture = d.texture.hasPendingTexture
           /\ shown(d).texture.isTextureInUse = d.texture.isTextureInUse
           /\ shown(d).texture.taken = d.texture.taken
<1> DEFINE s == [d.texture EXCEPT !.bufferToRender = TRUE, !.images = d.texture.images + 1]
<1>0. d.texture \in Texture /\ d.dequeuedSurfaceOutputBuffers \in Nat
  BY DEF Decoder
<1>1. d.texture \in Texture /\ d.dequeuedSurfaceOutputBuffers - 1 \in Nat /\ d.texture.images + 1 \in Nat
  BY <1>0 DEF Texture
<1>2. /\ s \in Texture /\ s.bufferToRender = TRUE /\ s.images = d.texture.images + 1
      /\ s.renderedBuffer = d.texture.renderedBuffer
      /\ s.hasPendingTexture = d.texture.hasPendingTexture
      /\ s.isTextureInUse = d.texture.isTextureInUse /\ s.taken = d.texture.taken
  BY <1>1 DEF Texture
<1>3. shown(d) = [d EXCEPT !.dequeuedSurfaceOutputBuffers = d.dequeuedSurfaceOutputBuffers - 1, !.texture = s]
  BY <1>1 DEF given, shown, Decoder, Texture
<1> HIDE DEF s
<1> QED BY <1>1, <1>2, <1>3 DEF Decoder

\* An output is taken from the codec.
took(d) == [d EXCEPT !.codec.decoded = @ - 1, !.decodeStartTimeMs = @ - 1]

\* What a decoder is after an output was taken from the codec.
LEMMA TookFields ==
    ASSUME NEW d \in Decoder, d.codec.decoded # 0, d.decodeStartTimeMs > 0
    PROVE  /\ took(d) \in Decoder /\ took(d).held = d.held
           /\ took(d).inited = d.inited /\ took(d).thrown = d.thrown
           /\ took(d).sw_fallback_required = d.sw_fallback_required
           /\ took(d).poll = d.poll /\ took(d).codecType = d.codecType
           /\ took(d).behind = d.behind /\ took(d).texture = d.texture
           /\ took(d).decodeStartTimeMs = d.decodeStartTimeMs - 1
           /\ took(d).dequeuedSurfaceOutputBuffers = d.dequeuedSurfaceOutputBuffers
           /\ took(d).codec.state = d.codec.state
           /\ took(d).codec.queued = d.codec.queued
           /\ took(d).codec.decoded = d.codec.decoded - 1
<1> DEFINE Codecs == [state : {"null", "dead", "live"}, queued : Nat, decoded : Nat]
           k == [d.codec EXCEPT !.decoded = d.codec.decoded - 1]
           m == d.decodeStartTimeMs - 1
<1>1. d.codec \in Codecs /\ d.decodeStartTimeMs \in Nat
  BY DEF Decoder
<1>2. d.codec.decoded \in Nat
  BY <1>1
<1>3. m \in Nat /\ d.codec.decoded - 1 \in Nat
  BY <1>1, <1>2
<1>4. k \in Codecs /\ k.state = d.codec.state /\ k.queued = d.codec.queued /\ k.decoded = d.codec.decoded - 1
  BY <1>1, <1>3
<1>5. took(d) = [d EXCEPT !.codec = k, !.decodeStartTimeMs = m]
  BY <1>1 DEF took, Decoder
<1> HIDE DEF k, m
<1>6. /\ [d EXCEPT !.codec = k, !.decodeStartTimeMs = m] \in Decoder
  BY <1>3, <1>4 DEF Decoder
<1>7. took(d).decodeStartTimeMs = m /\ took(d).codec = k
  BY <1>5 DEF Decoder
<1>8. took(d).decodeStartTimeMs = d.decodeStartTimeMs - 1
  BY <1>7 DEF m
<1> QED BY <1>4, <1>5, <1>6, <1>7, <1>8 DEF Decoder

\* What a decoder is after frames_decoded_ was counted.
LEMMA OneDecoded ==
    ASSUME NEW d \in Decoder, d.behind > 0
    PROVE  /\ decoded_one(d) \in Decoder /\ decoded_one(d).behind = d.behind - 1
           /\ decoded_one(d).held = d.held
           /\ decoded_one(d).inited = d.inited /\ decoded_one(d).thrown = d.thrown
           /\ decoded_one(d).sw_fallback_required = d.sw_fallback_required
           /\ decoded_one(d).poll = d.poll /\ decoded_one(d).codecType = d.codecType
           /\ decoded_one(d).texture = d.texture /\ decoded_one(d).codec = d.codec
           /\ decoded_one(d).decodeStartTimeMs = d.decodeStartTimeMs
           /\ decoded_one(d).dequeuedSurfaceOutputBuffers = d.dequeuedSurfaceOutputBuffers
<1> DEFINE n == d.behind - 1
<1>1. n \in Nat
  BY DEF Decoder
<1>2. decoded_one(d) = [d EXCEPT !.behind = n]
  BY DEF decoded_one
<1>3. decoded_one(d).behind = d.behind - 1
  BY DEF decoded_one, Decoder
<1> HIDE DEF n
<1> QED BY <1>1, <1>2, <1>3 DEF Decoder

\* The frames inside a decoder are a number.
LEMMA InsideType ==
    ASSUME NEW d \in Decoder
    PROVE  inside(d) \in Nat
  BY DEF Decoder, inside

\* An output copied out of a buffer: the frame leaves the codec and is counted.
LEMMA ByteOutcome ==
    ASSUME NEW d, Rest(d), d.behind > 0, NEW r \in byte_output(d)
    PROVE  Outcome(d, r)
<1> DEFINE copies(f) == {works(decoded_one(f)), fails(f)}
<1>1. d \in Decoder /\ Known(d) /\ d.behind \in Nat /\ d.decodeStartTimeMs \in Nat /\ d.codec.decoded \in Nat
  BY DEF Rest, Sane, Known, Decoder
<1>2. \/ r = fails(d)
      \/ r = works(d)
      \/ /\ d.held /\ d.decodeStartTimeMs > 0 /\ d.codec.state = "live" /\ d.codec.decoded # 0
         /\ r \in {works(decoded_one(took(d))), fails(took(d))}
  <2>1. r \in dequeueOutputBuffer(d, copies)
    BY DEF byte_output
  <2> QED BY <1>1, <2>1 DEF dequeueOutputBuffer, took
<1>3. CASE r = fails(d)
  BY <1>1, <1>3, OutcomeOf DEF Outcome
<1>4. CASE r = works(d)
  BY <1>1, <1>4, OutcomeOf DEF Outcome, Same
<1>5. CASE /\ d.held /\ d.decodeStartTimeMs > 0 /\ d.codec.state = "live" /\ d.codec.decoded # 0
           /\ r \in {works(decoded_one(took(d))), fails(took(d))}
  <2> DEFINE f == took(d)
             g == decoded_one(f)
  <2>1. Known(f) /\ f.behind > 0 /\ f \in Decoder
    BY <1>1, <1>5, TookFields DEF Known
  <2>2. d.inited /\ Counted(d) /\ Owned(d.texture) /\ Apart(d)
        /\ d.dequeuedSurfaceOutputBuffers < MAX_QUEUED_OUTPUTBUFFERS
    BY <1>1, <1>5 DEF Known, Rest, Sane
  <2>3. /\ g \in Decoder /\ g.held /\ g.inited /\ g.codec.state = "live"
        /\ (g.thrown <=> d.thrown) /\ (g.sw_fallback_required <=> d.sw_fallback_required)
        /\ (g.poll <=> d.poll) /\ g.codecType = d.codecType /\ g.texture = d.texture
        /\ g.behind = d.behind - 1 /\ g.decodeStartTimeMs = d.decodeStartTimeMs - 1
        /\ g.dequeuedSurfaceOutputBuffers = d.dequeuedSurfaceOutputBuffers
        /\ g.codec.queued = d.codec.queued /\ g.codec.decoded = d.codec.decoded - 1
    <3>1. f = took(d)
      OBVIOUS
    <3> HIDE DEF f
    <3> QED BY <1>1, <1>5, <2>1, <2>2, <3>1, TookFields, OneDecoded
  <2>4. r.dec \in {f, g} /\ (r.ok => r.dec = g)
    <3> HIDE DEF f, g
    <3>1. r \in {works(g), fails(f)}
      BY <1>5 DEF f, g
    <3> QED BY <3>1, OutcomeOf
  <2> HIDE DEF f, g
  <2>5. Known(g)
    BY <1>1, <2>3 DEF Known
  <2>6. Counted(g)
    <3>1. inside(g) = inside(d) - 1
      BY <1>1, <2>3 DEF inside, Decoder
    <3>2. inside(d) \in Nat
      BY <1>1, InsideType
    <3>3. d.codec.queued \in Nat
      BY <1>1 DEF Decoder
    <3> QED BY <1>1, <1>5, <2>2, <2>3, <3>1, <3>2, <3>3 DEF Counted
  <2>7. Rest(g)
    BY <2>2, <2>3, <2>5, <2>6 DEF Rest, Sane, Apart
  <2> QED BY <1>1, <2>1, <2>2, <2>3, <2>4, <2>5, <2>7 DEF Outcome, Same
<1> QED BY <1>2, <1>3, <1>4, <1>5

\* A buffer is added to the queue of Java.
more(d) == [d EXCEPT !.dequeuedSurfaceOutputBuffers = @ + 1]

\* dequeueTextureBuffer by its three parts: an output goes to the queue, the queue
\* is rendered from, and a texture is taken.
LEMMA TextureCases ==
    ASSUME NEW d \in Decoder, NEW timeout, NEW r \in texture_output(d, timeout)
    PROVE  \/ r = fails(d)
           \/ \E f : /\ \/ f = d
                        \/ /\ live(d) /\ d.decodeStartTimeMs > 0 /\ d.codec.decoded # 0
                           /\ f = more(took(d))
                     /\ \E y \in MaybeRenderDecodedTextureBuffer(f) :
                          \/ ~y.ok /\ r = fails(y.dec)
                          \/ y.ok /\ \E g \in (IF timeout THEN meanwhile(y.dec) ELSE {y.dec}) : r \in take_texture(g, timeout)
<1> DEFINE queue(f) == {works([f EXCEPT !.dequeuedSurfaceOutputBuffers = @ + 1])}
           look(f) == UNION {take_texture(g, timeout) : g \in IF timeout THEN meanwhile(f) ELSE {f}}
           D == dequeueOutputBuffer(d, queue)
           M == and_then(D, MaybeRenderDecodedTextureBuffer)
<1>1. r \in and_then(M, look)
  BY DEF texture_output
<1>2. \/ \E m \in M : ~m.ok /\ r = fails(m.dec)
      \/ \E m \in M : m.ok /\ r \in look(m.dec)
  <2> HIDE DEF M, look
  <2> QED BY <1>1 DEF and_then, worked, broken
<1>3. ASSUME NEW m \in M
      PROVE  \/ \E n \in D : ~n.ok /\ m = fails(n.dec)
             \/ \E n \in D : n.ok /\ m \in MaybeRenderDecodedTextureBuffer(n.dec)
  <2> HIDE DEF D
  <2> QED BY <1>3 DEF and_then, worked, broken
<1>4. ASSUME NEW n \in D
      PROVE  \/ n = fails(d) \/ n = works(d)
             \/ live(d) /\ d.decodeStartTimeMs > 0 /\ d.codec.decoded # 0 /\ n = works(more(took(d)))
  <2>1. d.decodeStartTimeMs \in Nat
    BY DEF Decoder
  <2> QED BY <1>4, <2>1 DEF dequeueOutputBuffer, live, took, more
<1> DEFINE good(f) == \/ f = d
                       \/ /\ live(d) /\ d.decodeStartTimeMs > 0 /\ d.codec.decoded # 0
                          /\ f = more(took(d))
           rest(y) == \/ ~y.ok /\ r = fails(y.dec)
                      \/ y.ok /\ \E g \in (IF timeout THEN meanwhile(y.dec) ELSE {y.dec}) : r \in take_texture(g, timeout)
<1>5. ASSUME NEW n \in D
      PROVE  (~n.ok => n.dec = d) /\ (n.ok => good(n.dec))
  <2> HIDE DEF D
  <2> QED BY <1>4, <1>5, OutcomeOf
<1>6. ASSUME NEW m \in M
      PROVE  \/ ~m.ok /\ m.dec = d
             \/ \E f : good(f) /\ m \in MaybeRenderDecodedTextureBuffer(f)
  <2> HIDE DEF M, D, good
  <2> QED BY <1>3, <1>5, <1>6, OutcomeOf
<1>7. \E m \in M : rest(m)
  <2>1. CASE \E m \in M : ~m.ok /\ r = fails(m.dec)
    BY <2>1
  <2>2. CASE \E m \in M : m.ok /\ r \in look(m.dec)
    <3> HIDE DEF M
    <3> QED BY <2>2
  <2> HIDE DEF M, look, rest
  <2> QED BY <1>2, <2>1, <2>2
<1>8. PICK m \in M : rest(m)
  BY <1>7
<1>9. CASE ~m.ok /\ m.dec = d
  BY <1>8, <1>9
<1>10. CASE \E f : good(f) /\ m \in MaybeRenderDecodedTextureBuffer(f)
  <2> HIDE DEF M
  <2> QED BY <1>8, <1>10
<1> QED
  <2> HIDE DEF M, good, rest
  <2> QED BY <1>6, <1>9, <1>10

\* The first part: after it the queue may hold one buffer more than at rest.
LEMMA QueuedRests ==
    ASSUME NEW d, Rest(d), NEW f,
           \/ f = d
           \/ live(d) /\ d.decodeStartTimeMs > 0 /\ d.codec.decoded # 0 /\ f = more(took(d))
    PROVE  Queued(d, f)
<1>1. d \in Decoder /\ Known(d) /\ d.behind \in Nat /\ d.decodeStartTimeMs \in Nat /\ d.codec.decoded \in Nat
      /\ d.dequeuedSurfaceOutputBuffers \in Nat /\ MAX_QUEUED_OUTPUTBUFFERS \in Nat
  BY DecoderAssumption DEF Rest, Sane, Known, Decoder
<1>2. CASE f = d
  BY <1>1, <1>2 DEF Rest, Queued, Same
<1>3. CASE live(d) /\ d.decodeStartTimeMs > 0 /\ d.codec.decoded # 0 /\ f = more(took(d))
  <2> DEFINE e == took(d)
             n == d.dequeuedSurfaceOutputBuffers + 1
  <2>1. d.inited /\ Counted(d) /\ Owned(d.texture) /\ Apart(d) /\ d.held /\ d.codec.state = "live"
        /\ d.dequeuedSurfaceOutputBuffers < MAX_QUEUED_OUTPUTBUFFERS
    BY <1>1, <1>3 DEF Known, Rest, Sane, live
  <2>2. e \in Decoder /\ e.dequeuedSurfaceOutputBuffers = d.dequeuedSurfaceOutputBuffers
    BY <1>1, <1>3, TookFields
  <2>3. f = [e EXCEPT !.dequeuedSurfaceOutputBuffers = n]
    BY <1>3, <2>2 DEF more
  <2>4. n \in Nat
    BY <1>1
  <2>5. /\ f \in Decoder /\ f.held = e.held /\ f.inited = e.inited /\ f.codec = e.codec
        /\ f.thrown = e.thrown /\ f.sw_fallback_required = e.sw_fallback_required
        /\ f.poll = e.poll /\ f.codecType = e.codecType /\ f.texture = e.texture
        /\ f.behind = e.behind /\ f.decodeStartTimeMs = e.decodeStartTimeMs
        /\ f.dequeuedSurfaceOutputBuffers = n
    <3> HIDE DEF e, n
    <3> QED BY <2>2, <2>3, <2>4 DEF Decoder
  <2>6. /\ (f.thrown <=> d.thrown) /\ (f.sw_fallback_required <=> d.sw_fallback_required)
        /\ (f.poll <=> d.poll) /\ (f.held <=> d.held) /\ (f.inited <=> d.inited)
        /\ f.codecType = d.codecType /\ f.texture = d.texture
        /\ f.behind = d.behind /\ f.decodeStartTimeMs = d.decodeStartTimeMs - 1
        /\ f.dequeuedSurfaceOutputBuffers = d.dequeuedSurfaceOutputBuffers + 1
        /\ f.codec.state = d.codec.state
        /\ f.codec.queued = d.codec.queued /\ f.codec.decoded = d.codec.decoded - 1
    BY <1>1, <1>3, <2>5, TookFields
  <2> HIDE DEF e, n
  <2>7. Known(f)
    BY <1>1, <2>1, <2>5, <2>6 DEF Known
  <2>8. Counted(f)
    <3>1. inside(f) = inside(d)
      BY <1>1, <2>6 DEF inside, Decoder
    <3>2. d.codec.queued \in Nat
      BY <1>1 DEF Decoder
    <3> QED BY <1>1, <2>1, <2>6, <3>1, <3>2 DEF Counted
  <2> QED BY <1>1, <2>1, <2>6, <2>7, <2>8 DEF Queued, Sane, Same, Apart
<1> QED BY <1>2, <1>3

\* The second part: the buffer that is rendered makes room in the queue.
LEMMA RenderedRests ==
    ASSUME NEW d, NEW f, Queued(d, f), NEW r \in MaybeRenderDecodedTextureBuffer(f)
    PROVE  Known(r.dec) /\ (r.ok => Looked(d, r.dec))
<1>1. f \in Decoder /\ Known(f) /\ f.dequeuedSurfaceOutputBuffers \in Nat /\ f.texture \in Texture
      /\ f.decodeStartTimeMs \in Nat
      /\ MAX_QUEUED_OUTPUTBUFFERS \in Nat
  BY DecoderAssumption DEF Queued, Sane, Known, Decoder
<1>2. CASE r = works(f)
  BY <1>1, <1>2, OutcomeOf DEF Queued, Looked
<1>3. CASE f.dequeuedSurfaceOutputBuffers > 0 /\ r = fails(given(f))
  BY <1>1, <1>3, OutcomeOf, GivenFields DEF Known
<1>4. CASE f.dequeuedSurfaceOutputBuffers > 0 /\ ~f.texture.bufferToRender /\ r = works(shown(f)) /\ live(f)
  <2> DEFINE g == shown(f)
  <2>1. /\ g \in Decoder /\ g.codec = f.codec /\ (g.held <=> f.held)
        /\ (g.inited <=> f.inited) /\ (g.thrown <=> f.thrown)
        /\ (g.sw_fallback_required <=> f.sw_fallback_required)
        /\ (g.poll <=> f.poll) /\ g.codecType = f.codecType
        /\ g.behind = f.behind /\ g.decodeStartTimeMs = f.decodeStartTimeMs
        /\ g.dequeuedSurfaceOutputBuffers = f.dequeuedSurfaceOutputBuffers - 1
        /\ g.texture.bufferToRender
        /\ g.texture.images = f.texture.images + 1
        /\ (g.texture.renderedBuffer <=> f.texture.renderedBuffer)
        /\ (g.texture.hasPendingTexture <=> f.texture.hasPendingTexture)
        /\ (g.texture.isTextureInUse <=> f.texture.isTextureInUse)
        /\ (g.texture.taken <=> f.texture.taken)
    BY <1>1, <1>4, ShownFields
  <2> HIDE DEF g
  <2>2. f.inited /\ Owned(f.texture) /\ Counted(f) /\ f.held /\ f.codec.state # "null"
    BY <1>1, <1>4 DEF Queued, Sane, Known, live
  <2>3. f.texture.images = 0 /\ ~f.texture.hasPendingTexture
    BY <1>1, <1>4, <2>2 DEF Owned, Texture
  <2>4. Owned(g.texture)
    BY <2>1, <2>2, <2>3 DEF Owned
  <2>5. Counted(g)
    <3>1. inside(g) = inside(f)
      BY <1>1, <1>4, <2>1 DEF inside
    <3> QED BY <2>1, <2>2, <3>1 DEF Counted
  <2>6. Known(g)
    BY <1>1, <2>1 DEF Known
  <2>7. Sane(g)
    BY <2>1, <2>2, <2>4, <2>5, <2>6 DEF Sane
  <2>8. Looked(d, g)
    <3>1. d.inited /\ f.dequeuedSurfaceOutputBuffers <= MAX_QUEUED_OUTPUTBUFFERS
      BY <2>2 DEF Queued, Same
    <3>2. g.dequeuedSurfaceOutputBuffers < MAX_QUEUED_OUTPUTBUFFERS
      BY <1>1, <2>1, <3>1
    <3>3. Same(d, g) /\ g.behind = d.behind
      BY <2>1 DEF Queued, Same
    <3> QED BY <1>1, <2>1, <2>7, <3>2, <3>3 DEF Looked
  <2>9. r.dec = g /\ r.ok
    BY <1>4, OutcomeOf DEF g
  <2> QED BY <2>6, <2>8, <2>9
<1> QED BY <1>1, <1>2, <1>3, <1>4, RenderCases

\* The texture that was ready is taken by C++.
free(d) == [d EXCEPT !.texture.renderedBuffer = FALSE]
used(d) == [decoded_one(d) EXCEPT !.texture.taken = TRUE]
skipped(d) == [decoded_one(d) EXCEPT !.dequeuedSurfaceOutputBuffers = @ - 1]

\* What a decoder is after the rendered buffer was taken.
LEMMA FreeFields ==
    ASSUME NEW d \in Decoder
    PROVE  /\ free(d) \in Decoder /\ free(d).codec = d.codec /\ free(d).held = d.held
           /\ free(d).inited = d.inited /\ free(d).thrown = d.thrown
           /\ free(d).sw_fallback_required = d.sw_fallback_required
           /\ free(d).poll = d.poll /\ free(d).codecType = d.codecType
           /\ free(d).behind = d.behind /\ free(d).decodeStartTimeMs = d.decodeStartTimeMs
           /\ free(d).dequeuedSurfaceOutputBuffers = d.dequeuedSurfaceOutputBuffers
           /\ free(d).texture.renderedBuffer = FALSE
           /\ free(d).texture.bufferToRender = d.texture.bufferToRender
           /\ free(d).texture.images = d.texture.images
           /\ free(d).texture.hasPendingTexture = d.texture.hasPendingTexture
           /\ free(d).texture.isTextureInUse = d.texture.isTextureInUse
           /\ free(d).texture.taken = d.texture.taken
<1> DEFINE s == [d.texture EXCEPT !.renderedBuffer = FALSE]
<1>1. d.texture \in Texture
  BY DEF Decoder
<1>2. /\ s \in Texture /\ s.renderedBuffer = FALSE /\ s.images = d.texture.images
      /\ s.bufferToRender = d.texture.bufferToRender
      /\ s.hasPendingTexture = d.texture.hasPendingTexture
      /\ s.isTextureInUse = d.texture.isTextureInUse /\ s.taken = d.texture.taken
  BY <1>1 DEF Texture
<1>3. free(d) = [d EXCEPT !.texture = s]
  BY <1>1 DEF free, Decoder
<1> HIDE DEF s
<1> QED BY <1>1, <1>2, <1>3 DEF Decoder

\* What a decoder is after C++ has the texture.
LEMMA UsedFields ==
    ASSUME NEW d \in Decoder, d.behind > 0
    PROVE  /\ used(d) \in Decoder /\ used(d).codec = d.codec /\ used(d).held = d.held
           /\ used(d).inited = d.inited /\ used(d).thrown = d.thrown
           /\ used(d).sw_fallback_required = d.sw_fallback_required
           /\ used(d).poll = d.poll /\ used(d).codecType = d.codecType
           /\ used(d).behind = d.behind - 1 /\ used(d).decodeStartTimeMs = d.decodeStartTimeMs
           /\ used(d).dequeuedSurfaceOutputBuffers = d.dequeuedSurfaceOutputBuffers
           /\ used(d).texture.renderedBuffer = d.texture.renderedBuffer
           /\ used(d).texture.bufferToRender = d.texture.bufferToRender
           /\ used(d).texture.images = d.texture.images
           /\ used(d).texture.hasPendingTexture = d.texture.hasPendingTexture
           /\ used(d).texture.isTextureInUse = d.texture.isTextureInUse
           /\ used(d).texture.taken = TRUE
<1> DEFINE e == decoded_one(d)
           s == [d.texture EXCEPT !.taken = TRUE]
<1>1. d.texture \in Texture
  BY DEF Decoder
<1>2. /\ s \in Texture /\ s.renderedBuffer = d.texture.renderedBuffer /\ s.images = d.texture.images
      /\ s.bufferToRender = d.texture.bufferToRender
      /\ s.hasPendingTexture = d.texture.hasPendingTexture
      /\ s.isTextureInUse = d.texture.isTextureInUse /\ s.taken = TRUE
  BY <1>1 DEF Texture
<1>3. e \in Decoder /\ e.texture = d.texture
  BY OneDecoded
<1>4. used(d) = [e EXCEPT !.texture = s]
  BY <1>1, <1>3 DEF used, Decoder
<1> HIDE DEF s, e
<1>5. /\ used(d) \in Decoder /\ used(d).texture = s /\ used(d).codec = e.codec /\ used(d).held = e.held
      /\ used(d).inited = e.inited /\ used(d).thrown = e.thrown
      /\ used(d).sw_fallback_required = e.sw_fallback_required
      /\ used(d).poll = e.poll /\ used(d).codecType = e.codecType
      /\ used(d).behind = e.behind /\ used(d).decodeStartTimeMs = e.decodeStartTimeMs
      /\ used(d).dequeuedSurfaceOutputBuffers = e.dequeuedSurfaceOutputBuffers
  BY <1>2, <1>3, <1>4 DEF Decoder
<1> QED BY <1>2, <1>5, OneDecoded DEF e

\* What a decoder is after a frame was skipped from the queue of Java.
LEMMA DroppedFields ==
    ASSUME NEW d \in Decoder, d.behind > 0, d.dequeuedSurfaceOutputBuffers > 0
    PROVE  /\ skipped(d) \in Decoder /\ skipped(d).codec = d.codec /\ skipped(d).held = d.held
           /\ skipped(d).inited = d.inited /\ skipped(d).thrown = d.thrown
           /\ skipped(d).sw_fallback_required = d.sw_fallback_required
           /\ skipped(d).poll = d.poll /\ skipped(d).codecType = d.codecType
           /\ skipped(d).behind = d.behind - 1 /\ skipped(d).decodeStartTimeMs = d.decodeStartTimeMs
           /\ skipped(d).dequeuedSurfaceOutputBuffers = d.dequeuedSurfaceOutputBuffers - 1
           /\ skipped(d).texture = d.texture
<1> DEFINE e == decoded_one(d)
           n == d.dequeuedSurfaceOutputBuffers - 1
<1>1. n \in Nat
  BY DEF Decoder
<1>2. e \in Decoder /\ e.dequeuedSurfaceOutputBuffers = d.dequeuedSurfaceOutputBuffers
  BY OneDecoded
<1>3. skipped(d) = [e EXCEPT !.dequeuedSurfaceOutputBuffers = n]
  BY <1>2 DEF skipped, Decoder
<1> HIDE DEF e
<1>4. skipped(d).dequeuedSurfaceOutputBuffers = n
  BY <1>2, <1>3 DEF Decoder
<1> HIDE DEF n
<1>5. /\ skipped(d) \in Decoder /\ skipped(d).codec = e.codec /\ skipped(d).held = e.held
      /\ skipped(d).inited = e.inited /\ skipped(d).thrown = e.thrown
      /\ skipped(d).sw_fallback_required = e.sw_fallback_required
      /\ skipped(d).poll = e.poll /\ skipped(d).codecType = e.codecType
      /\ skipped(d).behind = e.behind /\ skipped(d).decodeStartTimeMs = e.decodeStartTimeMs
      /\ skipped(d).texture = e.texture
  BY <1>1, <1>2, <1>3 DEF Decoder
<1> QED BY <1>4, <1>5, OneDecoded DEF e, n

\* The third part by its cases: a texture, an error, a skipped frame or nothing.
LEMMA TakeCases ==
    ASSUME NEW d, NEW timeout, NEW r \in take_texture(d, timeout)
    PROVE  \/ /\ d.texture.renderedBuffer
              /\ \E y \in MaybeRenderDecodedTextureBuffer(free(d)) :
                   (~y.ok /\ r = fails(y.dec)) \/ (y.ok /\ r = works(used(y.dec)))
           \/ r = fails(d)
           \/ /\ ~d.texture.renderedBuffer /\ live(d) /\ r = works(skipped(d))
              /\ \/ d.dequeuedSurfaceOutputBuffers >= MAX_QUEUED_OUTPUTBUFFERS
                 \/ d.dequeuedSurfaceOutputBuffers > 0
           \/ /\ ~d.texture.renderedBuffer /\ r = works(d)
              /\ ~(d.dequeuedSurfaceOutputBuffers >= MAX_QUEUED_OUTPUTBUFFERS)
<1> DEFINE use(f) == {works([decoded_one(f) EXCEPT !.texture.taken = TRUE])}
           M == MaybeRenderDecodedTextureBuffer(free(d))
<1>1. CASE d.texture.renderedBuffer
  <2>1. r \in and_then(M, use)
    BY <1>1 DEF take_texture, free
  <2>2. \/ \E y \in M : ~y.ok /\ r = fails(y.dec)
        \/ \E y \in M : y.ok /\ r \in use(y.dec)
    <3> HIDE DEF M, use
    <3> QED BY <2>1 DEF and_then, worked, broken
  <2>3. \A y : r \in use(y.dec) => r = works(used(y.dec))
    BY DEF used
  <2> HIDE DEF M, use
  <2>4. \E y \in M : (~y.ok /\ r = fails(y.dec)) \/ (y.ok /\ r = works(used(y.dec)))
    BY <2>2, <2>3
  <2> QED BY <1>1, <2>4 DEF M
<1>2. CASE ~d.texture.renderedBuffer
  BY <1>2 DEF take_texture, skipped
<1> QED BY <1>1, <1>2

\* The third part: the frame that leaves is counted once, and the queue has room
\* for a buffer again.
LEMMA TakeOutcome ==
    ASSUME NEW d, NEW f, Looked(d, f), d.behind > 0, d.behind \in Nat, NEW timeout, NEW r \in take_texture(f, timeout)
    PROVE  Outcome(d, r)
<1>1. /\ f \in Decoder /\ Known(f) /\ f.dequeuedSurfaceOutputBuffers \in Nat /\ f.texture \in Texture
      /\ f.decodeStartTimeMs \in Nat /\ f.behind = d.behind /\ inside(f) \in Nat
      /\ MAX_QUEUED_OUTPUTBUFFERS \in Nat /\ MAX_QUEUED_OUTPUTBUFFERS > 0
  BY DecoderAssumption, InsideType DEF Looked, Sane, Known, Decoder
<1>2. /\ (f.inited <=> d.inited) /\ (f.sw_fallback_required <=> d.sw_fallback_required)
      /\ (f.poll <=> d.poll) /\ f.codecType = d.codecType
  BY DEF Looked, Same
<1>3. CASE r = fails(f)
  BY <1>1, <1>3, OutcomeOf DEF Outcome
<1>4. CASE /\ ~f.texture.renderedBuffer /\ live(f) /\ r = works(skipped(f))
           /\ \/ f.dequeuedSurfaceOutputBuffers >= MAX_QUEUED_OUTPUTBUFFERS
              \/ f.dequeuedSurfaceOutputBuffers > 0
  <2> DEFINE g == skipped(f)
  <2>1. f.dequeuedSurfaceOutputBuffers > 0
    BY <1>1, <1>4
  <2>2. /\ g \in Decoder /\ g.codec = f.codec /\ (g.held <=> f.held)
        /\ (g.inited <=> f.inited) /\ (g.thrown <=> f.thrown)
        /\ (g.sw_fallback_required <=> f.sw_fallback_required)
        /\ (g.poll <=> f.poll) /\ g.codecType = f.codecType
        /\ g.behind = f.behind - 1 /\ g.decodeStartTimeMs = f.decodeStartTimeMs
        /\ g.dequeuedSurfaceOutputBuffers = f.dequeuedSurfaceOutputBuffers - 1
        /\ g.texture = f.texture
    BY <1>1, <2>1, DroppedFields
  <2> HIDE DEF g
  <2>3. f.inited /\ Owned(f.texture) /\ Counted(f) /\ f.held /\ f.codec.state # "null"
    BY <1>1, <1>4 DEF Looked, Sane, Known, live
  <2>4. Known(g)
    BY <1>1, <2>2 DEF Known
  <2>5. Counted(g)
    <3>1. inside(g) = inside(f) - 1
      BY <1>1, <2>2 DEF inside
    <3> QED BY <1>1, <2>2, <2>3, <3>1 DEF Counted
  <2>6. f.dequeuedSurfaceOutputBuffers <= MAX_QUEUED_OUTPUTBUFFERS
    BY <1>2, <2>3 DEF Looked
  <2>7. Rest(g)
    BY <1>1, <1>4, <2>2, <2>3, <2>4, <2>5, <2>6 DEF Rest, Sane, Apart
  <2>8. Same(d, g)
    BY <1>1, <1>2, <2>2 DEF Same
  <2>9. r.dec = g
    BY <1>4, OutcomeOf DEF g
  <2> QED BY <2>4, <2>7, <2>8, <2>9 DEF Outcome
<1>5. CASE /\ ~f.texture.renderedBuffer /\ r = works(f)
           /\ ~(f.dequeuedSurfaceOutputBuffers >= MAX_QUEUED_OUTPUTBUFFERS)
  <2>1. Rest(f)
    BY <1>1, <1>5 DEF Looked, Rest, Apart
  <2>2. Same(d, f)
    BY DEF Looked
  <2> QED BY <1>1, <1>5, <2>1, <2>2, OutcomeOf DEF Outcome
<1>6. CASE f.texture.renderedBuffer /\ \E y \in MaybeRenderDecodedTextureBuffer(free(f)) :
                   (~y.ok /\ r = fails(y.dec)) \/ (y.ok /\ r = works(used(y.dec)))
  <2>1. PICK y \in MaybeRenderDecodedTextureBuffer(free(f)) :
                   (~y.ok /\ r = fails(y.dec)) \/ (y.ok /\ r = works(used(y.dec)))
    BY <1>6
  <2> DEFINE e == free(f)
  <2>2. /\ e \in Decoder /\ e.codec = f.codec /\ (e.held <=> f.held)
        /\ (e.inited <=> f.inited) /\ (e.thrown <=> f.thrown)
        /\ (e.sw_fallback_required <=> f.sw_fallback_required)
        /\ (e.poll <=> f.poll) /\ e.codecType = f.codecType
        /\ e.behind = f.behind /\ e.decodeStartTimeMs = f.decodeStartTimeMs
        /\ e.dequeuedSurfaceOutputBuffers = f.dequeuedSurfaceOutputBuffers
        /\ ~e.texture.renderedBuffer
        /\ (e.texture.bufferToRender <=> f.texture.bufferToRender)
        /\ e.texture.images = f.texture.images
        /\ (e.texture.hasPendingTexture <=> f.texture.hasPendingTexture)
        /\ (e.texture.isTextureInUse <=> f.texture.isTextureInUse)
        /\ (e.texture.taken <=> f.texture.taken)
    BY <1>1, FreeFields
  <2>3. Known(e)
    BY <1>1, <2>2 DEF Known
  <2> DEFINE rendered == e.dequeuedSurfaceOutputBuffers > 0 /\ ~e.texture.bufferToRender
  <2>4. \/ y = works(e) /\ ~rendered
        \/ rendered /\ y = fails(given(e))
        \/ rendered /\ y = works(shown(e)) /\ live(e)
    <3>1. e.dequeuedSurfaceOutputBuffers \in Nat
      BY <1>1, <2>2
    <3> HIDE DEF e
    <3> QED BY <2>1, <2>2, <3>1, RenderCases DEF e
  <2>5. CASE rendered /\ y = fails(given(e))
    <3>1. Known(given(e))
      BY <2>2, <2>3, <2>5, GivenFields DEF Known
    <3> QED BY <2>1, <2>5, <3>1, OutcomeOf DEF Outcome
  <2>6. CASE y = works(e) /\ ~rendered
    <3> DEFINE g == used(e)
    <3>1. /\ g \in Decoder /\ g.codec = e.codec /\ (g.held <=> e.held)
          /\ (g.inited <=> e.inited) /\ (g.thrown <=> e.thrown)
          /\ (g.sw_fallback_required <=> e.sw_fallback_required)
          /\ (g.poll <=> e.poll) /\ g.codecType = e.codecType
          /\ g.behind = e.behind - 1 /\ g.decodeStartTimeMs = e.decodeStartTimeMs
          /\ g.dequeuedSurfaceOutputBuffers = e.dequeuedSurfaceOutputBuffers
          /\ g.texture.taken
          /\ (g.texture.renderedBuffer <=> e.texture.renderedBuffer)
          /\ (g.texture.bufferToRender <=> e.texture.bufferToRender)
          /\ g.texture.images = e.texture.images
          /\ (g.texture.hasPendingTexture <=> e.texture.hasPendingTexture)
          /\ (g.texture.isTextureInUse <=> e.texture.isTextureInUse)
      <4>1. e.behind > 0
        BY <1>1, <2>2
      <4> HIDE DEF e
      <4> QED BY <2>2, <4>1, UsedFields
    <3>2. r.dec = g
      BY <2>1, <2>6, OutcomeOf
    <3> HIDE DEF g, e
    <3>3. Known(g)
      BY <2>3, <3>1 DEF Known
    <3>4. Owned(f.texture) => Owned(g.texture)
      BY <1>6, <2>2, <3>1 DEF Owned
    <3>5. Counted(f) => Counted(g)
      <4>1. inside(g) = inside(f) - 1
        BY <1>1, <1>6, <2>2, <3>1 DEF inside
      <4> QED BY <1>1, <2>2, <3>1, <4>1 DEF Counted
    <3>6. Apart(g)
      BY <2>2, <3>1 DEF Apart
    <3>7. f.inited => g.dequeuedSurfaceOutputBuffers < MAX_QUEUED_OUTPUTBUFFERS
      BY <1>1, <1>2, <1>6, <2>2, <2>6, <3>1 DEF Looked, Apart
    <3>8. Sane(g)
      BY <2>2, <3>1, <3>3, <3>4, <3>5 DEF Looked, Sane
    <3>9. Rest(g)
      BY <2>2, <3>1, <3>6, <3>7, <3>8 DEF Rest
    <3>10. Same(d, g)
      BY <1>1, <1>2, <2>2, <3>1 DEF Same
    <3> QED BY <3>2, <3>3, <3>9, <3>10 DEF Outcome
  <2>7. CASE rendered /\ y = works(shown(e)) /\ live(e)
    <3> DEFINE h == shown(e)
               g == used(h)
    <3>0. /\ h \in Decoder /\ h.codec = e.codec /\ (h.held <=> e.held)
          /\ (h.inited <=> e.inited) /\ (h.thrown <=> e.thrown)
          /\ (h.sw_fallback_required <=> e.sw_fallback_required)
          /\ (h.poll <=> e.poll) /\ h.codecType = e.codecType
          /\ h.behind = e.behind /\ h.decodeStartTimeMs = e.decodeStartTimeMs
          /\ h.dequeuedSurfaceOutputBuffers = e.dequeuedSurfaceOutputBuffers - 1
          /\ h.texture.bufferToRender
          /\ h.texture.images = e.texture.images + 1
          /\ (h.texture.renderedBuffer <=> e.texture.renderedBuffer)
          /\ (h.texture.hasPendingTexture <=> e.texture.hasPendingTexture)
          /\ (h.texture.isTextureInUse <=> e.texture.isTextureInUse)
          /\ (h.texture.taken <=> e.texture.taken)
      <4> HIDE DEF e
      <4> QED BY <2>2, <2>7, ShownFields
    <3>1. /\ g \in Decoder /\ g.codec = h.codec /\ (g.held <=> h.held)
          /\ (g.inited <=> h.inited) /\ (g.thrown <=> h.thrown)
          /\ (g.sw_fallback_required <=> h.sw_fallback_required)
          /\ (g.poll <=> h.poll) /\ g.codecType = h.codecType
          /\ g.behind = h.behind - 1 /\ g.decodeStartTimeMs = h.decodeStartTimeMs
          /\ g.dequeuedSurfaceOutputBuffers = h.dequeuedSurfaceOutputBuffers
          /\ g.texture.taken
          /\ (g.texture.renderedBuffer <=> h.texture.renderedBuffer)
          /\ (g.texture.bufferToRender <=> h.texture.bufferToRender)
          /\ g.texture.images = h.texture.images
          /\ (g.texture.hasPendingTexture <=> h.texture.hasPendingTexture)
          /\ (g.texture.isTextureInUse <=> h.texture.isTextureInUse)
      <4>1. h.behind > 0
        BY <1>1, <2>2, <3>0
      <4> HIDE DEF h
      <4> QED BY <3>0, <4>1, UsedFields
    <3>2. r.dec = g
      BY <2>1, <2>7, OutcomeOf
    <3> HIDE DEF g, h, e
    <3>3. Known(g)
      BY <2>3, <3>0, <3>1 DEF Known
    <3>4. f.inited /\ Owned(f.texture) /\ Counted(f) /\ f.held /\ f.codec.state # "null"
          /\ f.dequeuedSurfaceOutputBuffers <= MAX_QUEUED_OUTPUTBUFFERS
      BY <1>1, <1>2, <2>2, <2>7 DEF Looked, Sane, Known, live
    <3>5. ~f.texture.bufferToRender /\ f.texture.images = 0 /\ ~f.texture.hasPendingTexture
      BY <1>1, <2>2, <2>7, <3>4 DEF Owned, Texture
    <3>6. Owned(g.texture)
      BY <1>6, <2>2, <3>0, <3>1, <3>4, <3>5 DEF Owned
    <3>7. Counted(g)
      <4>1. inside(g) = inside(f) - 1
        BY <1>1, <1>6, <2>2, <3>0, <3>1, <3>5 DEF inside
      <4> QED BY <1>1, <2>2, <3>0, <3>1, <3>4, <4>1 DEF Counted
    <3>8. Apart(g) /\ g.dequeuedSurfaceOutputBuffers < MAX_QUEUED_OUTPUTBUFFERS
      BY <1>1, <2>2, <3>0, <3>1, <3>4 DEF Apart
    <3>9. Rest(g)
      BY <2>2, <3>0, <3>1, <3>3, <3>4, <3>6, <3>7, <3>8 DEF Rest, Sane
    <3>10. Same(d, g)
      BY <1>1, <1>2, <2>2, <3>0, <3>1 DEF Same
    <3> QED BY <3>2, <3>3, <3>9, <3>10 DEF Outcome
  <2> HIDE DEF rendered, e
  <2> QED BY <2>4, <2>5, <2>6, <2>7
<1> QED BY <1>3, <1>4, <1>5, <1>6, TakeCases

\* DeliverPendingOutputs: when it works, the decoder rests and is no more behind
\* than before; when it fails, its fields agree.
LEMMA DeliverOutcome ==
    ASSUME NEW d, Rest(d), NEW timeout, NEW r \in dec_DeliverPendingOutputs(d, timeout)
    PROVE  Outcome(d, r)
<1>1. d \in Decoder /\ Known(d) /\ d.behind \in Nat
  BY DEF Rest, Sane, Known, Decoder
<1>2. CASE d.behind = 0
  <2>1. r = works(d)
    BY <1>2 DEF dec_DeliverPendingOutputs
  <2> QED BY <1>1, <2>1, OutcomeOf DEF Outcome, Same
<1>3. CASE d.behind > 0 /\ ~d.use_surface
  <2>1. r \in byte_output(d)
    BY <1>3 DEF dec_DeliverPendingOutputs
  <2> QED BY <1>3, <2>1, ByteOutcome
<1>4. CASE d.behind > 0 /\ d.use_surface
  <2>1. r \in texture_output(d, timeout)
    BY <1>4 DEF dec_DeliverPendingOutputs
  <2>2. CASE r = fails(d)
    BY <1>1, <2>2, OutcomeOf DEF Outcome
  <2>3. ASSUME NEW f,
               f = d \/ (live(d) /\ d.decodeStartTimeMs > 0 /\ d.codec.decoded # 0 /\ f = more(took(d))),
               NEW y \in MaybeRenderDecodedTextureBuffer(f)
        PROVE  /\ ~y.ok /\ r = fails(y.dec) => Outcome(d, r)
               /\ \A g \in (IF timeout THEN meanwhile(y.dec) ELSE {y.dec}) :
                    y.ok /\ r \in take_texture(g, timeout) => Outcome(d, r)
    <3>1. Queued(d, f)
      BY <2>3, QueuedRests
    <3>2. Known(y.dec) /\ (y.ok => Looked(d, y.dec))
      BY <2>3, <3>1, RenderedRests
    <3>3. ~y.ok /\ r = fails(y.dec) => Outcome(d, r)
      BY <3>2, OutcomeOf DEF Outcome
    <3>4. ASSUME y.ok, NEW g \in (IF timeout THEN meanwhile(y.dec) ELSE {y.dec}), r \in take_texture(g, timeout)
          PROVE  Outcome(d, r)
      <4>1. Looked(d, y.dec)
        BY <3>2, <3>4
      <4>2. g = y.dec \/ Moved(y.dec, g)
        BY <3>4, <4>1, MovesMeanwhile DEF Looked
      <4>3. Looked(d, g)
        BY <4>1, <4>2 DEF Looked, Moved, Same
      <4> QED BY <1>1, <1>4, <3>4, <4>3, TakeOutcome
    <3> QED BY <3>3, <3>4
  <2> QED BY <1>1, <2>1, <2>2, <2>3, TextureCases
<1> QED BY <1>1, <1>2, <1>3, <1>4

-----------------------------------------------------------------------------

\* The poll, the demand for a key frame and a failed check are of no account here.
repolled(d, p, k) == [d EXCEPT !.poll = p, !.key_frame_required = k]

\* A decoder that rests as it did before.
Kept(d, f) ==
    /\ Rest(f) /\ f.behind = d.behind /\ f.codecType = d.codecType
    /\ (f.inited <=> d.inited) /\ (f.sw_fallback_required <=> d.sw_fallback_required)

\* OnMessage and CheckKeyFrame leave a decoder at rest.
LEMMA Repolled ==
    ASSUME NEW d, Rest(d), NEW p \in BOOLEAN, NEW k \in BOOLEAN
    PROVE  Kept(d, repolled(d, p, k)) /\ repolled(d, p, k).poll = p
<1> DEFINE f == repolled(d, p, k)
<1>1. d \in Decoder /\ Known(d) /\ Sane(d)
  BY DEF Rest, Sane, Known
<1>2. /\ f \in Decoder /\ (f.inited <=> d.inited) /\ (f.sw_fallback_required <=> d.sw_fallback_required)
      /\ f.codec = d.codec /\ (f.held <=> d.held) /\ (f.thrown <=> d.thrown) /\ f.texture = d.texture
      /\ f.behind = d.behind /\ f.codecType = d.codecType /\ f.poll = p
      /\ f.decodeStartTimeMs = d.decodeStartTimeMs
      /\ f.dequeuedSurfaceOutputBuffers = d.dequeuedSurfaceOutputBuffers
  BY <1>1 DEF Decoder, repolled
<1> HIDE DEF f
<1>3. Known(f)
  BY <1>1, <1>2 DEF Known
<1>4. Counted(d) => Counted(f)
  BY <1>2 DEF Counted, inside
<1>5. Sane(f)
  BY <1>1, <1>2, <1>3, <1>4 DEF Sane
<1>6. Rest(f)
  BY <1>2, <1>5 DEF Rest, Apart
<1> QED BY <1>2, <1>6 DEF Kept, f

\* A decoder that failed the RTC_CHECK had fallen back to software already.
LEMMA Thrown ==
    ASSUME NEW d, Rest(d), d.sw_fallback_required, NEW f, f = [d EXCEPT !.thrown = TRUE]
    PROVE  Rest(f) /\ Same(d, f)
<1>1. d \in Decoder /\ Known(d) /\ Sane(d) /\ d.behind <= d.behind
  BY DEF Rest, Sane, Known, Decoder
<1>2. /\ f \in Decoder /\ (f.inited <=> d.inited) /\ f.sw_fallback_required
      /\ f.codec = d.codec /\ (f.held <=> d.held) /\ f.texture = d.texture
      /\ f.behind = d.behind /\ f.codecType = d.codecType /\ (f.poll <=> d.poll)
      /\ f.decodeStartTimeMs = d.decodeStartTimeMs
      /\ f.dequeuedSurfaceOutputBuffers = d.dequeuedSurfaceOutputBuffers
  BY <1>1 DEF Decoder
<1>3. Known(f)
  BY <1>1, <1>2 DEF Known
<1>4. Counted(d) => Counted(f)
  BY <1>2 DEF Counted, inside
<1>5. Sane(f)
  BY <1>1, <1>2, <1>3, <1>4 DEF Sane
<1> QED BY <1>1, <1>2, <1>5 DEF Rest, Apart, Same

\* A decoder that is no more behind than d, which was watched, is watched too.
LEMMA StaysWatched ==
    ASSUME NEW d, d.behind \in Nat, d.codecType \in CodecType, Watched(d), NEW f, f.behind \in Nat, Same(d, f)
    PROVE  Watched(f)
<1>1. max_pending_frames(f) = max_pending_frames(d) /\ max_pending_frames(d) \in Nat
  BY DecoderAssumption DEF Same, max_pending_frames
<1>2. CASE f.inited
  BY <1>1, <1>2 DEF Watched, Same
<1> QED BY <1>2 DEF Watched

\* A frame that was counted, given its time stamps and queued.
counted(d) == [d EXCEPT !.behind = @ + 1]
stamped(d) == [counted(d) EXCEPT !.decodeStartTimeMs = @ + 1]
filled(d) == [stamped(d) EXCEPT !.codec.queued = @ + 1]

\* DecodeOnCodecThread with a frame that was queued: it is counted inside once.
LEMMA FilledRests ==
    ASSUME NEW d, Rest(d), live(d)
    PROVE  /\ Known(stamped(d)) /\ Rest(filled(d))
           /\ filled(d).behind = d.behind + 1 /\ filled(d).codecType = d.codecType
           /\ (filled(d).poll <=> d.poll) /\ filled(d).inited
           /\ (filled(d).sw_fallback_required <=> d.sw_fallback_required)
<1>1. d \in Decoder /\ Known(d) /\ Sane(d)
  BY DEF Rest, Sane, Known
<1>2. d.behind + 1 \in Nat /\ d.decodeStartTimeMs + 1 \in Nat
      /\ d.codec \in [state : {"null", "dead", "live"}, queued : Nat, decoded : Nat]
      /\ d.behind \in Nat /\ d.decodeStartTimeMs \in Nat
  BY <1>1 DEF Decoder
<1> DEFINE j == [d.codec EXCEPT !.queued = d.codec.queued + 1]
           m == d.behind + 1
           n == d.decodeStartTimeMs + 1
           s == [d EXCEPT !.behind = m, !.decodeStartTimeMs = n]
           f == [d EXCEPT !.behind = m, !.decodeStartTimeMs = n, !.codec = j]
<1>3. d.codec.queued \in Nat /\ d.codec.queued + 1 \in Nat /\ d.codec.decoded \in Nat
  BY <1>2
<1>4. /\ j \in [state : {"null", "dead", "live"}, queued : Nat, decoded : Nat]
      /\ j.state = d.codec.state /\ j.queued = d.codec.queued + 1 /\ j.decoded = d.codec.decoded
  BY <1>2, <1>3
<1>5. stamped(d) = s /\ filled(d) = f
  BY <1>1, <1>2 DEF stamped, filled, counted, Decoder
<1>6. m \in Nat /\ n \in Nat
  BY <1>2
<1> HIDE DEF j, m, n
<1>7. /\ s \in Decoder /\ (s.inited <=> d.inited) /\ (s.sw_fallback_required <=> d.sw_fallback_required)
      /\ s.codec = d.codec /\ (s.held <=> d.held) /\ (s.thrown <=> d.thrown)
  BY <1>1, <1>6 DEF Decoder
<1>8. /\ f \in Decoder /\ (f.inited <=> d.inited) /\ (f.sw_fallback_required <=> d.sw_fallback_required)
      /\ f.codec = j /\ (f.held <=> d.held) /\ (f.thrown <=> d.thrown) /\ f.texture = d.texture
      /\ f.behind = m /\ f.codecType = d.codecType /\ (f.poll <=> d.poll)
      /\ f.decodeStartTimeMs = n
      /\ f.dequeuedSurfaceOutputBuffers = d.dequeuedSurfaceOutputBuffers
  BY <1>1, <1>4, <1>6 DEF Decoder
<1> HIDE DEF s, f
<1>9. Known(s) /\ Known(f)
  BY <1>1, <1>4, <1>7, <1>8 DEF Known
<1>10. d.inited /\ Counted(d) /\ Owned(d.texture) /\ d.codec.state = "live" /\ d.held
  BY <1>1 DEF Sane, Known, live
<1>11. Counted(f)
  <2>1. inside(f) = inside(d) + 1 /\ inside(d) \in Nat
    BY <1>1, <1>8, InsideType DEF inside, n, Decoder
  <2> QED BY <1>2, <1>3, <1>4, <1>8, <1>10, <2>1 DEF Counted, m, n
<1>12. Rest(f)
  BY <1>4, <1>8, <1>9, <1>10, <1>11 DEF Rest, Sane, Apart
<1> QED BY <1>5, <1>8, <1>9, <1>10, <1>12 DEF m

\* The rest of DecodeOnCodecThread, wherever it fails: the decoder rests, one frame
\* above the limit behind at most.
LEMMA FrameFed ==
    ASSUME NEW d, Rest(d), Watched(d), live(d), d.behind <= max_pending_frames(d), NEW f \in feed(d)
    PROVE  Ready(f)
<1> DEFINE R == dec_DeliverPendingOutputs(filled(d), FALSE)
<1>1. \/ f \in after_HWError({d, stamped(d)})
      \/ f \in worked(R)
      \/ f \in after_HWError(broken(R))
      \/ d.sw_fallback_required /\ f = [d EXCEPT !.thrown = TRUE]
  BY DEF feed, filled, stamped, counted
<1> HIDE DEF R
<1>2. d \in Decoder /\ Known(d) /\ d.behind \in Nat /\ d.codecType \in CodecType
      /\ max_pending_frames(d) \in Nat
  BY PendingType DEF Rest, Sane, Known, Decoder
<1>3. \A r \in R : Outcome(filled(d), r)
  BY FilledRests, DeliverOutcome DEF R
<1>4. CASE f \in after_HWError({d, stamped(d)})
  BY <1>2, <1>4, FilledRests, HWErrorSettles
<1>5. CASE f \in after_HWError(broken(R))
  <2>1. \A g \in broken(R) : Known(g)
    BY <1>3 DEF broken, Outcome
  <2> QED BY <1>5, <2>1, HWErrorSettles
<1>6. CASE f \in worked(R)
  <2>1. Rest(f) /\ Same(filled(d), f)
    BY <1>3, <1>6 DEF worked, Outcome
  <2>2. f.behind \in Nat /\ filled(d).behind \in Nat
    BY <1>2, <2>1, FilledRests DEF Rest, Sane, Known, Decoder
  <2>3. Watched(filled(d))
    <3>1. max_pending_frames(filled(d)) = max_pending_frames(d)
      BY FilledRests DEF max_pending_frames
    <3>2. d.inited
      BY <1>2 DEF Known, live
    <3> QED BY <1>2, <3>1, <3>2, FilledRests DEF Watched
  <2>4. Watched(f)
    BY <1>2, <2>1, <2>2, <2>3, FilledRests, StaysWatched
  <2> QED BY <2>1, <2>4 DEF Ready
<1>7. CASE d.sw_fallback_required /\ f = [d EXCEPT !.thrown = TRUE]
  <2>1. Rest(f) /\ Same(d, f)
    BY <1>7, Thrown
  <2>2. Watched(f)
    BY <1>2, <2>1, StaysWatched DEF Rest, Sane, Known, Decoder
  <2> QED BY <2>1, <2>2 DEF Ready
<1> QED BY <1>1, <1>4, <1>5, <1>6, <1>7

-----------------------------------------------------------------------------

\* A new decoder satisfies the invariant.
LEMMA InitHolds == DecoderInit => DecoderInvariant
<1> SUFFICES ASSUME DecoderInit PROVE DecoderInvariant
  OBVIOUS
<1>1. PICK t \in CodecType, s \in BOOLEAN : dec = new_decoder(t, s)
  BY DEF DecoderInit
<1>2. no_codec \in [state : {"null", "dead", "live"}, queued : Nat, decoded : Nat] /\ no_codec.state = "null"
  BY DEF no_codec
<1>3. 0 \in 0 .. MaxReleases
  BY DecoderAssumption
<1>4. /\ dec \in Decoder /\ ~dec.inited /\ dec.codec = no_codec /\ ~dec.thrown /\ dec.texture = NoTexture
  BY <1>1, <1>2, <1>3, NoTextureType DEF new_decoder, Decoder
<1>5. Rest(dec) /\ Watched(dec)
  BY <1>2, <1>4, NoTextureType DEF Rest, Sane, Known, Watched
<1> QED BY <1>5 DEF DecoderInit, DecoderInvariant

\* The inductive invariant implies the one the run checks.
LEMMA InvariantMeans == DecoderInvariant => DecoderInv
<1> SUFFICES ASSUME DecoderInvariant PROVE DecoderInv
  OBVIOUS
<1>1. dec \in Decoder
  BY DEF DecoderInvariant, Rest, Sane, Known, Dormant
<1>2. DecoderTypeOK
  BY <1>1 DEF DecoderInvariant, DecoderTypeOK
<1>3. dec.thrown => dec.sw_fallback_required
  BY DEF DecoderInvariant, Rest, Sane, Known, Dormant
<1>4. CASE dec.inited
  BY <1>2, <1>3, <1>4 DEF DecoderInvariant, DecoderInv, Dormant, Rest, Sane, Watched, Apart
<1> QED BY <1>2, <1>3, <1>4 DEF DecoderInv

\* InitDecode preserves the invariant.
LEMMA InitDecodeStep == DecoderInvariant /\ InitDecode => DecoderInvariant'
<1> SUFFICES ASSUME DecoderInvariant, InitDecode PROVE DecoderInvariant'
  OBVIOUS
<1>1. PICK r \in IF dec.sw_fallback_required THEN {works(dec)} ELSE InitDecodeOnCodecThread(dec) :
        dec' = r.dec /\ owner' = IF r.ok THEN "open" ELSE "refused"
  BY DEF InitDecode
<1>2. call' = call
  BY DEF InitDecode
<1>3. CASE dec.sw_fallback_required
  <2>1. dec' = dec
    BY <1>1, <1>3, OutcomeOf
  <2> QED BY <1>1, <1>2, <2>1 DEF DecoderInvariant, Watched, Rest, Sane, Known, Counted, Apart, Dormant, inside, max_pending_frames
<1>4. CASE ~dec.sw_fallback_required
  <2>1. Known(dec)
    BY <1>4 DEF DecoderInvariant, Dormant, Rest, Sane
  <2>2. Ready(r.dec)
    BY <1>1, <1>4, <2>1, InitSettles
  <2>3. Ready(dec)'
    BY <1>1, <2>2
  <2> QED BY <1>1, <1>2, <2>3 DEF DecoderInvariant, Ready
<1> QED BY <1>3, <1>4

\* What is left to show of a step.
LEMMA Arrives ==
    ASSUME NEW f, Ready(f), dec' = f,
           call' \in {"none", "resize", "key", "posted", "draining"},
           owner' \in {"closed", "open", "refused", "deleted"}
    PROVE  DecoderInvariant'
<1>1. Ready(dec)'
  OBVIOUS
<1> QED BY <1>1 DEF DecoderInvariant, Ready

\* The same for a step that ends with a dormant decoder.
LEMMA ArrivesDormant ==
    ASSUME NEW f, Dormant(f), dec' = f, call' = "none", owner' \in {"closed", "open", "refused", "deleted"}
    PROVE  DecoderInvariant'
<1>1. Dormant(dec)'
  OBVIOUS
<1> QED BY <1>1 DEF DecoderInvariant, Dormant, Watched

\* While Decode() is under way its decoder is not dormant.
LEMMA RestsUnlessNone ==
    ASSUME DecoderInvariant, call # "none"
    PROVE  Rest(dec) /\ Watched(dec) /\ Known(dec) /\ dec.behind \in Nat /\ dec.codecType \in CodecType
  BY DEF DecoderInvariant, Rest, Sane, Known, Decoder

\* The checks of Decode() preserve the invariant: a dormant decoder is refused.
LEMMA DecodeStep == DecoderInvariant /\ Decode => DecoderInvariant'
<1> SUFFICES ASSUME DecoderInvariant, Decode PROVE DecoderInvariant'
  OBVIOUS
<1>1. Ready(dec)
  BY DEF Decode, DecoderInvariant, Dormant, Ready
<1>2. dec' = dec /\ owner' = owner /\ call' \in {"resize", "key"}
  BY DEF Decode
<1>3. owner' \in {"closed", "open", "refused", "deleted"}
  BY <1>2 DEF DecoderInvariant
<1> QED BY <1>1, <1>2, <1>3, Arrives

\* A frame of another size: the soft reset or the new configuration preserves the
\* invariant.
LEMMA ResizeStep == DecoderInvariant /\ Resize => DecoderInvariant'
<1> SUFFICES ASSUME DecoderInvariant, Resize PROVE DecoderInvariant'
  OBVIOUS
<1>0. Rest(dec) /\ Watched(dec) /\ Known(dec)
  BY RestsUnlessNone DEF Resize
<1>1. PICK r \in CASE dec.use_surface /\ dec.codecType # "VP9" -> ResetDecodeOnCodecThread(dec)
                  [] dec.sw_fallback_required -> {works(dec)}
                  [] OTHER -> InitDecodeOnCodecThread(dec) :
          /\ dec' = IF r.ok THEN r.dec ELSE sw_fallback(r.dec)
          /\ call' = IF r.ok THEN "key" ELSE "none"
  BY DEF Resize
<1>2. owner' \in {"closed", "open", "refused", "deleted"}
  BY DEF DecoderInvariant, Resize
<1>3. CASE r \in ResetDecodeOnCodecThread(dec)
  <2>1. CASE r.ok
    BY <1>0, <1>1, <1>2, <1>3, <2>1, ResetSettles, Arrives
  <2>2. CASE ~r.ok
    BY <1>0, <1>1, <1>2, <1>3, <2>2, ResetSettles, ArrivesDormant
  <2> QED BY <2>1, <2>2
<1>4. CASE r = works(dec)
  <2>1. r.ok /\ r.dec = dec
    BY <1>4, OutcomeOf
  <2>2. Ready(dec) /\ dec' = dec /\ call' = "key"
    BY <1>0, <1>1, <2>1 DEF Ready
  <2> QED BY <1>2, <2>2, Arrives
<1>5. CASE r \in InitDecodeOnCodecThread(dec)
  <2>1. Ready(r.dec) /\ (~r.ok => r.dec.sw_fallback_required)
    BY <1>0, <1>5, InitSettles
  <2>2. r.dec \in Decoder
    BY <2>1 DEF Ready, Rest, Sane, Known
  <2>3. r.dec.sw_fallback_required => sw_fallback(r.dec) = r.dec
    BY <2>2 DEF sw_fallback, Decoder
  <2>4. dec' = r.dec
    BY <1>1, <2>1, <2>3
  <2>5. call' \in {"none", "resize", "key", "posted", "draining"}
    BY <1>1
  <2> QED BY <1>2, <2>1, <2>4, <2>5, Arrives
<1> QED BY <1>1, <1>3, <1>4, <1>5

\* The check for a key frame preserves the invariant.
LEMMA CheckKeyFrameStep ==
    ASSUME NEW key \in BOOLEAN, NEW empty \in BOOLEAN, DecoderInvariant, CheckKeyFrame(key, empty)
    PROVE  DecoderInvariant'
<1>1. Rest(dec) /\ Watched(dec) /\ dec \in Decoder
  BY RestsUnlessNone DEF CheckKeyFrame, Known
<1> DEFINE k == dec.key_frame_required /\ ~key
           f == repolled(dec, dec.poll, k)
<1>2. dec.poll \in BOOLEAN /\ k \in BOOLEAN
  BY <1>1 DEF Decoder
<1>3. dec' = f
  BY <1>1 DEF CheckKeyFrame, Decoder, repolled
<1>4. call' \in {"none", "resize", "key", "posted", "draining"} /\ owner' \in {"closed", "open", "refused", "deleted"}
  BY DEF CheckKeyFrame, DecoderInvariant
<1> HIDE DEF k
<1>20. Kept(dec, f) /\ f.poll = dec.poll
  BY <1>1, <1>2, Repolled
<1> HIDE DEF f
<1>5. /\ Rest(f) /\ f.behind = dec.behind /\ f.codecType = dec.codecType
      /\ (f.poll <=> dec.poll) /\ (f.inited <=> dec.inited)
      /\ (f.sw_fallback_required <=> dec.sw_fallback_required)
  BY <1>20 DEF Kept
<1>6. Watched(f)
  <2>1. max_pending_frames(f) = max_pending_frames(dec)
    BY <1>5 DEF max_pending_frames
  <2> QED BY <1>1, <1>5, <2>1 DEF Watched
<1> QED BY <1>3, <1>4, <1>5, <1>6, Arrives DEF Ready

\* A round of the loop that drains the decoder preserves the invariant.
LEMMA DrainStep == DecoderInvariant /\ Drain => DecoderInvariant'
<1> SUFFICES ASSUME DecoderInvariant, Drain PROVE DecoderInvariant'
  OBVIOUS
<1> DEFINE R == dec_DeliverPendingOutputs(dec, TRUE)
<1>1. Rest(dec) /\ Watched(dec) /\ Known(dec) /\ dec.behind \in Nat /\ dec.codecType \in CodecType
  BY RestsUnlessNone DEF Drain
<1>2. \A r \in R : Outcome(dec, r)
  BY <1>1, DeliverOutcome
<1>3. \/ dec' \in worked(R)
      \/ dec' \in after_HWError(broken(R) \cup {dec})
  BY DEF Drain
<1>4. /\ call' \in {"none", "resize", "key", "posted", "draining"}
      /\ owner' \in {"closed", "open", "refused", "deleted"}
  BY DEF Drain, DecoderInvariant
<1> HIDE DEF R
<1>5. CASE dec' \in worked(R)
  <2>1. PICK f : f = dec' /\ f \in worked(R)
    BY <1>5
  <2>2. Rest(f) /\ Same(dec, f)
    BY <1>2, <2>1 DEF worked, Outcome
  <2>3. f.behind \in Nat
    BY <2>2 DEF Rest, Sane, Known, Decoder
  <2>4. Watched(f)
    BY <1>1, <2>2, <2>3, StaysWatched
  <2> QED BY <1>4, <2>1, <2>2, <2>4, Arrives DEF Ready
<1>6. CASE dec' \in after_HWError(broken(R) \cup {dec})
  <2>1. PICK f : f = dec' /\ f \in after_HWError(broken(R) \cup {dec})
    BY <1>6
  <2>2. \A d \in broken(R) \cup {dec} : Known(d)
    BY <1>1, <1>2 DEF broken, Outcome
  <2>3. Ready(f)
    BY <2>1, <2>2, HWErrorSettles
  <2> QED BY <1>4, <2>1, <2>3, Arrives
<1> QED BY <1>3, <1>5, <1>6

\* DecodeOnCodecThread preserves the invariant: only a decoder that is not too far
\* behind is feedable.
LEMMA DecodeOnCodecThreadStep == DecoderInvariant /\ DecodeOnCodecThread => DecoderInvariant'
<1> SUFFICES ASSUME DecoderInvariant, DecodeOnCodecThread PROVE DecoderInvariant'
  OBVIOUS
<1> DEFINE R == dec_DeliverPendingOutputs(dec, TRUE)
           feedable == {d \in {dec} \cup worked(R) : live(d)}
<1>1. Rest(dec) /\ Watched(dec) /\ Known(dec) /\ dec.behind \in Nat /\ dec.codecType \in CodecType
  BY RestsUnlessNone DEF DecodeOnCodecThread
<1>2. \A r \in R : Outcome(dec, r)
  BY <1>1, DeliverOutcome
<1>3. \/ dec' \in after_HWError(worked(R) \cup broken(R))
      \/ \E d \in feedable : dec' \in feed(d)
  BY DEF DecodeOnCodecThread
<1>4. /\ call' \in {"none", "resize", "key", "posted", "draining"}
      /\ owner' \in {"closed", "open", "refused", "deleted"}
  BY DEF DecodeOnCodecThread, DecoderInvariant
<1>5. dec.behind <= max_pending_frames(dec)
  BY <1>1, PendingType DEF DecodeOnCodecThread, behind_too_far, Known
<1> HIDE DEF R
<1>6. CASE dec' \in after_HWError(worked(R) \cup broken(R))
  <2>1. PICK f : f = dec' /\ f \in after_HWError(worked(R) \cup broken(R))
    BY <1>6
  <2>2. \A d \in worked(R) \cup broken(R) : Known(d)
    BY <1>2 DEF worked, broken, Outcome
  <2>3. Ready(f)
    BY <2>1, <2>2, HWErrorSettles
  <2> QED BY <1>4, <2>1, <2>3, Arrives
<1>7. CASE \E d \in feedable : dec' \in feed(d)
  <2>1. PICK d \in feedable : dec' \in feed(d)
    BY <1>7
  <2>7. PICK f : f = dec' /\ f \in feed(d)
    BY <2>1
  <2>2. Rest(d) /\ live(d) /\ (d = dec \/ Same(dec, d))
    BY <1>1, <1>2, <2>1 DEF worked, Outcome
  <2>3. d.behind \in Nat
    BY <2>2 DEF Rest, Sane, Known, Decoder
  <2>4. Watched(d)
    BY <1>1, <2>2, <2>3, StaysWatched
  <2>5. d.behind <= max_pending_frames(d)
    <3>1. max_pending_frames(d) = max_pending_frames(dec) /\ d.behind <= dec.behind
      BY <1>1, <2>2 DEF Same, max_pending_frames
    <3>2. max_pending_frames(dec) \in Nat
      BY <1>1, PendingType DEF Known
    <3> QED BY <1>1, <1>5, <2>3, <3>1, <3>2
  <2>6. Ready(f)
    BY <2>2, <2>4, <2>5, <2>7, FrameFed
  <2> QED BY <1>4, <2>7, <2>6, Arrives
<1> QED BY <1>3, <1>6, <1>7

\* Release preserves the invariant.
LEMMA ReleaseDecodeStep == DecoderInvariant /\ ReleaseDecode => DecoderInvariant'
<1> SUFFICES ASSUME DecoderInvariant, ReleaseDecode PROVE DecoderInvariant'
  OBVIOUS
<1>1. PICK r \in ReleaseDecodeOnCodecThread(dec) : dec' = r.dec
  BY DEF ReleaseDecode
<1>2. call = "none" /\ call' = "none" /\ owner' = "closed"
  BY DEF ReleaseDecode
<1>3. CASE Rest(dec)
  <2>1. Known(dec)
    BY <1>3 DEF Rest, Sane
  <2>2. r.dec = dec \/ r.dec.texture = NoTexture
    BY <1>1, <2>1, Released
  <2>3. Known(r.dec) /\ ~r.dec.inited
    BY <1>1, <2>1, Released
  <2>4. Ready(r.dec)
    BY <1>3, <2>2, <2>3, NoTextureType DEF Ready, Rest, Sane, Watched
  <2> QED BY <1>1, <1>2, <2>4, Arrives
<1>4. CASE Dormant(dec)
  <2>1. r = works(dec)
    BY <1>1, <1>4 DEF ReleaseDecodeOnCodecThread, Dormant
  <2> QED BY <1>1, <1>2, <1>4, <2>1, OutcomeOf, ArrivesDormant
<1> QED BY <1>3, <1>4 DEF DecoderInvariant

\* The destructor preserves the invariant.
LEMMA DeleteDecoderStep == DecoderInvariant /\ DeleteDecoder => DecoderInvariant'
<1> SUFFICES ASSUME DecoderInvariant, DeleteDecoder PROVE DecoderInvariant'
  OBVIOUS
<1>1. PICK r \in ReleaseDecodeOnCodecThread(dec) : dec' = [r.dec EXCEPT !.poll = FALSE]
  BY DEF DeleteDecoder
<1>2. call = "none" /\ call' = "none" /\ owner' = "deleted"
  BY DEF DeleteDecoder
<1>3. CASE Rest(dec)
  <2>1. Known(dec)
    BY <1>3 DEF Rest, Sane
  <2>2. r.dec = dec \/ r.dec.texture = NoTexture
    BY <1>1, <2>1, Released
  <2>3. Known(r.dec) /\ ~r.dec.inited
    BY <1>1, <2>1, Released
  <2>4. Rest(r.dec)
    BY <1>3, <2>2, <2>3, NoTextureType DEF Rest, Sane
  <2>5. r.dec.key_frame_required \in BOOLEAN
        /\ dec' = repolled(r.dec, FALSE, r.dec.key_frame_required)
    BY <1>1, <2>3 DEF Known, Decoder, repolled
  <2>6. PICK f : f = dec'
    OBVIOUS
  <2>7. Rest(f) /\ ~f.inited
    BY <2>3, <2>4, <2>5, <2>6, Repolled DEF Kept
  <2>8. Ready(f)
    BY <2>7 DEF Ready, Watched
  <2> QED BY <1>2, <2>6, <2>8, Arrives
<1>4. CASE Dormant(dec)
  <2>1. r.dec = dec
    BY <1>1, <1>4, OutcomeOf DEF ReleaseDecodeOnCodecThread, Dormant
  <2>2. PICK f : f = dec'
    OBVIOUS
  <2>3. Dormant(f)
    BY <1>1, <1>4, <2>1, <2>2 DEF Dormant, Decoder
  <2> QED BY <1>2, <2>2, <2>3, ArrivesDormant
<1> QED BY <1>3, <1>4 DEF DecoderInvariant

\* OnMessage preserves the invariant: it posts itself again for as long as the
\* decoder is initialised.
LEMMA OnMessageStep == DecoderInvariant /\ dec_OnMessage => DecoderInvariant'
<1> SUFFICES ASSUME DecoderInvariant, dec_OnMessage PROVE DecoderInvariant'
  OBVIOUS
<1> DEFINE next == [dec EXCEPT !.poll = FALSE]
           R == dec_DeliverPendingOutputs(next, FALSE)
<1>1. \/ ~dec.inited /\ dec' = next
      \/ dec.inited /\ \E d \in worked(R) : dec' = [d EXCEPT !.poll = TRUE]
      \/ dec.inited /\ dec' \in after_HWError(broken(R))
  BY DEF dec_OnMessage
<1>2. /\ call' = call /\ call' \in {"none", "resize", "key", "posted", "draining"}
      /\ owner' \in {"closed", "open", "refused", "deleted"}
  BY DEF dec_OnMessage, DecoderInvariant
<1>3. CASE Dormant(dec)
  <2>1. ~dec.inited
    BY <1>3 DEF Dormant
  <2>2. PICK f : f = dec'
    OBVIOUS
  <2>3. Dormant(f)
    BY <1>1, <1>3, <2>1, <2>2 DEF Dormant, Decoder
  <2>4. CASE call = "none"
    BY <1>2, <2>2, <2>3, <2>4, ArrivesDormant
  <2>5. CASE call # "none"
    <3>1. Rest(dec)
      BY <2>5, RestsUnlessNone
    <3>2. dec \in Decoder /\ dec.key_frame_required \in BOOLEAN
      BY <1>3 DEF Dormant, Decoder
    <3>3. f = repolled(dec, FALSE, dec.key_frame_required)
      BY <1>1, <2>1, <2>2, <3>2 DEF Decoder, repolled
    <3>4. Rest(f) /\ ~f.inited
      BY <2>1, <3>1, <3>2, <3>3, Repolled DEF Kept
    <3> QED BY <1>2, <2>2, <3>4, Arrives DEF Ready, Watched
  <2> QED BY <2>4, <2>5
<1>4. CASE Rest(dec)
  <2>0. dec \in Decoder /\ dec.key_frame_required \in BOOLEAN /\ Watched(dec) /\ dec.behind \in Nat /\ dec.codecType \in CodecType
    BY <1>4 DEF DecoderInvariant, Rest, Sane, Known, Decoder
  <2>1. PICK n : n = next
    OBVIOUS
  <2>2. n = repolled(dec, FALSE, dec.key_frame_required)
    BY <2>0, <2>1 DEF Decoder, repolled
  <2>20. Kept(dec, n)
    BY <1>4, <2>0, <2>2, Repolled
  <2>3. /\ Rest(n) /\ n.behind = dec.behind /\ n.codecType = dec.codecType /\ (n.inited <=> dec.inited)
    BY <2>20 DEF Kept
  <2>4. \A r \in R : Outcome(n, r)
    BY <2>1, <2>3, DeliverOutcome
  <2> HIDE DEF R
  <2>5. CASE ~dec.inited /\ dec' = next
    <3>1. Ready(n)
      BY <2>3, <2>5 DEF Ready, Watched
    <3> QED BY <1>2, <2>1, <2>5, <3>1, Arrives
  <2>6. ASSUME dec.inited, NEW d \in worked(R), dec' = [d EXCEPT !.poll = TRUE]
        PROVE  DecoderInvariant'
    <3>1. Rest(d) /\ Same(n, d)
      BY <2>4, <2>6 DEF worked, Outcome
    <3>2. d \in Decoder /\ d.behind \in Nat /\ d.key_frame_required \in BOOLEAN
      BY <3>1 DEF Rest, Sane, Known, Decoder
    <3>3. PICK f : f = dec'
      OBVIOUS
    <3>4. f = repolled(d, TRUE, d.key_frame_required)
      BY <2>6, <3>2, <3>3 DEF Decoder, repolled
    <3>20. Kept(d, f) /\ f.poll = TRUE
      BY <3>1, <3>2, <3>4, Repolled
    <3>5. Rest(f) /\ f.behind = d.behind /\ f.codecType = d.codecType /\ f.poll
      BY <3>20 DEF Kept
    <3>6. f.behind <= dec.behind /\ max_pending_frames(f) = max_pending_frames(dec)
      BY <2>3, <3>1, <3>5 DEF Same, max_pending_frames
    <3>7. dec.behind <= max_pending_frames(dec) + 1 /\ max_pending_frames(dec) \in Nat
      BY <2>0, <2>6, PendingType DEF Watched
    <3>8. Watched(f)
      BY <2>0, <3>2, <3>5, <3>6, <3>7 DEF Watched
    <3> QED BY <1>2, <3>3, <3>5, <3>8, Arrives DEF Ready
  <2>7. CASE dec' \in after_HWError(broken(R))
    <3>1. PICK f : f = dec' /\ f \in after_HWError(broken(R))
      BY <2>7
    <3>2. \A d \in broken(R) : Known(d)
      BY <2>4 DEF broken, Outcome
    <3>3. Ready(f)
      BY <3>1, <3>2, HWErrorSettles
    <3> QED BY <1>2, <3>1, <3>3, Arrives
  <2> QED BY <1>1, <2>5, <2>6, <2>7
<1> QED BY <1>3, <1>4 DEF DecoderInvariant

-----------------------------------------------------------------------------

\* The codec is Android's: it may take an input, die or be stopped.
LEMMA CodecChanges ==
    ASSUME DecoderInvariant, NEW j \in [state : {"null", "dead", "live"}, queued : Nat, decoded : Nat],
           NEW n \in 0 .. MaxReleases, call' = call, owner' = owner,
           dec' = [dec EXCEPT !.codec = j, !.releases = n],
           j.state = "live" => dec.codec.state = "live" /\ j.queued + j.decoded = dec.codec.queued + dec.codec.decoded,
           j.state = "null" => dec.codec.state = "null"
    PROVE  DecoderInvariant'
<1> DEFINE f == [dec EXCEPT !.codec = j, !.releases = n]
<1>1. dec \in Decoder
  BY DEF DecoderInvariant, Rest, Sane, Known, Dormant
<1>2. /\ f \in Decoder /\ (f.inited <=> dec.inited) /\ (f.sw_fallback_required <=> dec.sw_fallback_required)
      /\ f.codec = j /\ (f.held <=> dec.held) /\ (f.thrown <=> dec.thrown) /\ f.texture = dec.texture
      /\ f.behind = dec.behind /\ f.codecType = dec.codecType /\ (f.poll <=> dec.poll)
      /\ f.decodeStartTimeMs = dec.decodeStartTimeMs
      /\ f.dequeuedSurfaceOutputBuffers = dec.dequeuedSurfaceOutputBuffers
  BY <1>1 DEF Decoder
<1>3. /\ call' \in {"none", "resize", "key", "posted", "draining"}
      /\ owner' \in {"closed", "open", "refused", "deleted"}
  BY DEF DecoderInvariant
<1>4. dec' = f
  OBVIOUS
<1> HIDE DEF f
<1>5. CASE Rest(dec)
  <2>1. Known(f)
    BY <1>2, <1>5 DEF Rest, Sane, Known
  <2>2. Counted(dec) => Counted(f)
    BY <1>2 DEF Counted, inside
  <2>3. Rest(f)
    BY <1>2, <1>5, <2>1, <2>2 DEF Rest, Sane, Apart
  <2>4. Watched(f)
    BY <1>2 DEF DecoderInvariant, Watched, max_pending_frames
  <2> QED BY <1>3, <1>4, <2>3, <2>4, Arrives DEF Ready
<1>6. CASE Dormant(dec) /\ call = "none"
  <2>1. Dormant(f)
    BY <1>2, <1>6 DEF Dormant
  <2> QED BY <1>3, <1>4, <1>6, <2>1, ArrivesDormant
<1> QED BY <1>5, <1>6 DEF DecoderInvariant

\* What the codec and the thread that stops it do preserves the invariant.
LEMMA CodecStep ==
    ASSUME DecoderInvariant, CodecDecodes \/ DecoderDies \/ ReleaseEnds
    PROVE  DecoderInvariant'
<1>1. /\ dec \in Decoder /\ dec.releases \in 0 .. MaxReleases
      /\ dec.codec \in [state : {"null", "dead", "live"}, queued : Nat, decoded : Nat]
      /\ dec.codec.queued \in Nat /\ dec.codec.decoded \in Nat
  BY DEF DecoderInvariant, Rest, Sane, Known, Dormant, Decoder
<1>2. /\ dead_codec \in [state : {"null", "dead", "live"}, queued : Nat, decoded : Nat] /\ dead_codec.state = "dead"
  BY DEF dead_codec, no_codec
<1>3. call' = call /\ owner' = owner
  BY DEF CodecDecodes, DecoderDies, ReleaseEnds, outside
<1>4. CASE CodecDecodes
  <2>1. dec.codec.queued - 1 \in Nat /\ dec.codec.decoded + 1 \in Nat
    BY <1>1, <1>4 DEF CodecDecodes
  <2> DEFINE a == dec.codec.queued - 1
             b == dec.codec.decoded + 1
             j == [dec.codec EXCEPT !.queued = a, !.decoded = b]
  <2>2. /\ dec' = [dec EXCEPT !.codec = j, !.releases = dec.releases]
    BY <1>1, <1>4 DEF CodecDecodes, outside, Decoder
  <2>3. a + b = dec.codec.queued + dec.codec.decoded /\ a \in Nat /\ b \in Nat
    BY <1>1, <2>1
  <2> HIDE DEF a, b
  <2>4. /\ j \in [state : {"null", "dead", "live"}, queued : Nat, decoded : Nat]
        /\ j.state = dec.codec.state /\ j.queued = a /\ j.decoded = b
    BY <1>1, <2>3
  <2> HIDE DEF j
  <2> QED BY <1>1, <1>3, <2>2, <2>3, <2>4, CodecChanges
<1>5. CASE DecoderDies
  <2>1. dec' = [dec EXCEPT !.codec = dead_codec, !.releases = dec.releases]
    BY <1>1, <1>5 DEF DecoderDies, outside, Decoder
  <2> QED BY <1>1, <1>2, <1>3, <2>1, CodecChanges
<1>6. CASE ReleaseEnds
  <2>1. dec.releases - 1 \in 0 .. MaxReleases
    BY <1>1, <1>6, DecoderAssumption DEF ReleaseEnds
  <2> DEFINE n == dec.releases - 1
             j == IF dec.codec.state = "null" THEN dec.codec ELSE dead_codec
  <2>2. dec' = [dec EXCEPT !.codec = j, !.releases = n]
    BY <1>1, <1>6 DEF ReleaseEnds, outside, Decoder
  <2>3. /\ j \in [state : {"null", "dead", "live"}, queued : Nat, decoded : Nat]
        /\ j.state # "live" /\ (j.state = "null" => dec.codec.state = "null")
    BY <1>1, <1>2
  <2>4. n \in 0 .. MaxReleases
    BY <2>1
  <2> HIDE DEF j, n
  <2> QED BY <1>3, <2>2, <2>3, <2>4, CodecChanges
<1> QED BY <1>4, <1>5, <1>6

\* What the thread of the texture does to a decoder that fell back to software.
LEMMA DormantDelivers ==
    ASSUME NEW d, Dormant(d)
    PROVE  Dormant(tryDeliverTextureFrame(d))
<1> DEFINE t == d.texture
           s == [t EXCEPT !.hasPendingTexture = FALSE, !.isTextureInUse = TRUE,
                          !.bufferToRender = FALSE, !.renderedBuffer = TRUE]
           x == d.thrown \/ t.renderedBuffer \/ ~t.bufferToRender
           f == [d EXCEPT !.texture = s, !.thrown = x]
<1>1. d \in Decoder /\ t \in Texture /\ x \in BOOLEAN
  BY DEF Dormant, Decoder
<1>2. CASE ~t.hasPendingTexture \/ t.isTextureInUse
  BY <1>2 DEF tryDeliverTextureFrame
<1>3. CASE ~(~t.hasPendingTexture \/ t.isTextureInUse)
  <2>1. tryDeliverTextureFrame(d) =
          [d EXCEPT !.texture.hasPendingTexture = FALSE, !.texture.isTextureInUse = TRUE,
                    !.texture.bufferToRender = FALSE, !.texture.renderedBuffer = TRUE,
                    !.thrown = x]
    BY <1>3 DEF tryDeliverTextureFrame
  <2>2. tryDeliverTextureFrame(d) = f
    BY <1>1, <2>1 DEF Decoder, Texture
  <2>3. s \in Texture
    BY <1>1 DEF Texture
  <2> HIDE DEF s, x
  <2>4. Dormant(f)
    BY <1>1, <2>3 DEF Dormant, Decoder
  <2> QED BY <2>2, <2>4
<1> QED BY <1>2, <1>3

\* A dormant decoder stays so, whatever the thread of its texture does.
LEMMA DormantTexture ==
    ASSUME NEW d, Dormant(d)
    PROVE  /\ d.texture.images > 0 => Dormant(announced(d))
           /\ Dormant(returned(d))
<1>1. d \in Decoder /\ d.texture \in Texture /\ d.texture.images \in Nat
  BY DEF Dormant, Decoder, Texture
<1>2. ASSUME NEW s \in Texture PROVE Dormant([d EXCEPT !.texture = s])
  BY DEF Dormant, Decoder
<1>3. ASSUME d.texture.images > 0 PROVE Dormant(announced(d))
  <2> DEFINE m == d.texture.images - 1
             s == [d.texture EXCEPT !.images = m, !.hasPendingTexture = TRUE]
             f == [d EXCEPT !.texture = s]
  <2>1. m \in Nat
    BY <1>1, <1>3
  <2>2. announced(d) = tryDeliverTextureFrame(f)
    <3>1. f = [d EXCEPT !.texture.images = @ - 1, !.texture.hasPendingTexture = TRUE]
      BY <1>1 DEF Decoder, Texture
    <3> HIDE DEF f
    <3> QED BY <3>1 DEF announced
  <2> HIDE DEF m
  <2>3. s \in Texture
    BY <1>1, <2>1 DEF Texture
  <2> HIDE DEF s
  <2>4. Dormant(f)
    BY <1>2, <2>3
  <2> HIDE DEF f
  <2> QED BY <2>2, <2>4, DormantDelivers
<1>4. Dormant(returned(d))
  <2> DEFINE s == [d.texture EXCEPT !.taken = FALSE, !.isTextureInUse = FALSE]
             f == [d EXCEPT !.texture = s]
  <2>1. returned(d) = tryDeliverTextureFrame(f)
    <3>1. f = [d EXCEPT !.texture.taken = FALSE, !.texture.isTextureInUse = FALSE]
      BY <1>1 DEF Decoder, Texture
    <3> HIDE DEF f
    <3> QED BY <3>1 DEF returned
  <2>2. s \in Texture
    BY <1>1 DEF Texture
  <2> HIDE DEF s
  <2>3. Dormant(f)
    BY <1>2, <2>2
  <2> HIDE DEF f
  <2> QED BY <2>1, <2>3, DormantDelivers
<1> QED BY <1>3, <1>4

\* What the texture thread does preserves the invariant.
LEMMA TextureStep ==
    ASSUME DecoderInvariant, FrameAvailable \/ ReturnTextureFrame
    PROVE  DecoderInvariant'
<1>1. PICK f : f = dec'
  OBVIOUS
<1>2. /\ call' = call /\ call' \in {"none", "resize", "key", "posted", "draining"}
      /\ owner' \in {"closed", "open", "refused", "deleted"}
  BY DEF FrameAvailable, ReturnTextureFrame, outside, DecoderInvariant
<1>3. \/ dec.texture.images > 0 /\ f = announced(dec)
      \/ dec.texture.taken /\ f = returned(dec)
  BY <1>1 DEF FrameAvailable, ReturnTextureFrame, outside
<1>4. CASE Rest(dec)
  <2>1. Moved(dec, f)
    BY <1>3, <1>4, Announces, Returns DEF Rest
  <2>2. Rest(f)
    BY <1>4, <2>1 DEF Moved, Same, Rest
  <2>3. dec.behind \in Nat /\ dec.codecType \in CodecType /\ f.behind \in Nat
    BY <1>4, <2>2 DEF Rest, Sane, Known, Decoder
  <2>4. Watched(f)
    BY <2>1, <2>3, StaysWatched DEF Moved, DecoderInvariant
  <2> QED BY <1>1, <1>2, <2>2, <2>4, Arrives DEF Ready
<1>5. CASE Dormant(dec) /\ call = "none"
  <2>1. Dormant(f)
    BY <1>3, <1>5, DormantTexture
  <2> QED BY <1>1, <1>2, <1>5, <2>1, ArrivesDormant
<1> QED BY <1>4, <1>5 DEF DecoderInvariant

\* The decoder, for any codec types, any limits of pending frames and any size of
\* the queue of Java: whatever fails, is flushed or runs late on the two threads, the
\* frames inside an initialised decoder are those it counts (but for one that was
\* flushed), its queue has room, its texture has one owner, and a poll looks for them.
THEOREM FramesAreCounted == DecoderSpec => []DecoderInv
<1>1. DecoderInvariant /\ [DecoderNext]_decVars => DecoderInvariant'
  <2> SUFFICES ASSUME DecoderInvariant, [DecoderNext]_decVars PROVE DecoderInvariant'
    OBVIOUS
  <2>1. CASE UNCHANGED decVars
    BY <2>1 DEF decVars, DecoderInvariant, Watched, Rest, Sane, Known, Counted, Apart, Dormant, inside, max_pending_frames
  <2>2. CASE \E key, empty \in BOOLEAN : CheckKeyFrame(key, empty)
    BY <2>2, CheckKeyFrameStep
  <2> QED BY <2>1, <2>2, InitDecodeStep, DecodeStep, ResizeStep, DrainStep, DecodeOnCodecThreadStep,
             ReleaseDecodeStep, DeleteDecoderStep, OnMessageStep, CodecStep, TextureStep DEF DecoderNext
<1> QED BY <1>1, InitHolds, InvariantMeans, PTL DEF DecoderSpec

-----------------------------------------------------------------------------
(* The buffers of the iobuffer module.                                     *)

Byte == Bytes \cup {Junk}
Blocks == UNION {[0 .. n - 1 -> Byte] : n \in Nat}
BufferRec == [begin : Nat, end : Nat, capacity : Nat, bytes : Blocks]

\* A buffer, and one that holds what is expected in it.
IsBuffer(b) ==
    /\ b \in BufferRec
    /\ b.begin <= b.end /\ b.end <= b.capacity
    /\ b.bytes \in [0 .. b.capacity - 1 -> Byte]

Holds(p, y, e) == \A i \in 1 .. Len(e) : e[i] # Junk => y[p + i - 1] = e[i]

Matches(b, e) ==
    /\ IsBuffer(b)
    /\ e \in Seq(Byte) /\ Len(e) = b.end - b.begin
    /\ Holds(b.begin, b.bytes, e)

\* The fields of a buffer.
Is(b, p, v, n, y) ==
    b \in BufferRec /\ b.begin = p /\ b.end = v /\ b.capacity = n /\ b.bytes = y

LEMMA BufferFits ==
    ASSUME NEW p \in Nat, NEW v \in Nat, NEW n \in Nat, NEW y \in [0 .. n - 1 -> Byte], p <= v, v <= n,
           NEW e \in Seq(Byte), Len(e) = v - p, Holds(p, y, e), NEW b, Is(b, p, v, n, y)
    PROVE  Matches(b, e)
BY DEF Matches, IsBuffer, Is

LEMMA BufferFields ==
    ASSUME NEW b, NEW e, Matches(b, e)
    PROVE  /\ IsBuffer(b) /\ b \in BufferRec
           /\ b.begin \in Nat /\ b.end \in Nat /\ b.capacity \in Nat
           /\ b.begin <= b.end /\ b.end <= b.capacity
           /\ b.bytes \in [0 .. b.capacity - 1 -> Byte]
           /\ e \in Seq(Byte) /\ Len(e) \in Nat /\ Len(e) = b.end - b.begin /\ Len(e) = size(b)
           /\ Holds(b.begin, b.bytes, e)
BY LenProperties DEF Matches, IsBuffer, BufferRec, size

\* The operations, field by field.
LEMMA Clears ==
    ASSUME NEW b \in BufferRec
    PROVE  Is(clear(b), 0, 0, b.capacity, b.bytes)
BY DEF clear, Is, BufferRec

LEMMA Consumes ==
    ASSUME NEW b \in BufferRec, NEW k \in Nat, b.begin + k # b.end
    PROVE  Is(consume(b, k), b.begin + k, b.end, b.capacity, b.bytes)
BY DEF consume, Is, BufferRec

LEMMA Produces ==
    ASSUME NEW b \in BufferRec, NEW k \in Nat
    PROVE  Is(produce(b, k), b.begin, b.end + k, b.capacity, b.bytes)
BY DEF produce, Is, BufferRec

LEMMA Ends ==
    ASSUME NEW b \in BufferRec, NEW k \in Nat
    PROVE  Is([b EXCEPT !.end = k], b.begin, k, b.capacity, b.bytes)
BY DEF Is, BufferRec

LEMMA Writes ==
    ASSUME NEW b \in BufferRec, NEW y \in Blocks
    PROVE  Is([b EXCEPT !.bytes = y], b.begin, b.end, b.capacity, y)
BY DEF Is, BufferRec

LEMMA Shifts ==
    ASSUME NEW b \in BufferRec, NEW y \in Blocks, NEW k \in Nat
    PROVE  Is([[b EXCEPT !.bytes = y] EXCEPT !.begin = 0, !.end = k], 0, k, b.capacity, y)
BY DEF Is, BufferRec

LEMMA Junks ==
    ASSUME NEW n \in Nat
    PROVE  /\ junk(n) \in Seq(Byte) /\ Len(junk(n)) = n
           /\ \A i \in 1 .. n : junk(n)[i] = Junk
<1>1. junk(n) \in [1 .. n -> Byte]
  BY DEF junk, Byte
<1>2. junk(n) \in Seq(Byte)
  BY <1>1, SeqDef
<1> QED BY <1>1, <1>2, LenProperties DEF junk

\* What is left of e behind k bytes, and e with k bytes of Junk behind it.
LEMMA RestOf ==
    ASSUME NEW e \in Seq(Byte), NEW k \in Nat, k <= Len(e)
    PROVE  LET f == SubSeq(e, k + 1, Len(e))
           IN f \in Seq(Byte) /\ Len(f) = Len(e) - k /\ \A i \in 1 .. Len(f) : f[i] = e[k + i]
<1> DEFINE f == SubSeq(e, k + 1, Len(e))
           n == Len(e)
<1>1. n \in Nat /\ \A i \in k + 1 .. n : e[i] \in Byte
  BY LenProperties, ElementOfSeq
<1>2. /\ f \in Seq(Byte) /\ Len(f) = IF k + 1 <= n THEN n - (k + 1) + 1 ELSE 0
      /\ \A i \in 1 .. n - (k + 1) + 1 : f[i] = e[(k + 1) + i - 1]
  BY <1>1, SubSeqProperties
<1> HIDE DEF f
<1>3. Len(f) = n - k
  BY <1>1, <1>2
<1> HIDE DEF n
<1>4. ASSUME NEW i \in 1 .. n - k PROVE f[i] = e[k + i]
  <2>1. i \in 1 .. n - (k + 1) + 1 /\ (k + 1) + i - 1 = k + i
    BY <1>1
  <2> QED BY <2>1, <1>2
<1> QED BY <1>2, <1>3, <1>4 DEF f, n

LEMMA JunkBehind ==
    ASSUME NEW e \in Seq(Byte), NEW k \in Nat
    PROVE  LET f == e \o junk(k)
           IN /\ f \in Seq(Byte) /\ Len(f) = Len(e) + k
              /\ \A i \in 1 .. Len(f) : f[i] = IF i <= Len(e) THEN e[i] ELSE Junk
<1> DEFINE f == e \o junk(k)
           n == Len(e)
<1>1. n \in Nat
  BY LenProperties
<1>2. junk(k) \in Seq(Byte) /\ Len(junk(k)) = k /\ \A i \in 1 .. k : junk(k)[i] = Junk
  BY Junks
<1>3. /\ f \in Seq(Byte) /\ Len(f) = n + k
      /\ \A i \in 1 .. n + k : f[i] = IF i <= n THEN e[i] ELSE junk(k)[i - n]
  BY <1>2, ConcatProperties
<1> HIDE DEF f, n
<1>4. ASSUME NEW i \in 1 .. n + k PROVE f[i] = IF i <= n THEN e[i] ELSE Junk
  <2>1. i > n => i - n \in 1 .. k
    BY <1>1
  <2> QED BY <1>1, <1>2, <1>3, <2>1
<1> QED BY <1>3, <1>4 DEF f, n

LEMMA NewMatches ==
    ASSUME NEW n \in Nat
    PROVE  Matches(new_buffer(n), junk(n))
<1> DEFINE y == [i \in 0 .. n - 1 |-> Junk]
<1>1. y \in [0 .. n - 1 -> Byte] /\ y \in Blocks
  BY DEF Byte, Blocks
<1>2. Is(new_buffer(n), 0, n, n, y)
  BY <1>1 DEF new_buffer, Is, BufferRec
<1>3. Holds(0, y, junk(n))
  BY Junks DEF Holds
<1> HIDE DEF y
<1> DEFINE e == junk(n)
           b == new_buffer(n)
<1>4. e \in Seq(Byte) /\ Len(e) = n
  BY Junks
<1>5. n = n - 0 /\ 0 <= n /\ n <= n
  OBVIOUS
<1> HIDE DEF e, b
<1>6. Matches(b, e)
  BY <1>1, <1>2, <1>3, <1>4, <1>5, BufferFits DEF e, b
<1> QED BY <1>6 DEF e, b

LEMMA ClearMatches ==
    ASSUME NEW b, IsBuffer(b)
    PROVE  Matches(clear(b), <<>>)
<1>1. <<>> \in Seq(Byte) /\ Len(<<>>) = 0
  BY EmptySeq
<1>2. b \in BufferRec /\ b.capacity \in Nat /\ b.bytes \in [0 .. b.capacity - 1 -> Byte]
  BY DEF IsBuffer, BufferRec
<1>3. Holds(0, b.bytes, <<>>) /\ 0 = 0 - 0 /\ 0 <= b.capacity
  BY <1>1, <1>2 DEF Holds
<1>4. Is(clear(b), 0, 0, b.capacity, b.bytes)
  BY <1>2, Clears
<1>5. 0 \in Nat /\ 0 <= 0
  OBVIOUS
<1> QED BY <1>1, <1>2, <1>3, <1>4, <1>5, BufferFits

LEMMA ConsumeMatches ==
    ASSUME NEW b, NEW e, Matches(b, e), NEW k \in Nat, k <= size(b)
    PROVE  Matches(consume(b, k), SubSeq(e, k + 1, Len(e)))
<1> DEFINE f == SubSeq(e, k + 1, Len(e))
           p == b.begin
           v == b.end
           n == b.capacity
           y == b.bytes
<1>1. /\ IsBuffer(b) /\ b \in BufferRec /\ p \in Nat /\ v \in Nat /\ n \in Nat /\ p <= v /\ v <= n
      /\ y \in [0 .. n - 1 -> Byte]
      /\ e \in Seq(Byte) /\ Len(e) \in Nat /\ Len(e) = v - p /\ Len(e) = size(b) /\ Holds(p, y, e)
  BY BufferFields
<1>2. f \in Seq(Byte) /\ Len(f) = Len(e) - k /\ \A i \in 1 .. Len(f) : f[i] = e[k + i]
  BY <1>1, RestOf
<1> HIDE DEF f, p, v, n, y
<1>3. CASE p + k = v
  <2>1. consume(b, k) = clear(b)
    BY <1>3 DEF consume, p, v
  <2>2. Len(f) = 0
    BY <1>1, <1>2, <1>3
  <2>3. f = <<>>
    BY <1>2, <2>2, EmptySeq
  <2> QED BY <1>1, <2>1, <2>3, ClearMatches DEF f
<1>4. CASE p + k # v
  <2>1. Is(consume(b, k), p + k, v, n, y)
    BY <1>1, <1>4, Consumes DEF p, v, n, y
  <2>2. Holds(p + k, y, f)
    <3>1. ASSUME NEW i \in 1 .. Len(f), f[i] # Junk PROVE y[p + k + i - 1] = f[i]
      <4>2. p \in Nat /\ Len(e) \in Nat /\ Len(f) = Len(e) - k /\ i \in 1 .. Len(f)
        BY <1>1, <1>2
      <4>3. k + i \in 1 .. Len(e) /\ p + (k + i) - 1 = p + k + i - 1
        BY <4>2
      <4>1. k + i \in 1 .. Len(e) /\ f[i] = e[k + i] /\ p + (k + i) - 1 = p + k + i - 1
        BY <1>2, <4>3
      <4> QED BY <4>1, <3>1, <1>1 DEF Holds
    <3> QED BY <3>1 DEF Holds
  <2>3. p + k \in Nat /\ p + k <= v /\ Len(f) = v - (p + k)
    BY <1>1, <1>2
  <2> QED BY <1>1, <1>2, <2>1, <2>2, <2>3, BufferFits DEF f
<1> QED BY <1>3, <1>4

LEMMA ProduceMatches ==
    ASSUME NEW b, NEW e, Matches(b, e), NEW k \in Nat, k <= freespace(b)
    PROVE  Matches(produce(b, k), e \o junk(k))
<1> DEFINE f == e \o junk(k)
           p == b.begin
           v == b.end
           n == b.capacity
           y == b.bytes
<1>1. /\ IsBuffer(b) /\ b \in BufferRec /\ p \in Nat /\ v \in Nat /\ n \in Nat /\ p <= v /\ v <= n
      /\ y \in [0 .. n - 1 -> Byte]
      /\ e \in Seq(Byte) /\ Len(e) \in Nat /\ Len(e) = v - p /\ Holds(p, y, e)
  BY BufferFields
<1>2. /\ f \in Seq(Byte) /\ Len(f) = Len(e) + k
      /\ \A i \in 1 .. Len(f) : f[i] = IF i <= Len(e) THEN e[i] ELSE Junk
  BY <1>1, JunkBehind
<1>3. Is(produce(b, k), p, v + k, n, y)
  BY <1>1, Produces
<1>4. k <= n - v
  BY DEF freespace
<1> HIDE DEF f, p, v, n, y
<1>5. Holds(p, y, f)
  BY <1>1, <1>2 DEF Holds
<1>6. v + k \in Nat /\ p <= v + k /\ v + k <= n /\ Len(f) = (v + k) - p
  BY <1>1, <1>2, <1>4
<1> QED BY <1>1, <1>2, <1>3, <1>5, <1>6, BufferFits DEF f

\* What is moved to the beginning of the block.
Moves(b, y) ==
    /\ y \in [0 .. b.capacity - 1 -> Byte] /\ y \in Blocks
    /\ \A i \in 1 .. size(b) : y[i - 1] = b.bytes[b.begin + i - 1]

LEMMA MovedBytes ==
    ASSUME NEW b, IsBuffer(b)
    PROVE  \E y : Moves(b, y) /\ moved(b, size(b)) = [b EXCEPT !.bytes = y]
<1> DEFINE y == [i \in DOMAIN b.bytes |-> IF i < size(b) THEN b.bytes[b.begin + i] ELSE b.bytes[i]]
           p == b.begin
           v == b.end
           n == b.capacity
           z == b.bytes
<1>1. moved(b, size(b)) = [b EXCEPT !.bytes = y]
  BY DEF moved
<1>2. p \in Nat /\ v \in Nat /\ n \in Nat /\ p <= v /\ v <= n /\ z \in [0 .. n - 1 -> Byte]
  BY DEF IsBuffer, BufferRec
<1>3. y = [i \in 0 .. n - 1 |-> IF i < v - p THEN z[p + i] ELSE z[i]]
  BY <1>2 DEF size
<1> HIDE DEF y, p, v, n, z
<1>4. \A i \in 0 .. n - 1 : (i < v - p => p + i \in 0 .. n - 1 /\ z[p + i] \in Byte) /\ z[i] \in Byte
  BY <1>2
<1>5. y \in [0 .. n - 1 -> Byte]
  BY <1>3, <1>4
<1>6. y \in Blocks
  BY <1>2, <1>5 DEF Blocks
<1>7. ASSUME NEW i \in 1 .. v - p PROVE y[i - 1] = z[p + i - 1]
  <2>1. i - 1 \in 0 .. n - 1 /\ i - 1 < v - p /\ p + (i - 1) = p + i - 1
    BY <1>2
  <2> QED BY <1>3, <2>1
<1>8. Moves(b, y)
  BY <1>5, <1>6, <1>7 DEF Moves, size, p, v, n, z
<1> QED BY <1>1, <1>8

\* What of e is left when it is cut or filled up to n.
LEMMA Pads ==
    ASSUME NEW e \in Seq(Byte), NEW n \in Nat
    PROVE  /\ pad(e, n) \in Seq(Byte) /\ Len(pad(e, n)) = n
           /\ \A i \in 1 .. n : pad(e, n)[i] = IF i <= Len(e) THEN e[i] ELSE Junk
<1>1. Len(e) \in Nat
  BY LenProperties
<1>2. CASE n <= Len(e)
  <2> DEFINE f == SubSeq(e, 1, n)
  <2>1. \A i \in 1 .. n : e[i] \in Byte
    BY <1>1, <1>2, ElementOfSeq
  <2>2. /\ f \in Seq(Byte) /\ Len(f) = IF 1 <= n THEN n - 1 + 1 ELSE 0
        /\ \A i \in 1 .. n - 1 + 1 : f[i] = e[1 + i - 1]
    BY <2>1, SubSeqProperties
  <2>3. pad(e, n) = f
    BY <1>2 DEF pad
  <2> HIDE DEF f
  <2> QED BY <1>1, <1>2, <2>2, <2>3
<1>3. CASE n > Len(e)
  <2> DEFINE k == n - Len(e)
  <2>1. k \in Nat /\ Len(e) + k = n
    BY <1>1, <1>3
  <2>2. pad(e, n) = e \o junk(k)
    BY <1>1, <1>3 DEF pad
  <2> HIDE DEF k
  <2> DEFINE f == e \o junk(k)
  <2>3. /\ f \in Seq(Byte) /\ Len(f) = Len(e) + k
        /\ \A i \in 1 .. Len(f) : f[i] = IF i <= Len(e) THEN e[i] ELSE Junk
    BY <2>1, JunkBehind
  <2> HIDE DEF f
  <2> QED BY <2>1, <2>2, <2>3 DEF f
<1> QED BY <1>1, <1>2, <1>3

LEMMA ResizeMatches ==
    ASSUME NEW b, NEW e, Matches(b, e), NEW k \in Nat, k <= b.capacity
    PROVE  Matches(resize(b, k), pad(e, k))
<1> DEFINE f == pad(e, k)
           p == b.begin
           n == b.capacity
           y == b.bytes
<1>1. /\ IsBuffer(b) /\ b \in BufferRec /\ p \in Nat /\ n \in Nat
      /\ y \in [0 .. n - 1 -> Byte]
      /\ e \in Seq(Byte) /\ Len(e) \in Nat /\ Len(e) = size(b) /\ Holds(p, y, e)
  BY BufferFields
<1>2. /\ f \in Seq(Byte) /\ Len(f) = k
      /\ \A i \in 1 .. k : f[i] = IF i <= Len(e) THEN e[i] ELSE Junk
  BY <1>1, Pads
<1> HIDE DEF f
<1>3. CASE p + k <= n
  <2>1. resize(b, k) = [b EXCEPT !.end = p + k]
    BY <1>3 DEF resize
  <2>2. p + k \in Nat
    BY <1>1
  <2>3. Is(resize(b, k), p, p + k, n, y)
    BY <1>1, <2>1, <2>2, Ends
  <2> HIDE DEF p, n, y
  <2>4. Holds(p, y, f)
    BY <1>1, <1>2 DEF Holds
  <2>5. p <= p + k /\ Len(f) = (p + k) - p
    BY <1>1, <1>2
  <2> QED BY <1>1, <1>2, <1>3, <2>2, <2>3, <2>4, <2>5, BufferFits DEF f
<1>4. CASE ~(p + k <= n)
  <2>1. PICK z : Moves(b, z) /\ moved(b, size(b)) = [b EXCEPT !.bytes = z]
    BY <1>1, MovedBytes
  <2>2. resize(b, k) = [[b EXCEPT !.bytes = z] EXCEPT !.begin = 0, !.end = k]
    BY <1>4, <2>1 DEF resize
  <2>3. z \in Blocks /\ z \in [0 .. n - 1 -> Byte] /\ \A i \in 1 .. Len(e) : z[i - 1] = y[p + i - 1]
    BY <1>1, <2>1 DEF Moves
  <2>4. Is(resize(b, k), 0, k, n, z)
    <3> DEFINE x == [[b EXCEPT !.bytes = z] EXCEPT !.begin = 0, !.end = k]
    <3>1. Is(x, 0, k, n, z)
      BY <1>1, <2>3, Shifts
    <3> QED BY <2>2, <3>1
  <2> HIDE DEF p, n, y
  <2>5. Holds(0, z, f)
    <3>1. ASSUME NEW i \in 1 .. Len(f), f[i] # Junk PROVE z[0 + i - 1] = f[i]
      <4>1. i \in 1 .. Len(e) /\ f[i] = e[i] /\ 0 + i - 1 = i - 1
        BY <1>1, <1>2, <3>1
      <4> QED BY <1>1, <2>3, <3>1, <4>1 DEF Holds
    <3> QED BY <3>1 DEF Holds
  <2>6. k <= n /\ Len(f) = k - 0 /\ 0 <= k
    BY <1>2 DEF n
  <2> QED BY <1>1, <1>2, <2>3, <2>4, <2>5, <2>6, BufferFits DEF f
<1> QED BY <1>3, <1>4

LEMMA AlignMatches ==
    ASSUME NEW b, NEW e, Matches(b, e)
    PROVE  Matches(align(b), e)
<1> DEFINE p == b.begin
           n == b.capacity
           y == b.bytes
<1>1. /\ IsBuffer(b) /\ b \in BufferRec /\ p \in Nat /\ n \in Nat /\ b.end \in Nat /\ b.end <= n
      /\ e \in Seq(Byte) /\ Len(e) \in Nat /\ Len(e) = b.end - p /\ Len(e) = size(b) /\ Holds(p, y, e)
  BY BufferFields
<1>2. CASE p = 0
  BY <1>2 DEF align
<1>3. CASE p # 0 /\ p # b.end
  <2>1. PICK z : Moves(b, z) /\ moved(b, size(b)) = [b EXCEPT !.bytes = z]
    BY <1>1, MovedBytes
  <2>2. align(b) = [[b EXCEPT !.bytes = z] EXCEPT !.begin = 0, !.end = size(b)]
    BY <1>3, <2>1 DEF align
  <2>3. z \in Blocks /\ z \in [0 .. n - 1 -> Byte] /\ \A i \in 1 .. Len(e) : z[i - 1] = y[p + i - 1]
    BY <1>1, <2>1 DEF Moves
  <2>4. Is(align(b), 0, Len(e), n, z)
    <3> DEFINE k == Len(e)
               x == [[b EXCEPT !.bytes = z] EXCEPT !.begin = 0, !.end = k]
    <3>1. k \in Nat /\ align(b) = x
      BY <1>1, <2>2
    <3> HIDE DEF k
    <3>2. Is(x, 0, k, n, z)
      BY <1>1, <2>3, <3>1, Shifts
    <3> HIDE DEF x
    <3> QED BY <3>1, <3>2 DEF k
  <2> HIDE DEF p, n, y
  <2>5. Holds(0, z, e)
    <3>1. ASSUME NEW i \in 1 .. Len(e), e[i] # Junk PROVE z[0 + i - 1] = e[i]
      <4>1. 0 + i - 1 = i - 1
        OBVIOUS
      <4> QED BY <1>1, <2>3, <3>1, <4>1 DEF Holds
    <3> QED BY <3>1 DEF Holds
  <2>6. Len(e) <= n /\ Len(e) = Len(e) - 0 /\ 0 <= Len(e)
    BY <1>1
  <2> QED BY <1>1, <2>3, <2>4, <2>5, <2>6, BufferFits
<1>4. CASE p # 0 /\ p = b.end
  <2>1. align(b) = clear(b)
    BY <1>4 DEF align
  <2>2. e = <<>>
    <3>1. Len(e) = 0
      BY <1>1, <1>4
    <3> QED BY <1>1, <3>1, EmptySeq
  <2> QED BY <1>1, <2>1, <2>2, ClearMatches
<1> QED BY <1>2, <1>3, <1>4

LEMMA PokeMatches ==
    ASSUME NEW b, NEW e, Matches(b, e), NEW s \in Seq(Byte), Len(s) <= size(b)
    PROVE  Matches(poke(b, s), s \o SubSeq(e, Len(s) + 1, Len(e)))
<1> DEFINE m == Len(s)
           t == SubSeq(e, m + 1, Len(e))
           f == s \o t
           p == b.begin
           v == b.end
           n == b.capacity
           y == b.bytes
<1>1. /\ IsBuffer(b) /\ b \in BufferRec /\ p \in Nat /\ v \in Nat /\ n \in Nat /\ p <= v /\ v <= n
      /\ y \in [0 .. n - 1 -> Byte]
      /\ e \in Seq(Byte) /\ Len(e) \in Nat /\ Len(e) = v - p /\ Len(e) = size(b) /\ Holds(p, y, e)
  BY BufferFields
<1>2. m \in Nat /\ m <= Len(e) /\ \A i \in 1 .. m : s[i] \in Byte
  BY <1>1, LenProperties, ElementOfSeq
<1>3. t \in Seq(Byte) /\ Len(t) = Len(e) - m /\ \A i \in 1 .. Len(t) : t[i] = e[m + i]
  BY <1>1, <1>2, RestOf
<1> HIDE DEF t
<1>4. /\ f \in Seq(Byte) /\ Len(f) = m + Len(t)
      /\ \A i \in 1 .. m + Len(t) : f[i] = IF i <= m THEN s[i] ELSE t[i - m]
  BY <1>3, ConcatProperties
<1>5. poke(b, s) = [b EXCEPT !.bytes = [i \in 0 .. n - 1 |->
                        IF i - p \in 0 .. m - 1 THEN s[i - p + 1] ELSE y[i]]]
  BY <1>1 DEF poke
<1> DEFINE z == [i \in 0 .. n - 1 |-> IF i - p \in 0 .. m - 1 THEN s[i - p + 1] ELSE y[i]]
<1> HIDE DEF f, m, p, v, n, y
<1>6. \A i \in 1 .. Len(e) : f[i] = IF i <= m THEN s[i] ELSE e[i]
  <2> SUFFICES ASSUME NEW i \in 1 .. Len(e) PROVE f[i] = IF i <= m THEN s[i] ELSE e[i]
    OBVIOUS
  <2>1. i \in 1 .. m + Len(t) /\ (i > m => i - m \in 1 .. Len(t) /\ m + (i - m) = i)
    BY <1>1, <1>2, <1>3
  <2>2. i > m => t[i - m] = e[i]
    BY <1>3, <2>1
  <2> QED BY <1>1, <1>2, <1>4, <2>1, <2>2
<1>7. Len(f) = Len(e)
  <2>1. Len(e) \in Nat /\ m \in Nat /\ Len(t) = Len(e) - m /\ Len(f) = m + Len(t)
    BY <1>1, <1>2, <1>3, <1>4
  <2> QED BY <2>1
<1>8. z \in [0 .. n - 1 -> Byte]
  <2>1. ASSUME NEW i \in 0 .. n - 1 PROVE (IF i - p \in 0 .. m - 1 THEN s[i - p + 1] ELSE y[i]) \in Byte
    <3>1. i - p \in 0 .. m - 1 => i - p + 1 \in 1 .. m
      BY <1>1, <1>2
    <3> QED BY <1>1, <1>2, <3>1
  <2> QED BY <2>1
<1>9. z \in Blocks
  <2> HIDE DEF z
  <2> QED BY <1>1, <1>8 DEF Blocks
<1>10. Holds(p, z, f)
  <2>1. ASSUME NEW i \in 1 .. Len(f), f[i] # Junk PROVE z[p + i - 1] = f[i]
    <3>1. i \in 1 .. Len(e) /\ p + i - 1 \in 0 .. n - 1
      BY <1>1, <1>7
    <3>2. CASE i <= m
      <4>1. (p + i - 1) - p \in 0 .. m - 1 /\ (p + i - 1) - p + 1 = i
        BY <1>1, <1>2, <3>1, <3>2
      <4>2. z[p + i - 1] = s[i]
        BY <3>1, <4>1
      <4> QED BY <1>6, <3>1, <3>2, <4>2
    <3>3. CASE i > m
      <4>1. (p + i - 1) - p \notin 0 .. m - 1
        BY <1>1, <1>2, <3>1, <3>3
      <4>2. z[p + i - 1] = y[p + i - 1]
        BY <3>1, <4>1
      <4>3. f[i] = e[i]
        BY <1>2, <1>6, <3>1, <3>3
      <4> QED BY <1>1, <2>1, <3>1, <4>2, <4>3 DEF Holds
    <3> QED BY <1>2, <3>1, <3>2, <3>3
  <2> QED BY <2>1 DEF Holds
<1> HIDE DEF z
<1>11. Is(poke(b, s), p, v, n, z)
  BY <1>1, <1>5, <1>9, Writes DEF p, v, n, z
<1>12. Matches(poke(b, s), f)
  BY <1>1, <1>4, <1>7, <1>8, <1>10, <1>11, BufferFits
<1> QED BY <1>12 DEF f, t, m

\* A buffer holds what is expected of it when less is expected.
LEMMA Weaker ==
    ASSUME NEW b, NEW e, Matches(b, e), NEW f \in Seq(Byte), Len(f) = Len(e),
           \A i \in 1 .. Len(f) : f[i] # Junk => e[i] = f[i]
    PROVE  Matches(b, f)
BY DEF Matches, Holds

\* What data() shows is in the buffer.
LEMMA DataMatches ==
    ASSUME NEW b, IsBuffer(b)
    PROVE  Matches(b, data(b))
<1> DEFINE p == b.begin
           v == b.end
           n == b.capacity
           y == b.bytes
           d == data(b)
<1>1. p \in Nat /\ v \in Nat /\ n \in Nat /\ p <= v /\ v <= n /\ y \in [0 .. n - 1 -> Byte]
  BY DEF IsBuffer, BufferRec
<1>2. d = [i \in 1 .. v - p |-> y[p + i - 1]]
  BY DEF data, size
<1> HIDE DEF p, v, n, y, d
<1>3. v - p \in Nat /\ \A i \in 1 .. v - p : y[p + i - 1] \in Byte
  <2>1. \A i \in 1 .. v - p : p + i - 1 \in 0 .. n - 1
    BY <1>1
  <2> QED BY <1>1, <2>1
<1>4. d \in [1 .. v - p -> Byte]
  BY <1>2, <1>3
<1>5. d \in Seq(Byte) /\ Len(d) = v - p
  <2>1. d \in Seq(Byte)
    BY <1>3, <1>4, SeqDef
  <2> QED BY <1>3, <1>4, <2>1, LenProperties
<1>6. Holds(p, y, d)
  BY <1>2, <1>5 DEF Holds
<1> QED BY <1>5, <1>6 DEF Matches, p, v, y, d

\* A buffer that is too small is replaced by a copy.
LEMMA CopyMatches ==
    ASSUME NEW b, NEW e, Matches(b, e), NEW k \in Nat, k > b.capacity
    PROVE  Matches(resize(poke(new_buffer(k), data(b)), k), pad(e, k))
<1> DEFINE d == data(b)
           a == new_buffer(k)
           j == junk(k)
           w == poke(a, d)
           t == SubSeq(j, Len(d) + 1, Len(j))
           g == d \o t
<1>1. /\ IsBuffer(b) /\ e \in Seq(Byte) /\ Len(e) \in Nat /\ Len(e) = b.end - b.begin
      /\ b.end \in Nat /\ b.begin \in Nat /\ b.capacity \in Nat /\ b.end <= b.capacity
      /\ Holds(b.begin, b.bytes, e)
  BY BufferFields
<1>2. d \in Seq(Byte) /\ Len(d) = b.end - b.begin /\ Holds(b.begin, b.bytes, d) /\ Matches(b, d)
  BY <1>1, DataMatches DEF Matches
<1>3. \A i \in 1 .. Len(e) : e[i] # Junk => d[i] = e[i]
  BY <1>1 DEF data, size, Holds
<1>4. Matches(a, j) /\ j \in Seq(Byte) /\ Len(j) = k /\ size(a) = k /\ a.capacity = k
  <2>1. a.begin = 0 /\ a.end = k /\ a.capacity = k
    BY DEF new_buffer
  <2>2. size(a) = k
    BY <2>1 DEF size
  <2> HIDE DEF a
  <2> QED BY <2>1, <2>2, NewMatches, Junks DEF a
<1>5. Len(d) = Len(e) /\ Len(d) < k
  BY <1>1, <1>2
<1> HIDE DEF d, a, j
<1>6. Matches(w, g)
  <2>1. Len(d) <= size(a)
    BY <1>1, <1>4, <1>5
  <2> QED BY <1>2, <1>4, <2>1, PokeMatches
<1>7. w.capacity = k
  BY <1>4, BufferFields, Writes DEF poke, Matches, IsBuffer, BufferRec
<1>8. Matches(resize(w, k), pad(g, k))
  <2>1. k <= w.capacity
    BY <1>7
  <2> HIDE DEF w, g
  <2> QED BY <1>6, <2>1, ResizeMatches
<1>9. g \in Seq(Byte) /\ \A i \in 1 .. Len(d) : i <= Len(g) /\ g[i] = d[i]
  <2>1. t \in Seq(Byte) /\ Len(t) \in Nat
    <3>1. Len(d) \in Nat /\ Len(d) <= Len(j)
      BY <1>1, <1>4, <1>5
    <3> QED BY <1>4, <3>1, RestOf, LenProperties
  <2> HIDE DEF t
  <2>2. /\ g \in Seq(Byte) /\ Len(g) = Len(d) + Len(t)
        /\ \A i \in 1 .. Len(d) + Len(t) : g[i] = IF i <= Len(d) THEN d[i] ELSE t[i - Len(d)]
    BY <1>2, <2>1, ConcatProperties
  <2>3. Len(d) \in Nat
    BY <1>1, <1>5
  <2> HIDE DEF g
  <2> QED BY <2>1, <2>2, <2>3
<1> HIDE DEF w, g
<1>10. /\ pad(g, k) \in Seq(Byte) /\ Len(pad(g, k)) = k
       /\ \A i \in 1 .. k : pad(g, k)[i] = IF i <= Len(g) THEN g[i] ELSE Junk
  BY <1>9, Pads
<1>11. /\ pad(e, k) \in Seq(Byte) /\ Len(pad(e, k)) = k
       /\ \A i \in 1 .. k : pad(e, k)[i] = IF i <= Len(e) THEN e[i] ELSE Junk
  BY <1>1, Pads
<1>12. ASSUME NEW i \in 1 .. k, pad(e, k)[i] # Junk PROVE pad(g, k)[i] = pad(e, k)[i]
  <2>1. i \in 1 .. Len(e) /\ pad(e, k)[i] = e[i]
    BY <1>1, <1>11, <1>12
  <2>2. pad(g, k)[i] = d[i]
    BY <1>5, <1>9, <1>10, <2>1
  <2> QED BY <1>3, <1>12, <2>1, <2>2
<1> QED BY <1>8, <1>10, <1>11, <1>12, Weaker DEF w, a, d

LEMMA ResetMatches ==
    ASSUME NEW b, IsBuffer(b), NEW k \in Nat, k <= b.capacity
    PROVE  Matches(resize(clear(b), k), junk(k))
<1>1. Matches(clear(b), <<>>) /\ clear(b).capacity = b.capacity
  BY ClearMatches, Clears DEF IsBuffer, Is
<1>2. Matches(resize(clear(b), k), pad(<<>>, k))
  BY <1>1, ResizeMatches
<1>3. <<>> \in Seq(Byte) /\ Len(<<>>) = 0
  BY EmptySeq
<1>4. /\ pad(<<>>, k) \in Seq(Byte) /\ Len(pad(<<>>, k)) = k
      /\ junk(k) \in Seq(Byte) /\ Len(junk(k)) = k /\ \A i \in 1 .. k : junk(k)[i] = Junk
  BY <1>3, Pads, Junks
<1> QED BY <1>2, <1>4, Weaker

-----------------------------------------------------------------------------
(* The table of the buffers.                                               *)

Tables(S) == UNION {[H -> S] : H \in SUBSET Nat}
Objs == [table : Tables(BufferRec), expected : Tables(Seq(Byte)), counter : Nat]

ObjInv ==
    /\ o \in Objs
    /\ DOMAIN o.expected = DOMAIN o.table /\ DOMAIN o.table \subseteq 1 .. o.counter
    /\ \A x \in DOMAIN o.table : Matches(o.table[x], o.expected[x])

LEMMA Stores ==
    ASSUME ObjInv, NEW x \in DOMAIN o.table, NEW b, NEW e, Matches(b, e), o' = set_lua_obj(o, x, b, e)
    PROVE  ObjInv'
<1> DEFINE H == DOMAIN o.table
<1>1. o.table \in [H -> BufferRec] /\ o.expected \in [H -> Seq(Byte)] /\ H \in SUBSET Nat /\ o.counter \in Nat
  BY DEF ObjInv, Objs, Tables
<1>2. b \in BufferRec /\ e \in Seq(Byte)
  BY BufferFields
<1> DEFINE t == [o.table EXCEPT ![x] = b]
           f == [o.expected EXCEPT ![x] = e]
<1>3. t \in [H -> BufferRec] /\ f \in [H -> Seq(Byte)]
  BY <1>1, <1>2
<1>4. o'.table = t /\ o'.expected = f /\ o'.counter = o.counter /\ o' \in [table : {t}, expected : {f}, counter : Nat]
  BY <1>1 DEF set_lua_obj, ObjInv, Objs
<1>5. \A y \in H : Matches(t[y], f[y])
  BY <1>1 DEF ObjInv
<1> HIDE DEF t, f, H
<1>6. t \in Tables(BufferRec) /\ f \in Tables(Seq(Byte)) /\ DOMAIN t = H /\ DOMAIN f = H
  BY <1>1, <1>3 DEF Tables
<1>7. o' \in Objs
  BY <1>4, <1>6 DEF Objs
<1> QED BY <1>4, <1>5, <1>6, <1>7 DEF ObjInv, H

LEMMA Creates ==
    ASSUME ObjInv, NEW b, NEW e, Matches(b, e), o' = new_lua_obj(o, b, e)
    PROVE  ObjInv'
<1> DEFINE H == DOMAIN o.table
           n == o.counter + 1
           K == H \cup {n}
           t == [x \in K |-> IF x = n THEN b ELSE o.table[x]]
           f == [x \in K |-> IF x = n THEN e ELSE o.expected[x]]
<1>1. /\ o.table \in [H -> BufferRec] /\ o.expected \in [H -> Seq(Byte)] /\ H \in SUBSET Nat /\ o.counter \in Nat
      /\ DOMAIN o.expected = H /\ H \subseteq 1 .. o.counter
  BY DEF ObjInv, Objs, Tables
<1>2. b \in BufferRec /\ e \in Seq(Byte)
  BY BufferFields
<1>3. n \in Nat /\ n \notin H /\ K \subseteq 1 .. n /\ K \in SUBSET Nat
  BY <1>1
<1>4. o'.table = t /\ o'.expected = f /\ o'.counter = n /\ o' \in [table : {t}, expected : {f}, counter : {n}]
  <2>1. o' = [o EXCEPT !.counter = n, !.table = t, !.expected = f]
    BY <1>1 DEF new_lua_obj
  <2> HIDE DEF t, f, n
  <2> QED BY <2>1 DEF ObjInv, Objs
<1>5. \A y \in K : Matches(t[y], f[y])
  BY <1>3 DEF ObjInv
<1>6. t \in [K -> BufferRec] /\ f \in [K -> Seq(Byte)]
  BY <1>1, <1>2
<1> HIDE DEF t, f, H, K, n
<1>7. t \in Tables(BufferRec) /\ f \in Tables(Seq(Byte)) /\ DOMAIN t = K /\ DOMAIN f = K
  BY <1>3, <1>6 DEF Tables
<1>8. o' \in Objs
  BY <1>3, <1>4, <1>7 DEF Objs
<1> QED BY <1>3, <1>4, <1>5, <1>7, <1>8 DEF ObjInv

LEMMA Deletes ==
    ASSUME ObjInv, NEW x \in DOMAIN o.table, o' = delete_lua_obj(o, x)
    PROVE  ObjInv'
<1> DEFINE H == DOMAIN o.table
           K == H \ {x}
           t == [y \in K |-> o.table[y]]
           f == [y \in K |-> o.expected[y]]
<1>1. /\ o.table \in [H -> BufferRec] /\ o.expected \in [H -> Seq(Byte)] /\ H \in SUBSET Nat /\ o.counter \in Nat
      /\ DOMAIN o.expected = H /\ H \subseteq 1 .. o.counter
  BY DEF ObjInv, Objs, Tables
<1>2. o'.table = t /\ o'.expected = f /\ o'.counter = o.counter /\ o' \in [table : {t}, expected : {f}, counter : Nat]
  <2>1. o' = [o EXCEPT !.table = t, !.expected = f]
    BY <1>1 DEF delete_lua_obj
  <2> HIDE DEF t, f
  <2> QED BY <2>1 DEF ObjInv, Objs
<1>3. \A y \in K : Matches(t[y], f[y])
  BY DEF ObjInv
<1>4. t \in [K -> BufferRec] /\ f \in [K -> Seq(Byte)] /\ K \in SUBSET Nat /\ K \subseteq 1 .. o.counter
  BY <1>1
<1> HIDE DEF t, f, H, K
<1>5. t \in Tables(BufferRec) /\ f \in Tables(Seq(Byte)) /\ DOMAIN t = K /\ DOMAIN f = K
  BY <1>4 DEF Tables
<1>6. o' \in Objs
  BY <1>2, <1>5 DEF Objs
<1> QED BY <1>2, <1>3, <1>4, <1>5, <1>6 DEF ObjInv

LEMMA BufferStarts == o = obj_init => ObjInv
<1> SUFFICES ASSUME o = obj_init PROVE ObjInv
  OBVIOUS
<1>1. <<>> \in Tables(BufferRec) /\ <<>> \in Tables(Seq(Byte)) /\ DOMAIN <<>> = {}
  <2>1. {} \in SUBSET Nat /\ \A S : <<>> \in [{} -> S]
    OBVIOUS
  <2> QED BY <2>1 DEF Tables
<1> QED BY <1>1 DEF obj_init, ObjInv, Objs

LEMMA BufferStep == ObjInv /\ [BufferNext]_o => ObjInv'
<1> SUFFICES ASSUME ObjInv, [BufferNext]_o PROVE ObjInv'
  OBVIOUS
<1>0. Capacities \subseteq Nat
  BY LuaIOBufferAssumption
<1>1. ASSUME NEW n \in Capacities, lua_new(n) PROVE ObjInv'
  BY <1>0, <1>1, NewMatches, Creates DEF lua_new
<1>2. ASSUME NEW x \in DOMAIN o.table,
             \/ lua_delete(x) \/ lua_clear(x) \/ lua_align(x)
             \/ \E s \in SeqOf(Bytes, 2) : lua_get_buffer(x, s)
             \/ \E n \in Capacities :
                  lua_resize(x, n) \/ lua_reset(x, n) \/ lua_consume(x, n) \/ lua_produce(x, n) \/ lua_read(x, n)
      PROVE  ObjInv'
  <2> DEFINE b == o.table[x]
             e == o.expected[x]
  <2>0. get_obj(o, x) = b
    BY DEF get_obj
  <2>1. Matches(b, e)
    BY DEF ObjInv
  <2>2. IsBuffer(b) /\ size(b) \in Nat /\ b.capacity \in Nat
    BY <2>1, BufferFields
  <2> HIDE DEF b, e
  <2>3. CASE lua_delete(x)
    BY <2>3, Deletes DEF lua_delete
  <2>4. CASE lua_clear(x)
    BY <2>0, <2>2, <2>4, ClearMatches, Stores DEF lua_clear
  <2>5. CASE lua_align(x)
    BY <2>0, <2>1, <2>5, AlignMatches, Stores DEF lua_align, e
  <2>6. ASSUME NEW s \in SeqOf(Bytes, 2), lua_get_buffer(x, s) PROVE ObjInv'
    <3>1. s \in Seq(Byte)
      <4>1. PICK m \in 0 .. 2 : s \in [1 .. m -> Bytes]
        BY DEF SeqOf
      <4>2. m \in Nat /\ s \in [1 .. m -> Byte]
        BY <4>1 DEF Byte
      <4> QED BY <4>2, SeqDef
    <3>2. Matches(poke(b, s), s \o SubSeq(e, Len(s) + 1, Len(e)))
      BY <2>0, <2>1, <2>6, <3>1, PokeMatches DEF lua_get_buffer
    <3> QED BY <2>0, <2>6, <3>2, Stores DEF lua_get_buffer, e
  <2>7. ASSUME NEW n \in Capacities, lua_resize(x, n) PROVE ObjInv'
    <3> DEFINE r == IF n > b.capacity THEN resize(poke(new_buffer(n), data(b)), n) ELSE resize(b, n)
    <3>1. Matches(r, pad(e, n))
      BY <1>0, <2>1, <2>2, CopyMatches, ResizeMatches
    <3>2. o' = set_lua_obj(o, x, r, pad(e, n))
      BY <2>0, <2>7 DEF lua_resize, e
    <3> HIDE DEF r
    <3> QED BY <3>1, <3>2, Stores
  <2>8. ASSUME NEW n \in Capacities, lua_reset(x, n) PROVE ObjInv'
    <3> DEFINE r == IF n > b.capacity THEN new_buffer(n) ELSE resize(clear(b), n)
    <3>1. Matches(r, junk(n))
      BY <1>0, <2>2, NewMatches, ResetMatches
    <3>2. o' = set_lua_obj(o, x, r, junk(n))
      BY <2>0, <2>8 DEF lua_reset
    <3> HIDE DEF r
    <3> QED BY <3>1, <3>2, Stores
  <2>9. ASSUME NEW n \in Capacities, lua_consume(x, n) PROVE ObjInv'
    <3>1. Matches(consume(b, n), SubSeq(e, n + 1, Len(e)))
      BY <1>0, <2>0, <2>1, <2>9, ConsumeMatches DEF lua_consume
    <3> QED BY <2>0, <2>9, <3>1, Stores DEF lua_consume, e
  <2>10. ASSUME NEW n \in Capacities, lua_produce(x, n) PROVE ObjInv'
    <3>1. Matches(produce(b, n), e \o junk(n))
      BY <1>0, <2>0, <2>1, <2>10, ProduceMatches DEF lua_produce
    <3> QED BY <2>0, <2>10, <3>1, Stores DEF lua_produce, e
  <2>11. ASSUME NEW n \in Capacities, lua_read(x, n) PROVE ObjInv'
    <3> DEFINE k == IF n < size(b) THEN n ELSE size(b)
    <3>1. k \in Nat /\ k <= size(b)
      BY <1>0, <2>2
    <3>2. o' = set_lua_obj(o, x, consume(b, k), SubSeq(e, k + 1, Len(e)))
      BY <2>0, <2>11 DEF lua_read, e
    <3> HIDE DEF k
    <3>3. Matches(consume(b, k), SubSeq(e, k + 1, Len(e)))
      BY <2>1, <3>1, ConsumeMatches
    <3> QED BY <3>2, <3>3, Stores
  <2> QED BY <1>2, <2>3, <2>4, <2>5, <2>6, <2>7, <2>8, <2>9, <2>10, <2>11
<1>3. CASE UNCHANGED o
  BY <1>3 DEF ObjInv
<1> QED BY <1>1, <1>2, <1>3 DEF BufferNext

\* IOBuffer and the iobuffer module: a script finds in a buffer the bytes it put there
\* and has not consumed, in their order and as many as it was told.
THEOREM BytesStay == BufferSpec => []BufferIntact
<1>1. o = obj_init => ObjInv
  BY BufferStarts
<1>2. ObjInv /\ [BufferNext]_o => ObjInv'
  BY BufferStep
<1>3. ObjInv => BufferIntact
  <2> SUFFICES ASSUME ObjInv, NEW x \in DOMAIN o.table
               PROVE  /\ Len(data(o.table[x])) = Len(o.expected[x])
                      /\ \A i \in DOMAIN o.expected[x] :
                            o.expected[x][i] # Junk => data(o.table[x])[i] = o.expected[x][i]
    BY DEF BufferIntact
  <2> DEFINE b == o.table[x]
             e == o.expected[x]
  <2>1. Matches(b, e)
    BY DEF ObjInv
  <2> HIDE DEF b, e
  <2>2. /\ IsBuffer(b) /\ e \in Seq(Byte) /\ Len(e) = b.end - b.begin /\ DOMAIN e = 1 .. Len(e)
        /\ Holds(b.begin, b.bytes, e)
    BY <2>1, BufferFields, LenProperties
  <2>3. Len(data(b)) = b.end - b.begin
    BY <2>2, DataMatches DEF Matches
  <2>4. \A i \in 1 .. Len(e) : data(b)[i] = b.bytes[b.begin + i - 1]
    BY <2>2 DEF data, size
  <2> QED BY <2>2, <2>3, <2>4 DEF Holds, b, e
<1> QED BY <1>1, <1>2, <1>3, PTL DEF BufferSpec

-----------------------------------------------------------------------------
(* Remainders.                                                             *)

\* The remainder is what is left of some multiple.
LEMMA RemainderIs ==
    ASSUME NEW s \in Nat, s > 0, NEW a \in Int, NEW v \in Int, NEW r \in 0 .. s - 1, a = s * v + r
    PROVE  a % s = r
OBVIOUS

LEMMA RemainderHas ==
    ASSUME NEW s \in Nat, s > 0, NEW a \in Int
    PROVE  \E v \in Int : \E r \in 0 .. s - 1 : a = s * v + r /\ a % s = r
<1>1. (a % s) \in 0 .. s - 1 /\ a = s * (a \div s) + (a % s) /\ a \div s \in Int
  OBVIOUS
<1> QED BY <1>1

\* The remainder after a step of at most the divisor, forward and back.
LEMMA RemainderAdd ==
    ASSUME NEW s \in Nat, s > 0, NEW x \in Int, NEW d \in 0 .. s
    PROVE  (x + d) % s = IF (x % s) + d < s THEN (x % s) + d ELSE (x % s) + d - s
<1>1. PICK v \in Int : \E r \in 0 .. s - 1 : x = s * v + r /\ x % s = r
  BY RemainderHas
<1>2. PICK r \in 0 .. s - 1 : x = s * v + r /\ x % s = r
  BY <1>1
<1>3. CASE r + d < s
  <2>1. x + d = s * v + (r + d) /\ r + d \in 0 .. s - 1 /\ x + d \in Int
    BY <1>2, <1>3
  <2>2. (x + d) % s = r + d
    BY <2>1, RemainderIs
  <2> QED BY <2>2, <1>2, <1>3
<1>4. CASE ~(r + d < s)
  <2>1. x + d = s * (v + 1) + (r + d - s) /\ r + d - s \in 0 .. s - 1 /\ v + 1 \in Int /\ x + d \in Int
    BY <1>2, <1>4
  <2>2. (x + d) % s = r + d - s
    BY <2>1, RemainderIs
  <2> QED BY <2>2, <1>2, <1>4
<1> QED BY <1>3, <1>4

LEMMA RemainderBack ==
    ASSUME NEW s \in Nat, s > 0, NEW x \in Int, NEW i \in 0 .. s - 1
    PROVE  (i - x) % s = IF i >= x % s THEN i - (x % s) ELSE i - (x % s) + s
<1>1. PICK v \in Int : \E r \in 0 .. s - 1 : x = s * v + r /\ x % s = r
  BY RemainderHas
<1>2. PICK r \in 0 .. s - 1 : x = s * v + r /\ x % s = r
  BY <1>1
<1>3. CASE i >= r
  <2>1. i - x = s * (0 - v) + (i - r) /\ i - r \in 0 .. s - 1 /\ 0 - v \in Int /\ i - x \in Int
    BY <1>2, <1>3
  <2>2. (i - x) % s = i - r
    BY <2>1, RemainderIs
  <2> QED BY <2>2, <1>2, <1>3
<1>4. CASE ~(i >= r)
  <2>1. i - x = s * (0 - v - 1) + (i - r + s) /\ i - r + s \in 0 .. s - 1 /\ 0 - v - 1 \in Int /\ i - x \in Int
    BY <1>2, <1>4
  <2>2. (i - x) % s = i - r + s
    BY <2>1, RemainderIs
  <2> QED BY <2>2, <1>2, <1>4
<1> QED BY <1>3, <1>4

\* A multiple of the divisor makes no difference.
LEMMA RemainderSub ==
    ASSUME NEW s \in Nat, s > 0, NEW w \in Nat, w % s = 0, NEW x \in Int
    PROVE  (x - w) % s = x % s
<1>1. PICK v \in Int : \E r \in 0 .. s - 1 : x = s * v + r /\ x % s = r
  BY RemainderHas
<1>2. PICK r \in 0 .. s - 1 : x = s * v + r /\ x % s = r
  BY <1>1
<1>3. w \in Int
  OBVIOUS
<1>4. PICK k \in Int : \E t \in 0 .. s - 1 : w = s * k + t /\ w % s = t
  BY <1>3, RemainderHas
<1>5. w = s * k
  BY <1>4
<1>6. x - w = s * (v - k) + r /\ v - k \in Int /\ x - w \in Int
  BY <1>2, <1>5
<1>7. (x - w) % s = r
  BY <1>6, RemainderIs
<1> QED BY <1>2, <1>7

\* Near the divisor.
LEMMA RemainderNear ==
    ASSUME NEW s \in Nat, s > 0, NEW a \in Int
    PROVE  /\ 0 <= a /\ a < s => a % s = a
           /\ s <= a /\ a < s + s => a % s = a - s
           /\ 0 - s <= a /\ a < 0 => a % s = a + s
<1>1. 0 <= a /\ a < s => a = s * 0 + a /\ a \in 0 .. s - 1
  OBVIOUS
<1>2. s <= a /\ a < s + s => a = s * 1 + (a - s) /\ a - s \in 0 .. s - 1
  OBVIOUS
<1>3. 0 - s <= a /\ a < 0 => a = s * (0 - 1) + (a + s) /\ a + s \in 0 .. s - 1 /\ 0 - 1 \in Int
  OBVIOUS
<1> QED BY <1>1, <1>2, <1>3, RemainderIs

-----------------------------------------------------------------------------
(* The counters of the ring.                                               *)

slot(n, u, i) == IF u + i - 1 < n THEN u + i - 1 ELSE u + i - 1 - n

LEMMA SizeKnown ==
    ASSUME NEW n \in Sizes
    PROVE  n \in Nat /\ n > 0 /\ n < Width /\ Width % n = 0 /\ Width \in Nat /\ Width > 0
BY VideoCacheAssumption

LEMMA Advance ==
    ASSUME NEW n \in Sizes, NEW x \in 0 .. Width - 1, NEW k \in 0 .. n
    PROVE  /\ (x + k) % Width \in 0 .. Width - 1
           /\ (x + k) % Width = IF x + k < Width THEN x + k ELSE x + k - Width
           /\ x % n \in 0 .. n - 1
           /\ ((x + k) % Width) % n = slot(n, x % n, k + 1)
<1>1. n \in Nat /\ n > 0 /\ n < Width /\ Width % n = 0 /\ Width \in Nat /\ Width > 0 /\ x \in Int /\ x + k \in Int
  BY SizeKnown
<1>2. (x + k) % Width = IF x + k < Width THEN x + k ELSE x + k - Width
  BY <1>1, RemainderNear
<1>3. x % n \in 0 .. n - 1
  BY <1>1
<1>4. (x + k) % n = IF (x % n) + k < n THEN (x % n) + k ELSE (x % n) + k - n
  BY <1>1, RemainderAdd
<1>5. \A y \in Int : (y - Width) % n = y % n
  BY <1>1, RemainderSub
<1>6. ((x + k) % Width) % n = (x + k) % n
  BY <1>1, <1>2, <1>5
<1>7. slot(n, x % n, k + 1) = IF (x % n) + k < n THEN (x % n) + k ELSE (x % n) + k - n
  BY <1>1, <1>3 DEF slot
<1>8. (x + k) % Width \in 0 .. Width - 1
  BY <1>1, <1>2
<1> QED BY <1>2, <1>3, <1>4, <1>6, <1>7, <1>8

LEMMA Distance ==
    ASSUME NEW x \in 0 .. Width - 1, NEW t \in 0 .. Width - 1, Width \in Nat
    PROVE  /\ (t - x) % Width = IF t >= x THEN t - x ELSE t - x + Width
           /\ (t - x) % Width \in 0 .. Width - 1
<1>1. t - x \in Int /\ Width > 0
  OBVIOUS
<1> QED BY <1>1, RemainderNear

\* What lies between two counters when one of them moves.
LEMMA CountersMoved ==
    ASSUME NEW n \in Sizes, NEW x \in 0 .. Width - 1, NEW t \in 0 .. Width - 1, NEW d, d = (t - x) % Width,
           d <= n
    PROVE  /\ d \in 0 .. n
           /\ t % n = slot(n, x % n, d + 1)
           /\ \A k \in 0 .. d : (t - ((x + k) % Width)) % Width = d - k
           /\ \A k \in 0 .. n - d : (((t + k) % Width) - x) % Width = d + k
<1>1. n \in Nat /\ n > 0 /\ n < Width /\ Width \in Nat /\ Width > 0
  BY SizeKnown
<1>2. d = (IF t >= x THEN t - x ELSE t - x + Width) /\ d \in 0 .. Width - 1
  BY <1>1, Distance
<1>3. d \in 0 .. n
  BY <1>1, <1>2
<1>4. (x + d) % Width = IF x + d < Width THEN x + d ELSE x + d - Width
  BY <1>3, Advance
<1>5. (x + d) % Width = t
  BY <1>1, <1>2, <1>4
<1>6. t % n = slot(n, x % n, d + 1)
  BY <1>3, <1>5, Advance
<1>7. ASSUME NEW k \in 0 .. d PROVE (t - ((x + k) % Width)) % Width = d - k
  <2>1. k \in 0 .. n
    BY <1>1, <1>3
  <2>2. (x + k) % Width = (IF x + k < Width THEN x + k ELSE x + k - Width) /\ (x + k) % Width \in 0 .. Width - 1
    BY <2>1, Advance
  <2> DEFINE y == (x + k) % Width
  <2> HIDE DEF y
  <2>3. (t - y) % Width = IF t >= y THEN t - y ELSE t - y + Width
    BY <1>1, <2>2, Distance DEF y
  <2> QED BY <1>1, <1>2, <1>3, <2>2, <2>3 DEF y
<1>8. ASSUME NEW k \in 0 .. n - d PROVE (((t + k) % Width) - x) % Width = d + k
  <2>1. k \in 0 .. n
    BY <1>1, <1>3
  <2>2. (t + k) % Width = (IF t + k < Width THEN t + k ELSE t + k - Width) /\ (t + k) % Width \in 0 .. Width - 1
    BY <2>1, Advance
  <2> DEFINE y == (t + k) % Width
  <2> HIDE DEF y
  <2>3. (y - x) % Width = IF y >= x THEN y - x ELSE y - x + Width
    BY <1>1, <2>2, Distance DEF y
  <2> QED BY <1>1, <1>2, <1>3, <2>2, <2>3 DEF y
<1> QED BY <1>3, <1>6, <1>7, <1>8

-----------------------------------------------------------------------------
(* The ring.                                                               *)

Rings == UNION {[0 .. n - 1 -> Int] : n \in Sizes}
Promised ==
    [kind : {"read", "until", "scanf"}, co : Coroutines, len : Nat, cond : Conds, old : BOOLEAN]
CacheRec ==
    [buffer : Rings, size : Sizes, use : 0 .. Width - 1, tail : 0 .. Width - 1,
     promise : Promised \cup {NoPromise}, co : [Coroutines -> {"run", "yield"}],
     fifo : Seq(Int), next : Int, misread : BOOLEAN, late : BOOLEAN]

\* The bytes between the counters of a ring of n bytes are those of f.
Lies(n, u, y, f) == \A i \in 1 .. Len(f) : y[slot(n, u, i)] = f[i]

\* The ring holds the bytes that were written and not read, and no reader has
\* found others.
RingOK(s) ==
    /\ s \in CacheRec /\ s.buffer \in [0 .. s.size - 1 -> Int]
    /\ Len(s.fifo) = GetDataSize(s) /\ Len(s.fifo) <= s.size
    /\ Lies(s.size, s.use % s.size, s.buffer, s.fifo)
    /\ ~s.misread

\* What only moves bytes.
Aside(s, t) == t.promise = s.promise /\ t.co = s.co /\ t.late = s.late

LEMMA RingKnown ==
    ASSUME NEW s, RingOK(s)
    PROVE  LET n == s.size
               u == s.use % n
               d == Len(s.fifo)
           IN /\ s \in CacheRec /\ n \in Sizes /\ n \in Nat /\ n > 0 /\ n < Width /\ Width \in Nat
              /\ s.use \in 0 .. Width - 1 /\ s.tail \in 0 .. Width - 1
              /\ u \in 0 .. n - 1 /\ d \in 0 .. n /\ GetDataSize(s) = d
              /\ s.tail % n = slot(n, u, d + 1)
              /\ s.buffer \in [0 .. n - 1 -> Int] /\ s.fifo \in Seq(Int)
              /\ Lies(n, u, s.buffer, s.fifo)
              /\ \A k \in 0 .. d : (s.tail - ((s.use + k) % Width)) % Width = d - k
              /\ \A k \in 0 .. n - d : (((s.tail + k) % Width) - s.use) % Width = d + k
<1>1. s \in CacheRec /\ s.size \in Sizes /\ s.use \in 0 .. Width - 1 /\ s.tail \in 0 .. Width - 1 /\ s.fifo \in Seq(Int)
  BY DEF RingOK, CacheRec
<1>2. s.size \in Nat /\ s.size > 0 /\ s.size < Width /\ Width \in Nat
  BY <1>1, SizeKnown
<1>3. Len(s.fifo) = (s.tail - s.use) % Width /\ Len(s.fifo) <= s.size
  BY DEF RingOK, GetDataSize
<1> DEFINE n == s.size
           x == s.use
           t == s.tail
           d == Len(s.fifo)
<1>4. n \in Sizes /\ x \in 0 .. Width - 1 /\ t \in 0 .. Width - 1 /\ d = (t - x) % Width /\ d <= n
  BY <1>1, <1>3
<1>5. /\ s.buffer \in [0 .. n - 1 -> Int] /\ Lies(n, x % n, s.buffer, s.fifo) /\ GetDataSize(s) = d
  BY DEF RingOK
<1> HIDE DEF n, x, t, d
<1>6. /\ d \in 0 .. n /\ t % n = slot(n, x % n, d + 1)
      /\ \A k \in 0 .. d : (t - ((x + k) % Width)) % Width = d - k
      /\ \A k \in 0 .. n - d : (((t + k) % Width) - x) % Width = d + k
  BY <1>4, CountersMoved
<1>7. x % n \in 0 .. n - 1
  BY <1>2, <1>4 DEF n
<1> QED BY <1>1, <1>2, <1>5, <1>6, <1>7 DEF n, x, t, d

\* The new counters, bytes and contents of a ring.
Ring(s, x, t, y, f) ==
    /\ s \in CacheRec /\ s.use = x /\ s.tail = t /\ s.buffer = y /\ s.fifo = f /\ ~s.misread

LEMMA RingMade ==
    ASSUME NEW n \in Sizes, NEW x \in 0 .. Width - 1, NEW t \in 0 .. Width - 1, NEW y \in [0 .. n - 1 -> Int],
           NEW f \in Seq(Int), Len(f) <= n, Len(f) = (t - x) % Width, Lies(n, x % n, y, f),
           NEW s, Ring(s, x, t, y, f), s.size = n
    PROVE  RingOK(s)
BY DEF RingOK, Ring, GetDataSize

LEMMA Slots ==
    ASSUME NEW n \in Nat, NEW u \in 0 .. n - 1, NEW i \in 1 .. n
    PROVE  /\ slot(n, u, i) \in 0 .. n - 1
           /\ \A j \in 1 .. n : slot(n, u, i) = slot(n, u, j) => i = j
BY DEF slot

\* WriteData.
LEMMA WritesData ==
    ASSUME NEW s, RingOK(s), NEW len \in Nat
    PROVE  RingOK(WriteData(s, len)) /\ Aside(s, WriteData(s, len))
<1> DEFINE n == s.size
           u == s.use % n
           t == s.tail % n
           d == Len(s.fifo)
           y == s.buffer
           k == GetSpaceSize(s, len)
           new == numbers(s, k)
           l == IF u > t THEN k ELSE least(k, n - t)
           z == [i \in DOMAIN y |-> CASE i - t \in 0 .. l - 1 -> new[i - t + 1]
                                       [] i \in 0 .. k - l - 1 -> new[l + i + 1]
                                       [] OTHER -> y[i]]
           f == s.fifo \o new
           w == WriteData(s, len)
<1>1. /\ s \in CacheRec /\ n \in Sizes /\ n \in Nat /\ n > 0 /\ n < Width /\ Width \in Nat
      /\ s.use \in 0 .. Width - 1 /\ s.tail \in 0 .. Width - 1
      /\ u \in 0 .. n - 1 /\ d \in 0 .. n /\ GetDataSize(s) = d
      /\ t = slot(n, u, d + 1)
      /\ y \in [0 .. n - 1 -> Int] /\ s.fifo \in Seq(Int)
      /\ Lies(n, u, y, s.fifo)
      /\ \A j \in 0 .. n - d : (((s.tail + j) % Width) - s.use) % Width = d + j
  BY RingKnown
<1>2. k \in 0 .. n - d
  <2>1. (n - d) % Width = n - d
    <3>1. n \in Nat /\ n < Width /\ Width \in Nat /\ d \in 0 .. n
      BY <1>1
    <3> HIDE DEF n, d
    <3>2. n - d \in Int /\ 0 <= n - d /\ n - d < Width /\ Width > 0
      BY <3>1
    <3> QED BY <3>1, <3>2, RemainderNear
  <2>2. k = IF len < n - d THEN len ELSE n - d
    BY <1>1, <2>1 DEF GetSpaceSize, least
  <2> HIDE DEF k, n, d
  <2> QED BY <1>1, <2>2
<1>3. new \in Seq(Int) /\ Len(new) = k
  <2>1. k \in Nat
    BY <1>1, <1>2
  <2>2. s.next \in Int /\ Numbers \in Nat /\ Numbers > 0
    BY <1>1, VideoCacheAssumption DEF CacheRec
  <2>3. \A i \in 1 .. k : ((s.next + i - 2) % Numbers) + 1 \in Int
    BY <2>1, <2>2
  <2> HIDE DEF k
  <2>4. new \in [1 .. k -> Int]
    BY <2>3 DEF numbers
  <2>5. new \in Seq(Int)
    BY <2>1, <2>4, SeqDef
  <2> QED BY <2>1, <2>4, <2>5, LenProperties
<1>4. w = [s EXCEPT !.tail = (@ + k) % Width, !.next = ((@ + k - 1) % Numbers) + 1, !.fifo = f, !.buffer = z]
  BY DEF WriteData
<1>5. f \in Seq(Int) /\ Len(f) = d + k /\ \A i \in 1 .. d + k : f[i] = IF i <= d THEN s.fifo[i] ELSE new[i - d]
  <2>1. k \in Nat /\ d \in Nat
    BY <1>1, <1>2
  <2> HIDE DEF new
  <2>2. /\ f \in Seq(Int) /\ Len(f) = d + Len(new)
        /\ \A i \in 1 .. d + Len(new) : f[i] = IF i <= d THEN s.fifo[i] ELSE new[i - d]
    BY <1>1, <1>3, ConcatProperties
  <2> QED BY <1>3, <2>2
<1> HIDE DEF w, f, new, k, d, t, u, n
<1>6. /\ l \in Int /\ DOMAIN y = 0 .. n - 1 /\ t \in 0 .. n - 1
      /\ \/ u > t /\ l = k
         \/ ~(u > t) /\ k <= n - t /\ l = k
         \/ ~(u > t) /\ k > n - t /\ l = n - t
  <2>1. n \in Nat /\ n > 0 /\ u \in 0 .. n - 1 /\ d \in 0 .. n /\ k \in 0 .. n - d /\ t = slot(n, u, d + 1)
    BY <1>1, <1>2
  <2>2. t \in 0 .. n - 1
    BY <2>1 DEF slot
  <2>3. \/ u > t /\ l = k
        \/ ~(u > t) /\ k <= n - t /\ l = k
        \/ ~(u > t) /\ k > n - t /\ l = n - t
    BY <2>1, <2>2 DEF least
  <2>4. DOMAIN y = 0 .. n - 1
    BY <1>1
  <2> HIDE DEF l
  <2>5. k \in Int /\ t \in Int
    BY <2>1, <2>2
  <2>6. l \in Int
    BY <2>1, <2>3, <2>5
  <2> QED BY <2>2, <2>3, <2>4, <2>6
<1>16. /\ n \in Nat /\ n > 0 /\ u \in 0 .. n - 1 /\ d \in 0 .. n /\ k \in 0 .. n - d /\ t = slot(n, u, d + 1)
       /\ t \in 0 .. n - 1 /\ l \in Int
       /\ \/ u > t /\ l = k
          \/ ~(u > t) /\ k <= n - t /\ l = k
          \/ ~(u > t) /\ k > n - t /\ l = n - t
  BY <1>1, <1>2, <1>6
<1>7. \A j \in 1 .. k : z[slot(n, u, d + j)] = new[j]
  <2> SUFFICES ASSUME NEW j \in 1 .. k PROVE z[slot(n, u, d + j)] = new[j]
    OBVIOUS
  <2> DEFINE p == slot(n, u, d + j)
  <2>0. p \in 0 .. n - 1 /\ k \in Nat /\ k <= n - d
    BY <1>16 DEF slot
  <2>1. CASE j <= l
    <3>1. p - t \in 0 .. l - 1 /\ p - t + 1 = j
      <4> HIDE DEF l
      <4> QED BY <1>16, <2>1 DEF slot
    <3>2. ~(p \in 0 .. k - l - 1)
      <4> HIDE DEF l
      <4> QED BY <1>16, <2>1 DEF slot
    <3> HIDE DEF p
    <3> QED BY <1>6, <2>0, <3>1, <3>2 DEF p
  <2>2. CASE j > l
    <3>1. p = j - l - 1
      <4> HIDE DEF l
      <4> QED BY <1>16, <2>2 DEF slot
    <3> HIDE DEF p, l
    <3>2. p \in 0 .. k - l - 1 /\ l + p + 1 = j
      BY <1>16, <2>0, <2>2, <3>1
    <3>3. ~(p - t \in 0 .. l - 1)
      BY <1>16, <2>0, <2>2, <3>1
    <3> QED BY <1>6, <2>0, <3>2, <3>3 DEF p, l
  <2> QED BY <1>16, <2>1, <2>2
<1>8. \A i \in 1 .. d : z[slot(n, u, i)] = y[slot(n, u, i)]
  <2> SUFFICES ASSUME NEW i \in 1 .. d PROVE z[slot(n, u, i)] = y[slot(n, u, i)]
    OBVIOUS
  <2>1. slot(n, u, i) \in 0 .. n - 1
    BY <1>16 DEF slot
  <2>2. ~(slot(n, u, i) - t \in 0 .. l - 1)
    <3> HIDE DEF l
    <3> QED BY <1>16 DEF slot
  <2>3. ~(slot(n, u, i) \in 0 .. k - l - 1)
    <3> HIDE DEF l
    <3> QED BY <1>16 DEF slot
  <2> QED BY <1>6, <2>1, <2>2, <2>3
<1>9. z \in [0 .. n - 1 -> Int]
  <2>1. k \in Nat /\ \A j \in 1 .. k : new[j] \in Int
    BY <1>1, <1>2, <1>3, ElementOfSeq
  <2>2. l \in 0 .. k
    <3>1. k \in Nat /\ n \in Int /\ t \in 0 .. n - 1
      BY <1>1, <1>6, <2>1
    <3> HIDE DEF l
    <3> QED BY <1>6, <3>1
  <2> SUFFICES ASSUME NEW i \in 0 .. n - 1 PROVE z[i] \in Int
    BY <1>6
  <2>3. i - t \in 0 .. l - 1 => i - t + 1 \in 1 .. k
    BY <1>6, <2>1, <2>2
  <2>4. i \in 0 .. k - l - 1 => l + i + 1 \in 1 .. k
    BY <1>6, <2>1, <2>2
  <2>5. CASE i - t \in 0 .. l - 1 /\ i \in 0 .. k - l - 1
    <3>1. FALSE
      BY <1>1, <1>2, <2>5 DEF slot, least
    <3> QED BY <3>1
  <2>6. CASE ~(i - t \in 0 .. l - 1 /\ i \in 0 .. k - l - 1)
    BY <1>1, <1>6, <2>1, <2>3, <2>4, <2>6
  <2> QED BY <2>5, <2>6
<1> HIDE DEF z, y, l
<1>10. Lies(n, u, z, f)
  <2> SUFFICES ASSUME NEW i \in 1 .. d + k PROVE z[slot(n, u, i)] = f[i]
    BY <1>5 DEF Lies
  <2>0. d \in Nat /\ k \in Nat
    BY <1>1, <1>2
  <2>1. CASE i <= d
    <3>1. i \in 1 .. d
      BY <2>0, <2>1
    <3>2. y[slot(n, u, i)] = s.fifo[i]
      BY <1>1, <3>1 DEF Lies, d
    <3>3. z[slot(n, u, i)] = y[slot(n, u, i)]
      BY <1>8, <3>1
    <3>4. f[i] = s.fifo[i]
      BY <1>5, <2>1
    <3> QED BY <3>2, <3>3, <3>4
  <2>2. CASE i > d
    <3>1. i - d \in 1 .. k /\ d + (i - d) = i
      BY <2>0, <2>2
    <3>2. z[slot(n, u, d + (i - d))] = new[i - d]
      BY <1>7, <3>1
    <3>3. f[i] = new[i - d]
      BY <1>5, <2>2, <2>0
    <3> QED BY <3>1, <3>2, <3>3
  <2> QED BY <2>0, <2>1, <2>2
<1> DEFINE t2 == (s.tail + k) % Width
<1>11. t2 \in 0 .. Width - 1 /\ (t2 - s.use) % Width = d + k
  <2>1. k \in 0 .. n
    BY <1>1, <1>2
  <2> QED BY <1>1, <1>2, <2>1, Advance
<1>12. ((s.next + k - 1) % Numbers) + 1 \in Int /\ z \in Rings
  <2>1. s.next \in Int /\ Numbers \in Nat /\ Numbers > 0 /\ k \in Int
    BY <1>1, <1>2, VideoCacheAssumption DEF CacheRec
  <2>2. ((s.next + k - 1) % Numbers) + 1 \in Int
    BY <2>1
  <2>3. z \in Rings
    BY <1>1, <1>9 DEF Rings
  <2> QED BY <2>2, <2>3
<1> HIDE DEF t2
<1>13. Ring(w, s.use, t2, z, f) /\ w.size = s.size /\ Aside(s, w)
  <2> DEFINE m == ((s.next + k - 1) % Numbers) + 1
  <2>1. w = [s EXCEPT !.tail = t2, !.next = m, !.fifo = f, !.buffer = z] /\ m \in Int
    BY <1>4, <1>12 DEF t2
  <2> HIDE DEF m
  <2>2. ~s.misread
    BY DEF RingOK
  <2> QED BY <1>1, <1>5, <1>11, <1>12, <2>1, <2>2 DEF Ring, Aside, CacheRec
<1>14. Len(f) <= n
  BY <1>1, <1>2, <1>5
<1>15. RingOK(w)
  BY <1>1, <1>5, <1>9, <1>10, <1>11, <1>13, <1>14, RingMade DEF n, u
<1> QED BY <1>13, <1>15 DEF w

-----------------------------------------------------------------------------
(* Reading.                                                                *)

\* Where the unread bytes are looked for is where they lie, except those of a
\* full ring that are looked for behind its end.
LEMMA Looks ==
    ASSUME NEW s, RingOK(s), NEW i \in 1 .. Len(s.fifo)
    PROVE  /\ at(s, i) \in Nat
           /\ at(s, i) < s.size => at(s, i) = slot(s.size, s.use % s.size, i)
           /\ GetDataSize(s) < s.size => at(s, i) < s.size
<1> DEFINE n == s.size
           u == s.use % n
           t == s.tail % n
           d == Len(s.fifo)
<1>1. n \in Nat /\ n > 0 /\ u \in 0 .. n - 1 /\ d \in 0 .. n /\ GetDataSize(s) = d /\ t = slot(n, u, d + 1)
  BY RingKnown
<1>2. at(s, i) = IF u > t /\ u + i > n THEN i - 1 - (n - u) ELSE u + i - 1
  BY DEF at
<1>3. i \in 1 .. d
  OBVIOUS
<1> HIDE DEF n, u, t, d
<1>4. /\ at(s, i) \in Nat
      /\ at(s, i) < n => at(s, i) = slot(n, u, i)
      /\ d < n => at(s, i) < n
  BY <1>1, <1>2, <1>3 DEF slot
<1> QED BY <1>1, <1>4 DEF n, u

\* What a read copies: the oldest bytes, if the ring was not full.
LEMMA Copies ==
    ASSUME NEW s, RingOK(s), NEW len \in Nat
    PROVE  /\ copied(s, len) \in Seq(Int) /\ Len(copied(s, len)) \in 0 .. Len(s.fifo)
           /\ Len(copied(s, len)) = least(len, Len(s.fifo))
           /\ GetDataSize(s) < s.size => copied(s, len) = SubSeq(s.fifo, 1, Len(copied(s, len)))
<1> DEFINE n == s.size
           u == s.use % n
           d == Len(s.fifo)
           k == least(len, d)
           g == copied(s, len)
<1>1. /\ n \in Nat /\ n > 0 /\ u \in 0 .. n - 1 /\ d \in 0 .. n /\ GetDataSize(s) = d
      /\ s.buffer \in [0 .. n - 1 -> Int] /\ s.fifo \in Seq(Int) /\ Lies(n, u, s.buffer, s.fifo)
  BY RingKnown
<1>2. k \in 0 .. d /\ d \in Nat /\ k \in Nat
  BY <1>1 DEF least
<1>3. g = [i \in 1 .. k |-> IF at(s, i) < n THEN s.buffer[at(s, i)] ELSE Outside]
  BY <1>1 DEF copied
<1>4. \A i \in 1 .. d : /\ at(s, i) \in Nat /\ (at(s, i) < n => at(s, i) = slot(n, u, i))
                        /\ (d < n => at(s, i) < n)
  BY <1>1, Looks
<1>5. 1 .. k \subseteq 1 .. d
  BY <1>2
<1> HIDE DEF k, d, u, n, g
<1>6. g \in [1 .. k -> Int]
  BY <1>1, <1>3, <1>4, <1>5 DEF Outside
<1>7. g \in Seq(Int) /\ Len(g) = k
  BY <1>2, <1>6, SeqDef, LenProperties
<1>8. ASSUME d < n PROVE g = SubSeq(s.fifo, 1, k)
  <2>1. \A i \in 1 .. d : s.fifo[i] \in Int
    BY <1>1, ElementOfSeq DEF d
  <2>2. /\ SubSeq(s.fifo, 1, k) \in Seq(Int) /\ Len(SubSeq(s.fifo, 1, k)) = k
        /\ \A i \in 1 .. k : SubSeq(s.fifo, 1, k)[i] = s.fifo[i]
    BY <1>2, <1>5, <2>1, SubSeqProperties
  <2>3. ASSUME NEW i \in 1 .. k PROVE g[i] = s.fifo[i]
    <3>1. i \in 1 .. d
      BY <1>5
    <3>2. g[i] = s.buffer[slot(n, u, i)]
      BY <1>3, <1>4, <1>8, <3>1
    <3> QED BY <1>1, <3>1, <3>2 DEF Lies, d
  <2> QED BY <1>7, <2>2, <2>3, SeqEqual
<1> QED BY <1>1, <1>2, <1>7, <1>8 DEF g, k, d, n

\* What is left of a queue.
LEMMA LeftOf ==
    ASSUME NEW f \in Seq(Int), NEW k \in 0 .. Len(f)
    PROVE  /\ SubSeq(f, k + 1, Len(f)) \in Seq(Int) /\ Len(SubSeq(f, k + 1, Len(f))) = Len(f) - k
           /\ \A i \in 1 .. Len(f) - k : SubSeq(f, k + 1, Len(f))[i] = f[k + i]
<1>1. Len(f) \in Nat /\ \A i \in 1 .. Len(f) : f[i] \in Int
  BY LenProperties, ElementOfSeq
<1> DEFINE d == Len(f)
<1>2. d \in Nat /\ k \in 0 .. d /\ \A i \in k + 1 .. d : f[i] \in Int
  BY <1>1
<1> HIDE DEF d
<1>3. /\ SubSeq(f, k + 1, d) \in Seq(Int)
      /\ Len(SubSeq(f, k + 1, d)) = (IF k + 1 <= d THEN d - (k + 1) + 1 ELSE 0)
      /\ \A i \in 1 .. d - (k + 1) + 1 : SubSeq(f, k + 1, d)[i] = f[k + 1 + i - 1]
  BY <1>2, SubSeqProperties
<1>4. Len(SubSeq(f, k + 1, d)) = d - k
  BY <1>2, <1>3
<1>5. \A i \in 1 .. d - k : i \in 1 .. d - (k + 1) + 1 /\ k + 1 + i - 1 = k + i
  BY <1>2
<1> QED BY <1>3, <1>4, <1>5 DEF d

\* Taking k bytes from the front, whatever is put where they were.
LEMMA Takes ==
    ASSUME NEW s, RingOK(s), NEW k \in 0 .. Len(s.fifo), NEW y \in [0 .. s.size - 1 -> Int],
           \A i \in k + 1 .. Len(s.fifo) : y[slot(s.size, s.use % s.size, i)] = s.buffer[slot(s.size, s.use % s.size, i)],
           NEW w, Ring(w, (s.use + k) % Width, s.tail, y, SubSeq(s.fifo, k + 1, Len(s.fifo))), w.size = s.size
    PROVE  RingOK(w)
<1> DEFINE n == s.size
           u == s.use % n
           d == Len(s.fifo)
           x == (s.use + k) % Width
           f == SubSeq(s.fifo, k + 1, d)
<1>1. /\ n \in Sizes /\ n \in Nat /\ n > 0 /\ u \in 0 .. n - 1 /\ d \in 0 .. n /\ s.fifo \in Seq(Int)
      /\ s.use \in 0 .. Width - 1 /\ s.tail \in 0 .. Width - 1 /\ Lies(n, u, s.buffer, s.fifo)
      /\ \A j \in 0 .. d : (s.tail - ((s.use + j) % Width)) % Width = d - j
  BY RingKnown
<1>2. k \in 0 .. d /\ d \in Nat /\ k \in 0 .. n
  BY <1>1
<1>3. f \in Seq(Int) /\ Len(f) = d - k /\ \A i \in 1 .. d - k : f[i] = s.fifo[k + i]
  BY <1>1, <1>2, LeftOf
<1>4. x \in 0 .. Width - 1 /\ x % n = slot(n, u, k + 1)
  BY <1>1, <1>2, Advance
<1>5. (s.tail - x) % Width = d - k
  BY <1>1, <1>2
<1>6. \A i \in 1 .. d : s.buffer[slot(n, u, i)] = s.fifo[i]
  BY <1>1 DEF Lies
<1>7. \A i \in k + 1 .. d : y[slot(n, u, i)] = s.buffer[slot(n, u, i)]
  OBVIOUS
<1>8. Ring(w, x, s.tail, y, f) /\ w.size = n /\ y \in [0 .. n - 1 -> Int]
  OBVIOUS
<1> HIDE DEF n, u, d, x, f
<1>9. ASSUME NEW i \in 1 .. d - k PROVE y[slot(n, x % n, i)] = f[i]
  <2>1. k + i \in k + 1 .. d /\ k + i \in 1 .. d
    BY <1>2
  <2>2. slot(n, x % n, i) = slot(n, u, k + i)
    <3>1. /\ n \in Nat /\ u \in 0 .. n - 1 /\ k \in Nat /\ k <= n /\ d \in Nat /\ d <= n /\ i \in 1 .. d - k
          /\ x % n = slot(n, u, k + 1)
      BY <1>1, <1>2, <1>4
    <3> QED BY <3>1 DEF slot
  <2>3. y[slot(n, u, k + i)] = s.fifo[k + i]
    BY <1>6, <1>7, <2>1
  <2> QED BY <1>3, <2>2, <2>3
<1>10. Lies(n, x % n, y, f)
  BY <1>3, <1>9 DEF Lies
<1>11. Len(f) <= n
  BY <1>1, <1>2, <1>3
<1> QED BY <1>1, <1>3, <1>4, <1>5, <1>8, <1>10, <1>11, RingMade

LEMMA ReadsData ==
    ASSUME NEW s, RingOK(s), NEW len \in Nat
    PROVE  RingOK(ReadData(s, len)) /\ Aside(s, ReadData(s, len)) /\ ReadData(s, len).size = s.size
<1> DEFINE n == s.size
           u == s.use % n
           d == Len(s.fifo)
           k == Len(copied(s, len))
           y == [i \in DOMAIN s.buffer |-> IF \E j \in 1 .. k : at(s, j) = i THEN Junk ELSE s.buffer[i]]
           f == SubSeq(s.fifo, k + 1, d)
           x == (s.use + k) % Width
           m == s.misread \/ (GetDataSize(s) < s.size /\ copied(s, len) # SubSeq(s.fifo, 1, k))
           w == ReadData(s, len)
<1>1. /\ s \in CacheRec /\ n \in Sizes /\ n \in Nat /\ n > 0 /\ u \in 0 .. n - 1 /\ d \in 0 .. n
      /\ s.fifo \in Seq(Int) /\ s.use \in 0 .. Width - 1 /\ s.tail \in 0 .. Width - 1
      /\ s.buffer \in [0 .. n - 1 -> Int]
  BY RingKnown
<1>2. k \in 0 .. d /\ k \in 0 .. n /\ ~m /\ m \in BOOLEAN
  <2>1. k \in 0 .. d /\ ~m
    BY <1>1, Copies DEF RingOK
  <2>2. m \in BOOLEAN
    BY <1>1 DEF CacheRec
  <2> HIDE DEF k, d, n, m
  <2> QED BY <1>1, <2>1, <2>2
<1>3. w = [s EXCEPT !.use = x, !.fifo = f, !.misread = m, !.buffer = y]
  BY DEF ReadData
<1>4. y \in [0 .. n - 1 -> Int]
  BY <1>1 DEF Junk
<1>5. \A i \in k + 1 .. d : y[slot(n, u, i)] = s.buffer[slot(n, u, i)]
  <2> SUFFICES ASSUME NEW i \in k + 1 .. d PROVE y[slot(n, u, i)] = s.buffer[slot(n, u, i)]
    OBVIOUS
  <2>1. i \in 1 .. n /\ \A j \in 1 .. k : j \in 1 .. n /\ j \in 1 .. d /\ j # i
    <3>1. n \in Nat /\ d \in 0 .. n /\ k \in 0 .. d /\ i \in k + 1 .. d
      BY <1>1, <1>2
    <3> HIDE DEF n, d, k
    <3> QED BY <3>1
  <2>2. slot(n, u, i) \in 0 .. n - 1 /\ \A j \in 1 .. n : slot(n, u, i) = slot(n, u, j) => i = j
    BY <1>1, <2>1, Slots
  <2>3. \A j \in 1 .. k : at(s, j) # slot(n, u, i)
    <3> SUFFICES ASSUME NEW j \in 1 .. k, at(s, j) = slot(n, u, i) PROVE FALSE
      OBVIOUS
    <3>1. j \in Nat /\ j \in 1 .. d /\ j \in 1 .. n /\ j # i
      BY <2>1
    <3>2. at(s, j) < n => at(s, j) = slot(n, u, j)
      BY <3>1, Looks
    <3> HIDE DEF n, u
    <3>3. at(s, j) < n
      BY <1>1, <2>2
    <3> QED BY <2>2, <3>1, <3>2, <3>3
  <2>4. slot(n, u, i) \in DOMAIN s.buffer
    BY <1>1, <2>2
  <2> QED BY <2>3, <2>4
<1>6. f \in Seq(Int)
  BY <1>1, <1>2, LeftOf
<1>7. x \in 0 .. Width - 1 /\ y \in Rings
  BY <1>1, <1>2, <1>4, Advance DEF Rings
<1> HIDE DEF n, x, y, f, m, k
<1>8. Ring(w, x, s.tail, y, f) /\ w.size = s.size /\ Aside(s, w)
  BY <1>1, <1>2, <1>3, <1>6, <1>7 DEF Ring, Aside, CacheRec
<1>9. RingOK(w)
  BY <1>2, <1>4, <1>5, <1>8, Takes DEF n, x, f
<1> QED BY <1>8, <1>9

LEMMA ClearsData ==
    ASSUME NEW s, RingOK(s)
    PROVE  RingOK(ClearData(s)) /\ Aside(s, ClearData(s))
<1> DEFINE n == s.size
           y == [i \in DOMAIN s.buffer |-> Junk]
           w == ClearData(s)
<1>1. s \in CacheRec /\ n \in Sizes /\ n \in Nat /\ s.buffer \in [0 .. n - 1 -> Int] /\ Width \in Nat /\ n < Width
  BY RingKnown
<1>2. y \in [0 .. n - 1 -> Int] /\ y \in Rings
  BY <1>1 DEF Junk, Rings
<1>3. w = [s EXCEPT !.use = 0, !.tail = 0, !.fifo = <<>>, !.buffer = y]
  BY DEF ClearData
<1>4. 0 \in 0 .. Width - 1 /\ <<>> \in Seq(Int) /\ Len(<<>>) = 0 /\ ~s.misread
  BY <1>1, EmptySeq DEF RingOK
<1> HIDE DEF y
<1>5. Ring(w, 0, 0, y, <<>>) /\ w.size = n /\ Aside(s, w)
  BY <1>1, <1>2, <1>3, <1>4 DEF Ring, Aside, CacheRec
<1>6. Lies(n, 0 % n, y, <<>>)
  BY <1>4 DEF Lies
<1>7. 0 - 0 = 0 /\ 0 % Width = 0 /\ Len(<<>>) <= n
  BY <1>1, <1>4, RemainderNear
<1> HIDE DEF w, n
<1>8. RingOK(w)
  BY <1>1, <1>2, <1>4, <1>5, <1>6, <1>7, RingMade
<1> QED BY <1>5, <1>8 DEF w

LEMMA SkipsData ==
    ASSUME NEW s, RingOK(s), NEW k \in Nat
    PROVE  RingOK(SkipData(s, k)) /\ Aside(s, SkipData(s, k))
<1>1. CASE ~(GetDataSize(s) > k)
  BY <1>1, ClearsData DEF SkipData
<1>2. CASE GetDataSize(s) > k
  <2> DEFINE n == s.size
             u == s.use % n
             d == Len(s.fifo)
             y == [i \in DOMAIN s.buffer |-> IF (i - s.use) % s.size < k THEN Junk ELSE s.buffer[i]]
             f == SubSeq(s.fifo, k + 1, d)
             x == (s.use + k) % Width
             w == SkipData(s, k)
  <2>1. /\ s \in CacheRec /\ n \in Sizes /\ n \in Nat /\ n > 0 /\ u \in 0 .. n - 1 /\ d \in 0 .. n
        /\ s.fifo \in Seq(Int) /\ s.use \in 0 .. Width - 1 /\ s.tail \in 0 .. Width - 1
        /\ s.buffer \in [0 .. n - 1 -> Int] /\ GetDataSize(s) = d
    BY RingKnown
  <2>2. k \in 0 .. d /\ k \in 0 .. n
    BY <1>2, <2>1
  <2>3. w = [s EXCEPT !.use = x, !.fifo = f, !.buffer = y]
    BY <1>2 DEF SkipData
  <2>4. y \in [0 .. n - 1 -> Int]
    BY <2>1 DEF Junk
  <2>5. \A i \in k + 1 .. d : y[slot(n, u, i)] = s.buffer[slot(n, u, i)]
    <3> SUFFICES ASSUME NEW i \in k + 1 .. d PROVE y[slot(n, u, i)] = s.buffer[slot(n, u, i)]
      OBVIOUS
    <3>1. i \in 1 .. n /\ i \in Nat /\ i > k
      BY <2>1, <2>2
    <3>2. slot(n, u, i) \in 0 .. n - 1
      BY <2>1, <3>1, Slots
    <3> DEFINE p == slot(n, u, i)
    <3>3. (p - s.use) % n = IF p >= u THEN p - u ELSE p - u + n
      <4>1. s.use \in Int /\ n \in Nat /\ n > 0 /\ p \in 0 .. n - 1
        BY <2>1, <3>2
      <4> HIDE DEF n, p
      <4> QED BY <4>1, RemainderBack
    <3>4. p = IF u + i - 1 < n THEN u + i - 1 ELSE u + i - 1 - n
      BY DEF slot
    <3> HIDE DEF p, u
    <3>5. (p - s.use) % n = i - 1
      <4>1. u \in Int /\ u >= 0 /\ u < n /\ i <= n /\ n \in Nat /\ i \in Nat /\ i > 0
        BY <2>1, <3>1
      <4> HIDE DEF n
      <4>2. CASE u + i - 1 < n
        BY <3>3, <3>4, <4>1, <4>2
      <4>3. CASE ~(u + i - 1 < n)
        BY <3>3, <3>4, <4>1, <4>3
      <4> QED BY <4>2, <4>3
    <3>6. ~((p - s.use) % n < k) /\ p \in DOMAIN s.buffer
      <4>1. i - 1 >= k /\ k \in Int /\ i - 1 \in Int
        BY <3>1
      <4>2. p \in DOMAIN s.buffer
        BY <2>1, <3>2 DEF p
      <4> QED BY <3>5, <4>1, <4>2
    <3> QED BY <3>6 DEF p
  <2>6. f \in Seq(Int)
    BY <2>1, <2>2, LeftOf
  <2>7. x \in 0 .. Width - 1 /\ y \in Rings /\ ~s.misread
    BY <2>1, <2>2, <2>4, Advance DEF Rings, RingOK
  <2> HIDE DEF n, x, y, f
  <2>8. Ring(w, x, s.tail, y, f) /\ w.size = s.size /\ Aside(s, w)
    BY <2>1, <2>2, <2>3, <2>6, <2>7 DEF Ring, Aside, CacheRec
  <2>9. RingOK(w)
    BY <2>2, <2>4, <2>5, <2>8, Takes DEF n, x, f
  <2> QED BY <2>8, <2>9
<1> QED BY <1>1, <1>2

LEMMA ResetsSize ==
    ASSUME NEW s, RingOK(s), NEW n \in Sizes
    PROVE  RingOK(ResetSize(s, n)) /\ Aside(s, ResetSize(s, n))
<1> DEFINE g == copied(s, n)
           k == Len(g)
           r == ReadData(s, n)
           y == [i \in 0 .. n - 1 |-> IF i < k THEN g[i + 1] ELSE Junk]
           w == ResetSize(s, n)
<1>1. n \in Nat /\ n > 0 /\ n < Width /\ Width \in Nat
  BY SizeKnown
<1>2. g \in Seq(Int) /\ k \in 0 .. n
  <2>1. Len(s.fifo) \in Nat
    BY RingKnown
  <2> QED BY <1>1, <2>1, Copies DEF least
<1>3. RingOK(r) /\ Aside(s, r)
  BY <1>1, ReadsData
<1>4. r \in CacheRec /\ ~r.misread
  BY <1>3 DEF RingOK
<1>5. w = [r EXCEPT !.use = 0, !.tail = k, !.size = n, !.fifo = g, !.buffer = y]
  BY DEF ResetSize
<1>6. k \in 0 .. Width - 1 /\ 0 \in 0 .. Width - 1
  BY <1>1, <1>2
<1>7. \A i \in 1 .. k : g[i] \in Int
  BY <1>2, ElementOfSeq
<1>8. y \in [0 .. n - 1 -> Int]
  <2>1. \A i \in 0 .. n - 1 : i < k => i + 1 \in 1 .. k
    BY <1>1, <1>2
  <2> HIDE DEF k, g
  <2> QED BY <1>7, <2>1 DEF Junk
<1>9. 0 % n = 0 /\ (k - 0) % Width = k
  BY <1>1, <1>6, RemainderNear
<1>10. Lies(n, 0, y, g)
  <2> SUFFICES ASSUME NEW i \in 1 .. k PROVE y[slot(n, 0, i)] = g[i]
    BY DEF Lies
  <2>1. slot(n, 0, i) = i - 1 /\ i - 1 \in 0 .. n - 1 /\ i - 1 < k /\ i - 1 + 1 = i
    BY <1>1, <1>2 DEF slot
  <2> HIDE DEF k, g
  <2> QED BY <2>1
<1>11. y \in Rings
  BY <1>8 DEF Rings
<1> HIDE DEF y, k, g, r
<1>12. Ring(w, 0, k, y, g) /\ w.size = n /\ Aside(s, w)
  BY <1>2, <1>3, <1>4, <1>5, <1>6, <1>11 DEF Ring, Aside, CacheRec
<1> HIDE DEF w
<1>13. Lies(n, 0 % n, y, g) /\ Len(g) = (k - 0) % Width /\ Len(g) <= n
  BY <1>1, <1>2, <1>9, <1>10 DEF k
<1>14. RingOK(w)
  BY <1>2, <1>6, <1>8, <1>12, <1>13, RingMade
<1> QED BY <1>12, <1>14 DEF w

-----------------------------------------------------------------------------
(* Promises.                                                               *)

\* A coroutine that waits is the one of the promise, and there is one.
Held(s) == \A x \in Coroutines : s.co[x] = "yield" => s.promise # NoPromise /\ s.promise.co = x

\* Nobody waits.
NoneWaits(s) == \A x \in Coroutines : s.co[x] = "run"

\* The same ring under other promises and coroutines.
Beside(s, t) ==
    /\ t \in CacheRec /\ t.buffer = s.buffer /\ t.size = s.size /\ t.use = s.use /\ t.tail = s.tail
    /\ t.fifo = s.fifo /\ t.misread = s.misread

LEMMA RingBeside ==
    ASSUME NEW s, RingOK(s), NEW t, Beside(s, t)
    PROVE  RingOK(t) /\ GetDataSize(t) = GetDataSize(s)
BY DEF RingOK, Beside, GetDataSize, CacheRec

LEMMA PromiseMade ==
    ASSUME NEW kind \in {"read", "until", "scanf"}, NEW co \in Coroutines, NEW r,
           r.len \in Nat, r.cond \in Conds
    PROVE  /\ promise(kind, co, r) \in Promised
           /\ promise(kind, co, r).co = co /\ promise(kind, co, r).old = FALSE
BY DEF promise, Promised

LEMMA PromiseHolds ==
    ASSUME NEW kind, NEW co, NEW r, NEW n, holds(promise(kind, co, r), n)
    PROVE  holds(r, n)
BY DEF promise, holds

LEMMA ReadKnown ==
    ASSUME NEW r \in Reads
    PROVE  r.len \in Nat /\ r.cond \in Conds /\ r # NoRead
BY VideoCacheAssumption DEF Reads, NoRead

\* A coroutine that is resumed: it runs, or it has read, or it waits again for
\* what it has not found.
Resumed(s, t, co, again) ==
    \/ t.promise = s.promise /\ t.co = s.co /\ s.co[co] # "yield"
    \/ t.promise = s.promise /\ t.co = [s.co EXCEPT ![co] = "run"]
    \/ /\ again \in Reads /\ t.promise = promise("read", co, again) /\ t.co = [s.co EXCEPT ![co] = "yield"]
       /\ ~holds(again, GetDataSize(t))

LEMMA Resumes ==
    ASSUME NEW s, RingOK(s), NEW co \in Coroutines, NEW again \in Reads \cup {NoRead}
    PROVE  /\ RingOK(resume(s, co, again)) /\ resume(s, co, again).late = s.late
           /\ Resumed(s, resume(s, co, again), co, again)
<1> DEFINE s1 == [s EXCEPT !.co[co] = "run"]
           t == resume(s, co, again)
<1>1. s \in CacheRec /\ s.co \in [Coroutines -> {"run", "yield"}]
  BY DEF RingOK, CacheRec
<1>2. CASE ~resumable(s, co)
  BY <1>2 DEF resume, resumable, Resumed
<1>3. CASE resumable(s, co)
  <2>1. [s.co EXCEPT ![co] = "run"] \in [Coroutines -> {"run", "yield"}]
    BY <1>1
  <2>2. Beside(s, s1) /\ s1.promise = s.promise /\ s1.co = [s.co EXCEPT ![co] = "run"] /\ s1.late = s.late
    BY <1>1, <2>1 DEF Beside, CacheRec
  <2> HIDE DEF s1
  <2>3. RingOK(s1)
    BY <2>2, RingBeside
  <2>4. t = read_again(s1, co, again)
    BY <1>3 DEF resume, s1
  <2>5. CASE again = NoRead
    BY <2>2, <2>3, <2>4, <2>5 DEF read_again, Resumed
  <2>6. CASE again \in Reads /\ holds(again, GetDataSize(s1))
    <3>1. again.len \in Nat /\ again # NoRead
      BY <2>6, ReadKnown
    <3>2. t = ReadData(s1, again.len)
      BY <2>4, <2>6, <3>1 DEF read_again
    <3>3. RingOK(t) /\ Aside(s1, t)
      BY <2>3, <3>1, <3>2, ReadsData
    <3> QED BY <2>2, <3>3 DEF Aside, Resumed
  <2>7. CASE again \in Reads /\ ~holds(again, GetDataSize(s1))
    <3> DEFINE v == promise("read", co, again)
    <3>1. again # NoRead /\ v \in Promised
      BY <2>7, ReadKnown, PromiseMade
    <3> HIDE DEF v
    <3>2. t = [s1 EXCEPT !.promise = v, !.co[co] = "yield"]
      BY <2>4, <2>7, <3>1 DEF read_again, v
    <3>3. s1.co \in [Coroutines -> {"run", "yield"}] /\ s1 \in CacheRec
      BY <2>3 DEF RingOK, CacheRec
    <3> DEFINE z == [s1.co EXCEPT ![co] = "yield"]
    <3>6. z \in [Coroutines -> {"run", "yield"}]
      BY <3>3
    <3>7. t = [s1 EXCEPT !.promise = v, !.co = z]
      BY <3>2, <3>3 DEF CacheRec
    <3> HIDE DEF z, t
    <3>4. Beside(s1, t) /\ t.promise = v /\ t.co = z /\ t.late = s1.late
      BY <3>1, <3>3, <3>6, <3>7 DEF Beside, CacheRec
    <3>5. RingOK(t) /\ GetDataSize(t) = GetDataSize(s1)
      BY <2>3, <3>4, RingBeside
    <3>8. t.co = [s.co EXCEPT ![co] = "yield"]
      BY <1>1, <2>2, <3>4 DEF z
    <3> QED BY <2>2, <2>7, <3>4, <3>5, <3>8 DEF Resumed, v, t
  <2> QED BY <2>5, <2>6, <2>7
<1> QED BY <1>2, <1>3

\* A promise that takes the place of another one: its coroutine runs on.
LEMMA Makes ==
    ASSUME NEW s, RingOK(s), NEW p \in Promised, NEW again \in Reads \cup {NoRead}
    PROVE  LET t == MakePromise(s, p, again)
           IN  RingOK(t) /\ t.promise = p /\ t.late = s.late /\ (Held(s) /\ again = NoRead => NoneWaits(t))
<1> DEFINE r == IF s.promise = NoPromise THEN s ELSE resume(s, s.promise.co, again)
           t == MakePromise(s, p, again)
<1>1. s.co \in [Coroutines -> {"run", "yield"}] /\ s.promise \in Promised \cup {NoPromise}
  BY DEF RingOK, CacheRec
<1>2. RingOK(r) /\ r.late = s.late /\ (Held(s) /\ again = NoRead => NoneWaits(r))
  <2>1. CASE s.promise = NoPromise
    BY <1>1, <2>1 DEF Held, NoneWaits
  <2>2. CASE s.promise # NoPromise
    <3> DEFINE x == s.promise.co
    <3>1. x \in Coroutines
      BY <1>1, <2>2 DEF Promised
    <3>2. RingOK(r) /\ r.late = s.late /\ Resumed(s, r, x, again)
      BY <2>2, <3>1, Resumes
    <3>3. NoRead \notin Reads
      BY ReadKnown
    <3>5. ASSUME Held(s), again = NoRead PROVE NoneWaits(r)
      <4>4. \A y \in Coroutines : y # x => s.co[y] = "run"
        BY <1>1, <3>5 DEF Held
      <4>1. CASE r.co = s.co /\ s.co[x] # "yield"
        BY <1>1, <3>1, <4>4, <4>1 DEF NoneWaits
      <4>2. CASE r.co = [s.co EXCEPT ![x] = "run"]
        BY <1>1, <3>1, <4>4, <4>2 DEF NoneWaits
      <4> HIDE DEF r, x
      <4> QED BY <3>2, <3>3, <3>5, <4>1, <4>2 DEF Resumed
    <3> QED BY <3>2, <3>5
  <2> QED BY <2>1, <2>2
<1>3. t = [r EXCEPT !.promise = p]
  BY DEF MakePromise
<1> HIDE DEF r, t
<1>4. r \in CacheRec
  BY <1>2 DEF RingOK
<1>5. Beside(r, t) /\ t.promise = p /\ t.co = r.co /\ t.late = r.late
  BY <1>3, <1>4 DEF Beside, CacheRec
<1> QED BY <1>2, <1>5, RingBeside DEF NoneWaits, t

\* Honoring a promise.
LEMMA Honors ==
    ASSUME NEW s, RingOK(s), s.promise # NoPromise, NEW again \in Reads \cup {NoRead}
    PROVE  LET d == honor(s, again)
               x == s.promise.co
           IN  /\ RingOK(d) /\ d.late = s.late /\ x \in Coroutines
               /\ \/ d.promise = [s.promise EXCEPT !.old = TRUE] /\ (Held(s) => NoneWaits(d))
                  \/ /\ again \in Reads /\ d.promise = promise("read", x, again)
                     /\ Held(s) => \A y \in Coroutines : d.co[y] = "yield" => y = x
                     /\ ~holds(again, GetDataSize(d))
<1> DEFINE p == s.promise
           x == p.co
           v == [p EXCEPT !.old = TRUE]
           s1 == [s EXCEPT !.promise.old = TRUE]
           d == honor(s, again)
<1>1. s \in CacheRec /\ s.co \in [Coroutines -> {"run", "yield"}] /\ p \in Promised
  BY DEF RingOK, CacheRec
<1>2. /\ p.kind \in {"read", "until", "scanf"} /\ x \in Coroutines /\ p.len \in Nat /\ v \in Promised
  BY <1>1 DEF Promised
<1>3. Beside(s, s1) /\ s1.promise = v /\ s1.co = s.co /\ s1.late = s.late
  BY <1>1, <1>2 DEF Beside, CacheRec
<1> HIDE DEF s1, v
<1>4. RingOK(s1)
  BY <1>3, RingBeside
<1>5. RingOK(ReadData(s1, p.len)) /\ Aside(s1, ReadData(s1, p.len))
  BY <1>2, <1>4, ReadsData
<1>6. PICK r \in {s1, ReadData(s1, p.len)} : d = resume(r, x, again)
  BY <1>2 DEF honor, do_honor_read, do_honor_until, do_honor_scanf, s1
<1>7. RingOK(r) /\ r.promise = v /\ r.co = s.co /\ r.late = s.late
  BY <1>3, <1>4, <1>5, <1>6 DEF Aside
<1>8. RingOK(d) /\ d.late = s.late /\ Resumed(r, d, x, again)
  BY <1>2, <1>6, <1>7, Resumes
<1>9. Held(s) => \A y \in Coroutines : y # x => s.co[y] = "run"
  BY <1>1 DEF Held
<1> HIDE DEF d
<1>10. CASE d.promise = r.promise /\ d.co = r.co /\ r.co[x] # "yield"
  <2>1. Held(s) => NoneWaits(d)
    BY <1>1, <1>2, <1>7, <1>9, <1>10 DEF NoneWaits
  <2> QED BY <1>2, <1>7, <1>8, <1>10, <2>1 DEF v, d
<1>11. CASE d.promise = r.promise /\ d.co = [r.co EXCEPT ![x] = "run"]
  <2>1. Held(s) => NoneWaits(d)
    BY <1>1, <1>2, <1>7, <1>9, <1>11 DEF NoneWaits
  <2> QED BY <1>2, <1>7, <1>8, <1>11, <2>1 DEF v, d
<1>12. CASE /\ again \in Reads /\ d.promise = promise("read", x, again)
            /\ d.co = [r.co EXCEPT ![x] = "yield"] /\ ~holds(again, GetDataSize(d))
  <2>1. Held(s) => \A y \in Coroutines : d.co[y] = "yield" => y = x
    BY <1>1, <1>7, <1>9, <1>12
  <2> QED BY <1>2, <1>8, <1>12, <2>1 DEF d
<1> QED BY <1>8, <1>10, <1>11, <1>12 DEF Resumed

\* The player's side writes: no promise is left that could be honored.
LEMMA CacheDelivers ==
    ASSUME NEW s, RingOK(s), NEW len \in Nat, NEW again \in Reads \cup {NoRead}
    PROVE  LET d == PromiseWriteData(s, len, again)
           IN  RingOK(d) /\ (Held(s) => Held(d)) /\ ~completed(d)
<1> DEFINE w == WriteData(s, len)
           h == honor(w, again)
           d == PromiseWriteData(s, len, again)
           x == w.promise.co
<1>1. RingOK(w) /\ Aside(s, w)
  BY WritesData
<1>2. Held(s) => Held(w)
  BY <1>1 DEF Held, Aside
<1>3. d = IF ~completed(w) THEN w ELSE IF h.promise.old THEN [h EXCEPT !.promise = NoPromise] ELSE h
  BY DEF PromiseWriteData
<1> HIDE DEF w, d
<1>4. CASE ~completed(w)
  BY <1>1, <1>2, <1>3, <1>4 DEF d
<1>5. CASE completed(w)
  <2>1. w.promise # NoPromise
    BY <1>5 DEF completed
  <2>2. /\ RingOK(h) /\ x \in Coroutines
        /\ \/ h.promise = [w.promise EXCEPT !.old = TRUE] /\ (Held(w) => NoneWaits(h))
           \/ /\ again \in Reads /\ h.promise = promise("read", x, again)
              /\ Held(w) => \A y \in Coroutines : h.co[y] = "yield" => y = x
              /\ ~holds(again, GetDataSize(h))
    BY <1>1, <2>1, Honors
  <2>3. w.promise \in Promised
    BY <1>1, <2>1 DEF RingOK, CacheRec
  <2> HIDE DEF h
  <2>4. CASE h.promise = [w.promise EXCEPT !.old = TRUE] /\ (Held(w) => NoneWaits(h))
    <3>1. h.promise.old = TRUE
      BY <2>3, <2>4 DEF Promised
    <3>2. d = [h EXCEPT !.promise = NoPromise] /\ h \in CacheRec
      BY <1>3, <1>5, <2>2, <3>1 DEF RingOK
    <3>3. Beside(h, d) /\ d.promise = NoPromise /\ d.co = h.co
      BY <3>2 DEF Beside, CacheRec
    <3>4. ~completed(d)
      BY <3>3 DEF completed
    <3>5. Held(s) => Held(d)
      BY <1>2, <2>4, <3>3 DEF Held, NoneWaits
    <3> QED BY <2>2, <3>3, <3>4, <3>5, RingBeside DEF d
  <2>5. CASE /\ again \in Reads /\ h.promise = promise("read", x, again)
             /\ Held(w) => \A y \in Coroutines : h.co[y] = "yield" => y = x
             /\ ~holds(again, GetDataSize(h))
    <3>1. again.len \in Nat /\ again.cond \in Conds
      BY <2>5, ReadKnown
    <3> HIDE DEF x
    <3>6. /\ promise("read", x, again) \in Promised
          /\ promise("read", x, again).co = x /\ promise("read", x, again).old = FALSE
      <4>1. x \in Coroutines
        BY <2>2 DEF x
      <4>2. promise("read", x, again) \in Promised
        BY <3>1, <4>1, PromiseMade
      <4>3. promise("read", x, again).co = x
        BY DEF promise
      <4>4. promise("read", x, again).old = FALSE
        BY DEF promise
      <4> QED BY <4>2, <4>3, <4>4
    <3>2. /\ h.promise \in Promised /\ h.promise.co = x /\ h.promise.old = FALSE
          /\ \A n : holds(h.promise, n) => holds(again, n)
      BY <2>5, <3>6, PromiseHolds DEF x
    <3>3. d = h
      BY <1>3, <1>5, <3>2
    <3>4. NoPromise \notin Promised
      BY DEF NoPromise, Promised
    <3>5. (Held(s) => Held(h)) /\ ~completed(h)
      BY <1>2, <2>5, <3>2, <3>4 DEF Held, completed
    <3> QED BY <2>2, <3>3, <3>5 DEF d
  <2> QED BY <2>2, <2>4, <2>5
<1> QED BY <1>4, <1>5

-----------------------------------------------------------------------------
(* The cache.                                                              *)

\* Nobody reads again at once when its promise is given up.
GivesUp == GivenUpReads = {NoRead}

CacheOK == RingOK(c) /\ ~c.late /\ (GivesUp => Held(c))

LEMMA CacheStarts ==
    ASSUME c = cache_init
    PROVE  CacheOK
<1> DEFINE n == CHOOSE s \in Sizes : \A t \in Sizes : s >= t
           y == [i \in 0 .. n - 1 |-> Junk]
<1>1. n \in Sizes
  <2>1. Sizes \in SUBSET (1 .. Width) /\ Width \in Nat /\ Sizes # {}
    BY VideoCacheAssumption
  <2>2. Max(Sizes) \in Sizes /\ \A j \in Sizes : j <= Max(Sizes)
    BY <2>1, MaxUpTo
  <2>3. Max(Sizes) \in Int /\ \A j \in Sizes : j \in Int
    <3>1. Sizes \subseteq Int
      BY VideoCacheAssumption
    <3> QED BY <2>2, <3>1
  <2>4. \E s \in Sizes : \A t \in Sizes : s >= t
    BY <2>2, <2>3
  <2> QED BY <2>4
<1>2. c = [buffer |-> y, size |-> n, use |-> 0, tail |-> 0, promise |-> NoPromise,
           co |-> [x \in Coroutines |-> "run"], fifo |-> <<>>, next |-> 1, misread |-> FALSE, late |-> FALSE]
  BY DEF cache_init
<1> HIDE DEF n
<1>3. n \in Nat /\ n > 0 /\ n < Width /\ Width \in Nat
  BY <1>1, SizeKnown
<1>4. y \in [0 .. n - 1 -> Int] /\ y \in Rings /\ 0 \in 0 .. Width - 1
  BY <1>1, <1>3 DEF Junk, Rings
<1>5. <<>> \in Seq(Int) /\ Len(<<>>) = 0
  BY EmptySeq
<1>6. 0 - 0 = 0 /\ 0 % Width = 0 /\ Len(<<>>) <= n
  BY <1>3, <1>5, RemainderNear
<1> HIDE DEF y
<1>7. Ring(c, 0, 0, y, <<>>) /\ c.size = n
  BY <1>1, <1>2, <1>4, <1>5 DEF Ring, CacheRec
<1>8. Lies(n, 0 % n, y, <<>>)
  BY <1>5 DEF Lies
<1>9. RingOK(c)
  BY <1>1, <1>4, <1>5, <1>6, <1>7, <1>8, RingMade
<1>10. Held(c) /\ ~c.late
  BY <1>2 DEF Held
<1> QED BY <1>9, <1>10 DEF CacheOK

\* What moves bytes only.
LEMMA MovesOnly ==
    ASSUME NEW s, NEW t, RingOK(t), Aside(s, t), ~s.late
    PROVE  RingOK(t) /\ (Held(s) => Held(t)) /\ ~t.late
BY DEF Held, Aside

LEMMA CacheStep ==
    ASSUME CacheOK, [CacheNext]_c
    PROVE  CacheOK'
<1>1. RingOK(c) /\ (GivesUp => Held(c)) /\ ~c.late /\ c \in CacheRec
  BY DEF CacheOK, RingOK
<1>2. CASE UNCHANGED c
  BY <1>2 DEF CacheOK
<1>3. ASSUME NEW t, RingOK(t), Aside(c, t), c' = t PROVE CacheOK'
  <2>1. RingOK(t) /\ (Held(c) => Held(t)) /\ ~t.late
    BY <1>1, <1>3, MovesOnly
  <2> QED BY <1>1, <1>3, <2>1 DEF CacheOK
<1>4. 1 .. MaxLen \subseteq Nat
  BY VideoCacheAssumption
<1>5. ASSUME NEW n \in Nat
      PROVE  /\ RingOK(WriteData(c, n)) /\ Aside(c, WriteData(c, n))
             /\ RingOK(ReadData(c, n)) /\ Aside(c, ReadData(c, n))
             /\ RingOK(SkipData(c, n)) /\ Aside(c, SkipData(c, n))
  BY <1>1, WritesData, ReadsData, SkipsData
<1>6. ASSUME NEW co \in Coroutines, NEW r, r.len \in Nat, r.cond \in Conds,
             NEW kind \in {"read", "until", "scanf"}, NEW again \in GivenUpReads
      PROVE  LET t == MakePromise(c, promise(kind, co, r), again)
             IN  /\ RingOK(t) /\ (GivesUp => NoneWaits(t)) /\ ~t.late /\ t.promise.co = co /\ t.promise # NoPromise
                 /\ t \in CacheRec
  <2> DEFINE p == promise(kind, co, r)
  <2>3. NoPromise \notin Promised
    BY DEF NoPromise, Promised
  <2>1. p \in Promised /\ p.co = co /\ NoPromise \notin Promised
    <3>1. p \in Promised
      BY <1>6, PromiseMade
    <3>2. p.co = co
      BY DEF promise
    <3> QED BY <2>3, <3>1, <3>2
  <2> HIDE DEF p
  <2> DEFINE t == MakePromise(c, p, again)
  <2>4. again \in Reads \cup {NoRead} /\ (GivesUp => again = NoRead)
    BY VideoCacheAssumption DEF GivesUp
  <2>2. RingOK(t) /\ t.promise = p /\ t.late = c.late /\ (Held(c) /\ again = NoRead => NoneWaits(t))
    BY <1>1, <2>1, <2>4, Makes
  <2> HIDE DEF t
  <2>5. t \in CacheRec
    BY <2>2 DEF RingOK
  <2> QED BY <1>1, <2>1, <2>2, <2>4, <2>5 DEF p, t
<1>7. ASSUME NEW co \in Coroutines, NEW n \in 1 .. MaxLen,
             LuaWriteData(co, n) \/ LuaReadData(co, n) \/ LuaSkipData(co, n) \/ lua_decrypt_cache(co, n)
      PROVE  CacheOK'
  <2>1. n \in Nat
    BY <1>4
  <2> QED BY <1>3, <1>5, <1>7, <2>1
          DEF LuaWriteData, LuaReadData, LuaSkipData, lua_decrypt_cache, decrypt_cache, fill_dec_input
<1>8. ASSUME NEW co \in Coroutines, LuaClearData(co) PROVE CacheOK'
  BY <1>1, <1>3, <1>8, ClearsData DEF LuaClearData
<1>9. ASSUME NEW co \in Coroutines, NEW n \in Sizes, LuaResetSize(co, n) PROVE CacheOK'
  BY <1>1, <1>3, <1>9, ResetsSize DEF LuaResetSize
<1>10. ASSUME NEW co \in Coroutines, NEW n \in 1 .. MaxLen, NEW again \in GivenUpReads,
              LuaScanf(co, n, again) \/ LuaWaitUntil(co, n, again)
       PROVE  CacheOK'
  <2> DEFINE r == [len |-> n, cond |-> "enough"]
  <2>1. n \in Nat /\ r.len \in Nat /\ r.cond \in Conds
    BY <1>4 DEF Conds
  <2> HIDE DEF r
  <2>2. \/ c' = ReadData(c, n)
        \/ c' = MakePromise(c, promise("scanf", co, r), again)
        \/ c' = MakePromise(c, promise("until", co, r), again)
    BY <1>10, <2>1 DEF LuaScanf, LuaWaitUntil, r
  <2>3. CASE c' = ReadData(c, n)
    BY <1>3, <1>5, <2>1, <2>3
  <2>4. ASSUME NEW t, RingOK(t), GivesUp => NoneWaits(t), ~t.late, c' = t PROVE CacheOK'
    BY <2>4 DEF CacheOK, Held, NoneWaits
  <2>5. CASE c' = MakePromise(c, promise("scanf", co, r), again)
    BY <1>6, <2>1, <2>4, <2>5
  <2>6. CASE c' = MakePromise(c, promise("until", co, r), again)
    BY <1>6, <2>1, <2>4, <2>6
  <2> QED BY <2>2, <2>3, <2>5, <2>6
<1>11. ASSUME NEW co \in Coroutines, NEW r \in Reads, NEW again \in GivenUpReads, LuaSyncReadData(co, r, again)
       PROVE  CacheOK'
  <2>1. r.len \in Nat /\ r.cond \in Conds
    BY ReadKnown
  <2> DEFINE t == MakePromise(c, promise("read", co, r), again)
             u == [t EXCEPT !.co[co] = "yield"]
  <2>2. c' = ReadData(c, r.len) \/ c' = u
    BY <1>11, <2>1 DEF LuaSyncReadData
  <2>3. CASE c' = ReadData(c, r.len)
    BY <1>3, <1>5, <2>1, <2>3
  <2>4. CASE c' = u
    <3>1. /\ RingOK(t) /\ (GivesUp => NoneWaits(t)) /\ ~t.late /\ t.promise.co = co
          /\ t.promise # NoPromise /\ t \in CacheRec
      BY <1>6, <2>1
    <3> HIDE DEF t
    <3>2. t.co \in [Coroutines -> {"run", "yield"}]
      BY <3>1 DEF CacheRec
    <3>3. Beside(t, u) /\ u.co = [t.co EXCEPT ![co] = "yield"] /\ u.promise = t.promise /\ u.late = t.late
      BY <3>1, <3>2 DEF Beside, CacheRec
    <3>4. RingOK(u)
      BY <3>1, <3>3, RingBeside
    <3>5. GivesUp => Held(u)
      BY <3>1, <3>2, <3>3 DEF Held, NoneWaits
    <3> HIDE DEF u
    <3> QED BY <2>4, <3>1, <3>3, <3>4, <3>5 DEF CacheOK
  <2> QED BY <2>2, <2>3, <2>4
<1>12. ASSUME NEW n \in 1 .. MaxLen, NEW again \in Reads \cup {NoRead}, Deliver(n, again)
       PROVE  CacheOK'
  <2> DEFINE d == PromiseWriteData(c, n, again)
  <2>1. n \in Nat
    BY <1>4
  <2>2. RingOK(d) /\ (GivesUp => Held(d)) /\ ~completed(d)
    BY <1>1, <2>1, CacheDelivers
  <2>3. c' = [d EXCEPT !.late = completed(d)]
    BY <1>12 DEF Deliver
  <2> HIDE DEF d
  <2>4. c' = [d EXCEPT !.late = FALSE] /\ d \in CacheRec
    BY <2>2, <2>3 DEF RingOK, completed
  <2> DEFINE e == [d EXCEPT !.late = FALSE]
  <2>5. Beside(d, e) /\ e.promise = d.promise /\ e.co = d.co /\ e.late = FALSE
    BY <2>4 DEF Beside, CacheRec
  <2>6. RingOK(e) /\ (GivesUp => Held(e))
    BY <2>2, <2>5, RingBeside DEF Held
  <2> HIDE DEF e
  <2> QED BY <2>4, <2>5, <2>6 DEF CacheOK, e
<1> QED BY <1>2, <1>7, <1>8, <1>9, <1>10, <1>11, <1>12 DEF CacheNext

\* The video cache (lua_video_cache.cpp): for every size of the ring and width
\* of its counters, a read returns the bytes that were written and not yet
\* read, oldest first, and a delivery leaves no promise it could have honored.
THEOREM CacheServes == CacheSpec => [](ReadsInOrder /\ NoWakeupLost)
<1>1. c = cache_init => CacheOK
  BY CacheStarts
<1>2. CacheOK /\ [CacheNext]_c => CacheOK'
  BY CacheStep
<1>3. CacheOK => ReadsInOrder /\ NoWakeupLost
  BY DEF CacheOK, RingOK, ReadsInOrder, NoWakeupLost
<1> QED BY <1>1, <1>2, <1>3, PTL DEF CacheSpec

\* And a coroutine that waits in SyncReadData is the one of the promise, while a
\* coroutine whose promise is given up does not read again at once: what it
\* leaves then, MakePromise drops.
THEOREM WaiterKept ==
    ASSUME GivenUpReads = {NoRead}
    PROVE  CacheSpec => []CacheInv
<1>1. c = cache_init => CacheOK
  BY CacheStarts
<1>2. CacheOK /\ [CacheNext]_c => CacheOK'
  BY CacheStep
<1>3. CacheOK => CacheInv
  BY DEF CacheOK, GivesUp, RingOK, Held, CacheInv, ReadsInOrder, WaiterHeld, NoWakeupLost
<1> QED BY <1>1, <1>2, <1>3, PTL DEF CacheSpec

\* Both: what run parts checks of the cache and the buffers, for every instance.
THEOREM BuffersServe ==
    ASSUME GivenUpReads = {NoRead}
    PROVE  BuffersSpec => []BuffersInv
<1>1. CacheSpec => []CacheInv
  BY WaiterKept
<1>2. CacheInv /\ BufferIntact => BuffersInv
  BY DEF BuffersInv
<1> QED BY <1>1, <1>2, BytesStay, PTL DEF BuffersSpec
=============================================================================
