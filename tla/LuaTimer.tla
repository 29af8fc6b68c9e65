------------------------------ MODULE LuaTimer ------------------------------
(***************************************************************************)
(* AsyncWaitTimer (src/src/utility/timer.h) and the timers of a script     *)
(* (LuaTimer, LuaTimerModule).  An expired or cancelled wait of the        *)
(* deadline timer puts on_timer in the queue; on_timer does not look at    *)
(* the error code, only at is_cancel_.                                     *)
(***************************************************************************)
EXTENDS Integers, FiniteSets

CONSTANTS
    Timer,        \* handles of timers
    Intervals,    \* the intervals a script passes; 0 never starts
    Counts,       \* the counts a script passes; below 0 without end
    MaxFires      \* bound on the calls of a timer without end

ASSUME TimerAssumption ==
    /\ Intervals \subseteq Nat /\ Counts \subseteq Int /\ MaxFires \in Nat

VARIABLE timer    \* the timers of the module

timerVars == <<timer>>

\* `wait' is the deadline timer: off, waiting, or on_timer is in the queue.
new_timer ==
    [obj |-> FALSE, interval |-> 0, total_times |-> 0, invoke_times |-> 0,
     is_cancel |-> FALSE, wait |-> "off", fired |-> 0, closed |-> FALSE]

timer_init == timer = [t \in Timer |-> new_timer]

async_wait(x) ==
    IF ~x.is_cancel /\ x.interval # 0 THEN [x EXCEPT !.invoke_times = 0, !.wait = "waiting"] ELSE x

cancel(x) ==
    [x EXCEPT !.is_cancel = TRUE, !.wait = IF @ = "waiting" THEN "queued" ELSE @]

\* wait_func_ runs the script's function, which may close the timer itself.
handle_timeout(x, closes) ==
    LET y == [x EXCEPT !.fired = @ + 1, !.invoke_times = @ + 1] IN
    IF closes /\ x.obj THEN cancel([y EXCEPT !.obj = FALSE, !.closed = TRUE]) ELSE y

again(x) == x.total_times < 0 \/ x.invoke_times < x.total_times

on_timer(x, closes) ==
    IF x.is_cancel THEN [x EXCEPT !.wait = "off"]
    ELSE LET y == handle_timeout(x, closes) IN
         [y EXCEPT !.wait = IF again(y) THEN "waiting" ELSE "off"]

start_timer(interval, count) ==
    async_wait([new_timer EXCEPT !.obj = TRUE, !.interval = interval, !.total_times = count])

close_timer(x) == cancel([x EXCEPT !.closed = TRUE])

timer_open(t, interval, count) ==
    /\ timer[t] = new_timer
    /\ timer' = [timer EXCEPT ![t] = start_timer(interval, count)]

timer_close(t) ==
    /\ timer[t].obj
    /\ timer' = [timer EXCEPT ![t] = close_timer([@ EXCEPT !.obj = FALSE])]

\* on_close_module: every timer is cancelled; the objects stay in the table.
timer_close_module ==
    /\ \E t \in Timer : timer[t].obj /\ ~timer[t].closed
    /\ timer' = [t \in Timer |-> IF timer[t].obj THEN close_timer(timer[t])
                                 ELSE timer[t]]

\* The deadline has passed.
expire(t) ==
    /\ timer[t].wait = "waiting"
    /\ timer' = [timer EXCEPT ![t].wait = "queued"]

run_timer(t, closes) ==
    /\ timer[t].wait = "queued"
    /\ timer[t].fired < MaxFires
    /\ timer' = [timer EXCEPT ![t] = on_timer(@, closes)]

TimerNext ==
    \/ \E t \in Timer :
        \/ \E interval \in Intervals, count \in Counts : timer_open(t, interval, count)
        \/ timer_close(t) \/ expire(t)
        \/ \E closes \in BOOLEAN : run_timer(t, closes)
    \/ timer_close_module

\* Timers expire and the io thread runs what is queued.
TimerFairness ==
    \A t \in Timer : WF_timerVars(expire(t)) /\ WF_timerVars(\E closes \in BOOLEAN : run_timer(t, closes))

\* A timer never calls the script after it was closed, also when on_timer was
\* in the queue already or the script closes it in its own call, and a timer
\* with a count calls no more often.
TimerQuiet ==
    [][\A t \in Timer :
        /\ timer[t].closed => timer'[t].fired = timer[t].fired
        /\ timer[t].total_times > 0 => timer'[t].fired <= timer[t].total_times]_timerVars

\* A timer with a count that is not closed calls as often as it should.
TimerFires ==
    \A t \in Timer :
        (timer[t].interval > 0 /\ timer[t].total_times > 0)
            ~> (timer[t].closed \/ timer[t].fired = timer[t].total_times)
=============================================================================
