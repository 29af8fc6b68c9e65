---------------------------- MODULE SessionPool ----------------------------
(***************************************************************************)
(* What the SDK promises its callers about sessions, without queue, io     *)
(* thread, tables or state machines: a call of open hands out a session    *)
(* nobody holds, or fails for want of one or of a script; a call of close  *)
(* gives the session back; each takes effect at one instant between the    *)
(* call and its return.  A restart of the SDK, which happens while no call *)
(* is in progress, takes all sessions back.                                *)
(***************************************************************************)
CONSTANTS Threads, Handles, NoHandle, NoThread

VARIABLES
    up,       \* the SDK is initialized
    holder,   \* the thread that holds each session, or NoThread
    call      \* the call each thread is in

poolSpecVars == <<up, holder, call>>

NoCall == [op |-> "none", h |-> NoHandle]
Open == [op |-> "open", h |-> NoHandle]
Close(h) == [op |-> "close", h |-> h]
Opened(h) == [op |-> "opened", h |-> h]
NoneLeft == [op |-> "none_left", h |-> NoHandle]
NotOpened == [op |-> "not_opened", h |-> NoHandle]
Closed == [op |-> "closed", h |-> NoHandle]

Free == {h \in Handles : holder[h] = NoThread}

Init ==
    /\ up = FALSE
    /\ holder = [h \in Handles |-> NoThread]
    /\ call = [t \in Threads |-> NoCall]

\* A thread opens a session, or closes one it holds (or none).
Invoke(t) ==
    /\ up /\ call[t] = NoCall
    /\ \E c \in {Open, Close(NoHandle)} \cup {Close(h) : h \in {g \in Handles : holder[g] = t}} :
          call' = [call EXCEPT ![t] = c]
    /\ UNCHANGED <<up, holder>>

\* The open takes effect: a session that nobody holds.
Acquire(t) ==
    /\ call[t] = Open
    /\ \E h \in Free :
          /\ holder' = [holder EXCEPT ![h] = t]
          /\ call' = [call EXCEPT ![t] = Opened(h)]
    /\ UNCHANGED up

\* It fails for want of a session only when all are held, ...
Exhausted(t) ==
    /\ call[t] = Open /\ Free = {}
    /\ call' = [call EXCEPT ![t] = NoneLeft]
    /\ UNCHANGED <<up, holder>>

\* ... and for want of a script only when one was there to try.
ScriptFails(t) ==
    /\ call[t] = Open /\ Free # {}
    /\ call' = [call EXCEPT ![t] = NotOpened]
    /\ UNCHANGED <<up, holder>>

\* The close takes effect on the session named, and on no other.
Release(t) ==
    /\ call[t].op = "close"
    /\ holder' = [h \in Handles |-> IF h = call[t].h THEN NoThread ELSE holder[h]]
    /\ call' = [call EXCEPT ![t] = Closed]
    /\ UNCHANGED up

Return(t) ==
    /\ call[t].op \in {"opened", "none_left", "not_opened", "closed"}
    /\ call' = [call EXCEPT ![t] = NoCall]
    /\ UNCHANGED <<up, holder>>

Restart ==
    /\ \A t \in Threads : call[t] = NoCall
    /\ up' = ~up
    /\ holder' = [h \in Handles |-> NoThread]
    /\ UNCHANGED call

Next ==
    \/ Restart
    \/ \E t \in Threads : Invoke(t) \/ Acquire(t) \/ Exhausted(t) \/ ScriptFails(t)
                          \/ Release(t) \/ Return(t)

Spec == Init /\ [][Next]_poolSpecVars
=============================================================================
