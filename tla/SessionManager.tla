--------------------------- MODULE SessionManager ---------------------------
(***************************************************************************)
(* The session pool of src/src/session/session_manager.cpp: all sessions   *)
(* are created by init and move between two tables.  The operations are    *)
(* actions on the pool's variables only; BeeEntrance calls them.           *)
(***************************************************************************)
EXTENDS BeeSession

CONSTANTS
    Handles,    \* the session ids 0 .. count_ - 1
    NoHandle    \* -1

ASSUME HandleAssumption == NoHandle \notin Handles

VARIABLES
    session,        \* all_sessions_
    idle_sessions,
    busy_sessions

poolVars == <<session, idle_sessions, busy_sessions>>

\* init: count_ new sessions, all idle.
init ==
    /\ session' = [h \in Handles |-> new_session]
    /\ idle_sessions' = Handles
    /\ busy_sessions' = {}

\* The ids generate_live_session_id may draw: 32 random letters, so never
\* one that another session holds.
FreshSids == Sids \ {session[h].live_session_id : h \in Handles}

\* open_idle_session on the idle session h that begin() yields (the order
\* of an unordered_map is unspecified), when the session opens ...
open_idle_session(h, sid, caps) ==
    /\ h \in idle_sessions
    /\ \E r \in open(session[h], sid, caps) : session' = [session EXCEPT ![h] = r]
    /\ busy_sessions' = busy_sessions \cup {h}
    /\ idle_sessions' = idle_sessions \ {h}

\* ... and when it does not: it stays idle.
open_idle_session_failed(h, sid) ==
    /\ h \in idle_sessions
    /\ session' = [session EXCEPT ![h] = open_failed(session[h], sid)]
    /\ UNCHANGED <<idle_sessions, busy_sessions>>

\* close_busy_session: an id that is not busy changes nothing.
close_busy_session(h) ==
    IF h \in busy_sessions
    THEN /\ \E r \in close(session[h]) : session' = [session EXCEPT ![h] = r]
         /\ idle_sessions' = idle_sessions \cup {h}
         /\ busy_sessions' = busy_sessions \ {h}
    ELSE UNCHANGED poolVars

get_busy_session(h) == IF h \in busy_sessions THEN h ELSE NoHandle

\* uninit after it has closed every busy session.
uninit_clear ==
    /\ idle_sessions' = {}
    /\ busy_sessions' = {}
    /\ UNCHANGED session
=============================================================================
