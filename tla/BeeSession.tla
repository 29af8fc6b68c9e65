----------------------------- MODULE BeeSession -----------------------------
(***************************************************************************)
(* One session (src/src/session/bee_session.cpp) as a record, and its      *)
(* operations as the sets of records they can lead to: more than one when  *)
(* the state table is read outside its bounds.                             *)
(*                                                                         *)
(* The Lua engine is abstracted to its presence: whether LuaEngine::open   *)
(* succeeds and which capabilities the script reports are inputs.          *)
(***************************************************************************)
EXTENDS SimpleStateMachine

CONSTANTS
    Svcs,       \* BeeService objects of the application
    Codes,      \* service codes
    Sids,       \* values generate_live_session_id can draw
    NoSvc,      \* absent entry of services_
    NoSid,      \* the empty live_session_id_
    SvcCode     \* SvcCode[s]: get_svc_code() of the service s

ASSUME SvcAssumption ==
    /\ SvcCode \in [Svcs -> Codes]
    /\ NoSvc \notin Svcs
    /\ NoSid \notin Sids

SessionTable == {"Idle", "Opening", "Ready", "Closing"}
SessionState == SessionTable \cup {"Invalid"}
SessionInput == {"Open", "Opened", "Execute", "Close", "Closed"}

\* init_state_machine: every other entry is kBeeSessionState_Invalid, which
\* is 5 and not the -1 that switch_state refuses.
session_table ==
    [s \in SessionTable |-> [i \in SessionInput |->
        CASE s = "Idle"    /\ i = "Open"    -> "Opening"
          [] s = "Opening" /\ i = "Opened"  -> "Ready"
          [] s = "Opening" /\ i = "Close"   -> "Closing"
          [] s = "Ready"   /\ i = "Execute" -> "Ready"
          [] s = "Ready"   /\ i = "Close"   -> "Closing"
          [] s = "Closing" /\ i = "Closed"  -> "Idle"
          [] OTHER                          -> "Invalid"]]

session_switch(cur, ev) == switch_state(session_table, SessionState, cur, ev)

NoServices == [c \in Codes |-> NoSvc]

Session == [state           : SessionState,
            lua_engine      : BOOLEAN,
            live_session_id : Sids \cup {NoSid},
            services        : [Codes -> Svcs \cup {NoSvc}],
            capabilities    : SUBSET Codes,
            ios             : BOOLEAN]

\* The constructor followed by init_state_machine.
new_session == [state           |-> "Idle",
                lua_engine      |-> FALSE,
                live_session_id |-> NoSid,
                services        |-> NoServices,
                capabilities    |-> {},
                ios             |-> FALSE]

\* open when the engine accepts the script and reports the codes caps.
open(r, sid, caps) ==
    {[r EXCEPT !.state = n, !.lua_engine = TRUE, !.live_session_id = sid,
               !.capabilities = caps, !.ios = TRUE]
        : n \in UNION {session_switch(m, "Opened") : m \in session_switch(r.state, "Open")}}

\* open when LuaEngine::open fails: the state is reset, the engine and the
\* generated id stay behind.
open_failed(r, sid) ==
    [r EXCEPT !.state = "Idle", !.lua_engine = TRUE, !.live_session_id = sid]

\* close up to the release of the engine ...
close_begin(r) ==
    {[r EXCEPT !.state = n, !.lua_engine = FALSE, !.ios = FALSE]
        : n \in session_switch(r.state, "Close")}

\* Faulty variant of close_end: the registered services are not dropped.
close_end_keeps_services(r) ==
    {[r EXCEPT !.state = n, !.live_session_id = NoSid, !.capabilities = {}]
        : n \in session_switch(r.state, "Closed")}

\* ... and its rest.
close_end(r) ==
    {[r EXCEPT !.state = n, !.live_session_id = NoSid,
               !.services = NoServices, !.capabilities = {}]
        : n \in session_switch(r.state, "Closed")}

close(r) == UNION {close_end(m) : m \in close_begin(r)}

\* The tests of execute before it switches the state.
execute_check(r, code) ==
    CASE ~r.lua_engine             -> "Session_Not_Opened"
      [] r.lua_engine /\ r.services[code] = NoSvc -> "Service_Not_Registered"
      [] OTHER                     -> "Success"

execute(r) == {[r EXCEPT !.state = n] : n \in session_switch(r.state, "Execute")}

\* reg_svc: emplace keeps an entry that is already there.
reg_svc_check(r, s) ==
    IF SvcCode[s] \in r.capabilities THEN "Success" ELSE "Service_Not_Supported"

reg_svc(r, s) ==
    IF reg_svc_check(r, s) = "Success" /\ r.services[SvcCode[s]] = NoSvc
    THEN [r EXCEPT !.services[SvcCode[s]] = s]
    ELSE r

\* unreg_svc: the entry of the service's code goes, whoever registered it.
unreg_svc_check(r, s) ==
    IF r.services[SvcCode[s]] = NoSvc THEN "Not_Found" ELSE "Success"

unreg_svc(r, s) == [r EXCEPT !.services[SvcCode[s]] = NoSvc]
=============================================================================
