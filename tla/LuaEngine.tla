----------------------------- MODULE LuaEngine ------------------------------
(***************************************************************************)
(* The Lua engine of a session (src/src/lua/lua_engine.cpp), with the part *)
(* of BeeSession that owns it: open loads the script and asks it for what  *)
(* it can do, execute starts a coroutine that may yield and be resumed by a *)
(* module later, the script reaches the services through sdk_SvcNotify, and *)
(* close destroys the Lua state with every coroutine in it.                *)
(***************************************************************************)
EXTENDS Integers, Sequences, FiniteSets, SequencesExt

CONSTANTS
    Scripts,           \* what a script does, see ScriptType
    Codes,             \* service codes
    Coroutine,
    MaxOpens           \* bound on the times the session is opened

\* loads: the main chunk ends; early: it calls sdk_SvcNotify; sysinfo and
\* capability: what the two functions of the script are.  A table is the
\* sequence of its entries as lua_next gives them.  An entry may be no table;
\* if it is one, it is the sequence of its pairs.  Keys are compared by their
\* first letters: "svc" stands for every string that begins so, as "desc"
\* does, hence both may occur several times; "other" is any other string,
\* "index" a number and "invalid" a key that is neither.  A code is what is
\* left of it in 32 bits; 0 is the empty description.
Keys == {"svc", "desc", "other", "index", "invalid"}
Pair == [key : Keys, val : Int]
ServiceEntry == [table : BOOLEAN, pairs : Seq(Pair)]

ASSUME ScriptType ==
    \A s \in Scripts :
        /\ s.loads \in BOOLEAN /\ s.early \in BOOLEAN
        /\ s.sysinfo \in {"absent", "fails", "works"}
        /\ s.capability.kind \in {"absent", "fails", "table"}
        /\ s.capability.entries \in Seq(ServiceEntry)

VARIABLES
    script,            \* the script of this session
    session,           \* state_, services_ and capabilities_ of BeeSession
    engine,            \* lua_engine_, or NoEngine
    coroutine,         \* the Lua threads of the state
    opens, panic, result

engineVars == <<script, session, engine, coroutine, opens, panic, result>>

NotInt == -2           \* the value of svc when it is no integer
NotString == -2        \* the value of desc when it is no string
NoEngine == [there |-> FALSE, L |-> FALSE, table |-> FALSE, bee_table_created |-> FALSE]
NewEngine == [NoEngine EXCEPT !.there = TRUE]
ClosedSession == [state |-> "Idle", services |-> {}, capabilities |-> {}]

-----------------------------------------------------------------------------
(* get_capability.                                                         *)

\* One pair of an entry.  lua_tostring of a key that is a number changes the
\* key under lua_next, which then raises an error nobody catches (the table
\* that has the text of that number for another key is left out).
pair(acc, p) ==
    IF ~acc.valid \/ acc.panic THEN acc
    ELSE CASE p.key = "invalid" -> [acc EXCEPT !.valid = FALSE]
           [] p.key = "index" -> [acc EXCEPT !.panic = TRUE]
           [] p.key = "svc" -> IF p.val # NotInt THEN [acc EXCEPT !.code = p.val]
                               ELSE [acc EXCEPT !.valid = FALSE]
           [] p.key = "desc" -> IF p.val # NotString THEN [acc EXCEPT !.desc = p.val # 0]
                                ELSE [acc EXCEPT !.valid = FALSE]
           [] OTHER -> acc

\* Faulty variant: svc_code and svc_desc outlive the entry.
entry_stale(acc, e) ==
    IF ~acc.valid \/ acc.panic THEN acc
    ELSE IF ~e.table THEN [acc EXCEPT !.valid = FALSE]
    ELSE LET r == FoldLeft(pair, acc, e.pairs)
         IN IF r.code # -1 /\ r.desc THEN [r EXCEPT !.caps = Append(@, r.code)] ELSE r

\* One entry: it counts when it has both a code and a description, also when
\* it turns out to be invalid afterwards.
entry(acc, e) ==
    IF ~acc.valid \/ acc.panic THEN acc
    ELSE IF ~e.table THEN [acc EXCEPT !.valid = FALSE]
    ELSE LET r == FoldLeft(pair, [acc EXCEPT !.code = -1, !.desc = FALSE], e.pairs)
         IN IF r.code # -1 /\ r.desc THEN [r EXCEPT !.caps = Append(@, r.code)] ELSE r

get_capability(c) ==
    LET none == [valid |-> TRUE, panic |-> FALSE, code |-> -1, desc |-> FALSE, caps |-> <<>>]
        r == FoldLeft(entry, none, c.entries)
    IN IF c.kind # "table" THEN [none EXCEPT !.valid = FALSE]
       ELSE [r EXCEPT !.valid = @ /\ r.caps # <<>>]

-----------------------------------------------------------------------------
(* open, execute, close.                                                   *)

\* lua_getglobal leaves one value on the stack, nil when there is no such
\* function: the test of the stack's height never fails.
set_sys_info == script.sysinfo = "works"

\* BEE_TABLE of the state is looked up when the flag says it was made.
store_session_panics(e) == e.bee_table_created /\ ~e.table

\* What open answers, with the first step that fails.
open_result(caps) ==
    IF ~script.loads \/ script.early \/ ~set_sys_info THEN "Engine_Script_Error"
    ELSE IF ~caps.valid THEN "Service_Not_Supported"
    ELSE "Success"

reset(e) == [e EXCEPT !.L = FALSE, !.table = FALSE]

\* LuaEngine::open: sdk_SvcNotify during the load finds no BEE_TABLE and fails.
open(e, res) ==
    IF res = "Success" THEN [e EXCEPT !.L = TRUE, !.table = TRUE, !.bee_table_created = TRUE]
    ELSE [reset(e) EXCEPT !.bee_table_created = script.loads /\ ~script.early]

session_engine == NewEngine

\* BeeSession::open.  An error outside a protected call ends the process.
session_open ==
    /\ session.state = "Idle" /\ opens < MaxOpens /\ ~panic
    /\ LET caps == get_capability(script.capability)
           res == open_result(caps)
           e == session_engine
       IN /\ result' = res /\ engine' = open(e, res)
          /\ panic' = /\ script.loads /\ ~script.early
                       /\ (store_session_panics(e) \/ (set_sys_info /\ caps.panic))
          /\ session' = IF panic' \/ res # "Success" THEN session
                        ELSE [session EXCEPT !.state = "Ready", !.capabilities = ToSet(caps.caps)]
    /\ opens' = opens + 1 /\ UNCHANGED <<script, coroutine>>

\* reg_svc
RegSvc(code) ==
    /\ code \in session.capabilities /\ code \notin session.services
    /\ session' = [session EXCEPT !.services = @ \cup {code}]
    /\ UNCHANGED <<script, engine, coroutine, opens, panic, result>>

\* A coroutine runs for the service until it yields, ends or fails.
session_execute(code) ==
    /\ engine.there /\ code \in session.services /\ session.state = "Ready" /\ engine.L /\ ~panic
    /\ \E co \in Coroutine, to \in {"yielded", "none"} :
        coroutine[co] = "none" /\ coroutine' = [coroutine EXCEPT ![co] = to]
    /\ UNCHANGED <<script, session, engine, opens, panic, result>>

\* A module resumes a coroutine; sdk_SvcNotify looks the session up.
Resume(co) ==
    /\ coroutine[co] = "yielded" /\ ~panic
    /\ panic' = ~(engine.L /\ engine.table)
    /\ coroutine' = [coroutine EXCEPT ![co] = "none"]
    /\ UNCHANGED <<script, session, engine, opens, result>>

\* lua_close: the modules that would resume a coroutine go with the state.
all_closed == [co \in Coroutine |-> "none"]

\* BeeSession::close
session_close ==
    /\ session.state = "Ready" /\ ~panic
    /\ engine' = NoEngine /\ coroutine' = all_closed /\ session' = ClosedSession
    /\ UNCHANGED <<script, opens, panic, result>>

EngineInit ==
    /\ script \in Scripts /\ session = ClosedSession /\ engine = NoEngine
    /\ coroutine = [co \in Coroutine |-> "none"]
    /\ opens = 0 /\ panic = FALSE /\ result = "none"

EngineNext ==
    \/ session_open \/ session_close
    \/ \E code \in Codes : RegSvc(code) \/ session_execute(code)
    \/ \E co \in Coroutine : Resume(co)

EngineSpec == EngineInit /\ [][EngineNext]_engineVars

-----------------------------------------------------------------------------
(* Properties.                                                             *)

sound(p) ==
    /\ p.key \notin {"index", "invalid"}
    /\ p.key = "svc" => p.val # NotInt
    /\ p.key = "desc" => p.val # NotString
wellFormed(e) == e.table /\ \A j \in DOMAIN e.pairs : sound(e.pairs[j])

\* Where the last key of a kind is: the later one replaces the earlier one.
last(ps, key) ==
    {j \in DOMAIN ps : ps[j].key = key /\ \A k \in DOMAIN ps : k > j => ps[k].key # key}
has_desc(ps) == \E j \in last(ps, "desc") : ps[j].val # 0
offered(e) ==
    IF has_desc(e.pairs) THEN {e.pairs[j].val : j \in last(e.pairs, "svc")} \ {-1} ELSE {}

all_offered(es) == UNION {offered(es[i]) : i \in DOMAIN es}

\* The session offers the services of those entries of the script's table that
\* have both a code, which -1 is not, and a description, whatever the order of
\* their keys, and no others; and a script is refused for its table only when
\* something in it is of the wrong type or no entry has both.
CapabilityRead ==
    LET es == script.capability.entries
    IN /\ session.state = "Ready" =>
            /\ \A i \in DOMAIN es : wellFormed(es[i])
            /\ session.capabilities = all_offered(es)
       /\ result = "Service_Not_Supported" /\ script.capability.kind = "table" /\ ~panic =>
            (\E i \in DOMAIN es : ~wellFormed(es[i])) \/ all_offered(es) = {}

\* What raises the error: a number for a key, before anything of a wrong type.
raises(ps) == \E j \in DOMAIN ps : ps[j].key = "index" /\ \A k \in 1 .. j - 1 : sound(ps[k])
uncaught(es) ==
    \E i \in DOMAIN es :
        es[i].table /\ raises(es[i].pairs) /\ \A k \in 1 .. i - 1 : wellFormed(es[k])

\* Over any number of openings, only the number that get_capability meets for
\* a key brings the process down: nothing else of a script, a table of any
\* other shape included, raises a Lua error outside a protected call, and no
\* coroutine is resumed in a state that is gone.
NoPanic == panic => script.loads /\ ~script.early /\ uncaught(script.capability.entries)

\* What open reads is right, and it survives what it reads.
EngineInv == CapabilityRead /\ NoPanic
=============================================================================
