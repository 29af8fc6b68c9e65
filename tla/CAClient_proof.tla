--------------------------- MODULE CAClient_proof ---------------------------
(***************************************************************************)
(* Proofs about the client that fetches the script, for any number of      *)
(* clients and versions of the script, any length of a signature and any   *)
(* number of backup addresses; about the engine that reads the script, for *)
(* any table of services; about the peer connections of a script; and      *)
(* about the logger, for any threads, sizes and number of volumes.         *)
(***************************************************************************)
EXTENDS CAClient, LuaEngine, LuaWebrtc, Logger, DataLemmas

-----------------------------------------------------------------------------
(* The inductive invariant.                                                *)

PCs == CAStates \cup {"none", "created", "Finished", "Invalid"}

ClientRecord ==
    [pc : PCs, posted : BOOLEAN, pending : BOOLEAN, late : BOOLEAN, connected : BOOLEAN,
     backup : BOOLEAN, server_public_key : {<<>>, ServerKey}, md5 : Nat]

PromiseFields ==
    promise = [armed |-> promise.armed, set |-> promise.set, ec |-> promise.ec,
               honored |-> promise.honored]

\* The md5 a client was told is that of a version published by then.
Told(r) == r.md5 <= published

ClientsInv ==
    /\ client \in [Client -> ClientRecord]
    /\ \A c \in Client : Told(client[c])

VersionsInv ==
    /\ lua \in Nat /\ lua_md5 \in Nat
    /\ published \in Nat /\ published >= 2

\* While start may still return, a promise kept with Success has a script
\* behind it.  A start that has failed keeps it without.
PromiseInv ==
    /\ PromiseFields
    /\ app \notin {"stopped", "crashed"} /\ promise.set /\ promise.ec = "Success" => lua # NoLua

\* What BeeEntrance holds, which every answer of a client must keep.
EntranceInv == VersionsInv /\ PromiseInv /\ ScriptNotBehindMd5 /\ StartHasScript

IInv == ClientsInv /\ EntranceInv

-----------------------------------------------------------------------------
(* What the steps have in common.                                          *)

\* A client that is changed into one the invariant allows.
LEMMA ClientChanged ==
    ASSUME ClientsInv, NEW STATE c, NEW STATE r, client' = [client EXCEPT ![c] = r],
           c \in Client => r \in ClientRecord /\ r.md5 <= published, UNCHANGED published
    PROVE  ClientsInv'
<1>1. client' \in [Client -> ClientRecord]
  BY DEF ClientsInv
<1>2. ASSUME NEW d \in Client PROVE client'[d].md5 <= published
  BY DEF ClientsInv, Told
<1> QED BY <1>1, <1>2 DEF ClientsInv, Told

\* The next state of the machine changes no md5 by itself.
LEMMA SwitchKeeps ==
    ASSUME ClientsInv, NEW c \in Client, NEW STATE d, NEW STATE upd,
           d.next \in PCs, upd \in ClientRecord, upd.md5 <= published,
           switch_to_next(c, d, upd), UNCHANGED published
    PROVE  ClientsInv'
<1> DEFINE r == IF d.next \in CAStates
                THEN [upd EXCEPT !.pc = d.next, !.pending = FALSE, !.posted = TRUE]
                ELSE [upd EXCEPT !.pc = d.next, !.pending = FALSE]
<1>1. client' = [client EXCEPT ![c] = r]
  BY DEF switch_to_next
<1>2. r \in ClientRecord /\ r.md5 = upd.md5
  BY DEF ClientRecord
<1> HIDE DEF r
<1> QED BY <1>1, <1>2, ClientChanged

\* A promise that is honored with Success has a script behind it.
LEMMA HonorKeeps ==
    ASSUME PromiseInv, NEW STATE ec, honor(ec), UNCHANGED app,
           ec = "Success" => lua' # NoLua, lua # NoLua => lua' # NoLua
    PROVE  PromiseInv'
<1>1. CASE promise.honored \/ promise.set
  BY <1>1 DEF PromiseInv, PromiseFields, honor
<1>2. CASE ~(promise.honored \/ promise.set)
  <2>1. promise' = [armed |-> promise.armed, set |-> TRUE, ec |-> ec, honored |-> promise.honored]
    BY <1>2 DEF PromiseInv, PromiseFields, honor
  <2> QED BY <2>1 DEF PromiseInv, PromiseFields
<1> QED BY <1>1, <1>2

\* The same when there is a promise of start at all.
LEMMA HonorInitKeeps ==
    ASSUME PromiseInv, NEW STATE ec, honor_init_promise(ec), UNCHANGED app,
           ec = "Success" => lua' # NoLua, lua # NoLua => lua' # NoLua
    PROVE  PromiseInv'
<1>1. CASE init_promise
  BY <1>1, HonorKeeps DEF honor_init_promise
<1>2. CASE ~init_promise
  BY <1>2 DEF honor_init_promise, PromiseInv, PromiseFields
<1> QED BY <1>1, <1>2

\* Nothing of BeeEntrance changes.
LEMMA EntranceKept ==
    ASSUME EntranceInv, UNCHANGED entranceVars, UNCHANGED <<app, published>>
    PROVE  EntranceInv'
BY DEF EntranceInv, VersionsInv, PromiseInv, PromiseFields, ScriptNotBehindMd5, StartHasScript,
       entranceVars

\* An error leaves a script, or finds the local one, or reports itself.
LEMMA OutputKeeps ==
    ASSUME EntranceInv, NEW STATE ec, output(ec), UNCHANGED <<app, published>>
    PROVE  EntranceInv'
<1>1. CASE ec \in {"Success", "State_Machine_Finished"}
  BY <1>1, EntranceKept DEF output
<1>2. ASSUME ec \notin {"Success", "State_Machine_Finished"}, NEW found \in BOOLEAN,
             handle_ca_data_failed(ec, found)
      PROVE  EntranceInv'
  <2>1. /\ lua' = IF lua = NoLua /\ found THEN LocalLua ELSE lua
        /\ honor_init_promise(IF lua = NoLua /\ found THEN "Success" ELSE ec)
        /\ UNCHANGED <<lua_md5, gslb_key>>
    BY <1>2 DEF handle_ca_data_failed
  <2>2. PromiseInv'
    BY <1>2, <2>1, HonorInitKeeps DEF EntranceInv, NoLua, LocalLua
  <2>3. VersionsInv' /\ ScriptNotBehindMd5' /\ StartHasScript'
    BY <2>1 DEF EntranceInv, VersionsInv, ScriptNotBehindMd5, StartHasScript, NoLua, LocalLua
  <2> QED BY <2>2, <2>3 DEF EntranceInv
<1> QED BY <1>1, <1>2 DEF output

\* A new script comes with the md5 of a version that was published before it.
LEMMA DataKeeps ==
    ASSUME EntranceInv, NEW STATE md5, md5 \in Nat, md5 <= published,
           handle_ca_data(published, md5), UNCHANGED <<app, published>>
    PROVE  EntranceInv'
<1>1. /\ lua' = published /\ lua_md5' = md5 /\ gslb_key' = md5
      /\ honor_init_promise("Success")
  BY DEF handle_ca_data
<1>2. VersionsInv' /\ lua' # NoLua
  BY <1>1 DEF EntranceInv, VersionsInv, NoLua
<1>3. PromiseInv'
  BY <1>1, <1>2, HonorInitKeeps DEF EntranceInv
<1>4. ScriptNotBehindMd5' /\ StartHasScript'
  BY <1>1, <1>2 DEF ScriptNotBehindMd5, StartHasScript
<1> QED BY <1>2, <1>3, <1>4 DEF EntranceInv

\* The md5 that is held is that of a version, and so a script is held too.
LEMMA Md5Keeps ==
    ASSUME EntranceInv, check_lua_md5(published), UNCHANGED <<app, published>>
    PROVE  EntranceInv'
<1>1. CASE published = lua_md5
  <2>1. honor_init_promise("Success") /\ UNCHANGED <<lua, lua_md5, gslb_key>>
    BY <1>1 DEF check_lua_md5
  <2>2. lua # NoLua
    BY <1>1 DEF EntranceInv, VersionsInv, ScriptNotBehindMd5, NoLua
  <2>3. PromiseInv'
    BY <2>1, <2>2, HonorInitKeeps DEF EntranceInv
  <2> QED BY <2>1, <2>3 DEF EntranceInv, VersionsInv, ScriptNotBehindMd5, StartHasScript
<1>2. CASE published # lua_md5
  BY <1>2, EntranceKept DEF check_lua_md5
<1> QED BY <1>1, <1>2
-----------------------------------------------------------------------------
(* Every step keeps the invariant.                                         *)

\* The first state has no script and no md5.
LEMMA InitInv == CAInit => IInv
<1> SUFFICES ASSUME CAInit PROVE IInv
  OBVIOUS
<1>1. ClientsInv
  BY DEF CAInit, ClientsInv, ClientRecord, PCs, Told, NewClient, NoLua
<1>2. VersionsInv /\ PromiseInv /\ ScriptNotBehindMd5 /\ StartHasScript
  BY DEF CAInit, VersionsInv, PromiseInv, PromiseFields, ScriptNotBehindMd5, StartHasScript, NoLua
<1> QED BY <1>1, <1>2 DEF IInv, EntranceInv

\* What a handler decides is a state of the machine, or its end.
LEMMA Decided ==
    ASSUME NEW c \in Client
    PROVE  /\ client[c].pc \in DOMAIN switch_to => to(c).next \in PCs
           /\ \A ec : stop_with(ec).next \in PCs
BY DEF to, stop_with, switch_to, PCs, CAStates

\* The machine of a client: the network's answers but those that were read.
LEMMA MachineStep ==
    ASSUME IInv, NEW c \in Client,
           execute_state(c) \/ resolved(c) \/ connected(c) \/ ca_connect_timeout(c)
           \/ sent(c) \/ receive_failed(c)
    PROVE  IInv'
<1>1. /\ client[c] \in ClientRecord /\ client[c].md5 <= published
      /\ published \in Nat /\ published <= published
  BY DEF IInv, ClientsInv, EntranceInv, VersionsInv, Told
<1>2. CASE execute_state(c)
  <2>1. ClientsInv'
    <3>1. PICK r : /\ r \in {[client[c] EXCEPT !.posted = FALSE, !.pending = TRUE],
                             [client[c] EXCEPT !.posted = FALSE]}
                   /\ client' = [client EXCEPT ![c] = r]
      BY <1>2 DEF execute_state
    <3>2. r \in ClientRecord /\ r.md5 = client[c].md5
      BY <1>1, <3>1 DEF ClientRecord
    <3>3. UNCHANGED published
      BY <1>2 DEF execute_state
    <3> QED BY <1>1, <3>1, <3>2, <3>3, ClientChanged DEF IInv
  <2>2. EntranceInv'
    BY <1>2, OutputKeeps, EntranceKept DEF IInv, execute_state
  <2> QED BY <2>1, <2>2 DEF IInv
<1>3. CASE resolved(c)
  <2>1. PICK ok \in BOOLEAN :
           /\ switch_to_next(c, handle_Resolve(c, ok), [client[c] EXCEPT !.backup = ~ok])
           /\ UNCHANGED entranceVars /\ UNCHANGED <<app, published>>
    BY <1>3 DEF resolved
  <2>2. /\ [client[c] EXCEPT !.backup = ~ok] \in ClientRecord
        /\ [client[c] EXCEPT !.backup = ~ok].md5 = client[c].md5
    BY <1>1 DEF ClientRecord
  <2>3. handle_Resolve(c, ok).next \in PCs
    BY <1>3, Decided DEF resolved, Pending, handle_Resolve, switch_to
  <2> QED BY <1>1, <2>1, <2>2, <2>3, SwitchKeeps, EntranceKept DEF IInv
<1>4. CASE connected(c)
  <2> DEFINE upd(outcome) == [client[c] EXCEPT !.connected = (outcome # "fail"),
                                               !.late = (outcome = "fail")]
  <2>1. PICK outcome \in {"ok", "fail", "no_key"} :
           /\ switch_to_next(c, handle_ConnectCA(c, outcome), upd(outcome))
           /\ output(handle_ConnectCA(c, outcome).ec) /\ UNCHANGED <<app, published>>
    BY <1>4 DEF connected
  <2>2. upd(outcome) \in ClientRecord /\ upd(outcome).md5 = client[c].md5
    BY <1>1 DEF ClientRecord
  <2>3. handle_ConnectCA(c, outcome).next \in PCs
    BY <1>4, Decided DEF connected, Pending, handle_ConnectCA, switch_to
  <2> HIDE DEF upd
  <2> QED BY <1>1, <2>1, <2>2, <2>3, SwitchKeeps, OutputKeeps DEF IInv
<1>5. CASE ca_connect_timeout(c)
  <2>1. /\ client' = [client EXCEPT ![c] = [client[c] EXCEPT !.late = FALSE]]
        /\ output("Timeout") /\ UNCHANGED <<app, published>>
    BY <1>5 DEF ca_connect_timeout
  <2>2. /\ [client[c] EXCEPT !.late = FALSE] \in ClientRecord
        /\ [client[c] EXCEPT !.late = FALSE].md5 = client[c].md5
    BY <1>1 DEF ClientRecord
  <2> QED BY <1>1, <2>1, <2>2, ClientChanged, OutputKeeps DEF IInv
<1>6. CASE sent(c)
  <2>1. PICK ok \in BOOLEAN :
           /\ switch_to_next(c, handle_Sent(c, ok), client[c])
           /\ output(handle_Sent(c, ok).ec) /\ UNCHANGED <<app, published>>
    BY <1>6 DEF sent
  <2>2. handle_Sent(c, ok).next \in PCs
    BY <1>6, Decided DEF sent, Pending, Sends, handle_Sent, switch_to
  <2> QED BY <1>1, <2>1, <2>2, SwitchKeeps, OutputKeeps DEF IInv
<1>7. CASE receive_failed(c)
  <2>1. /\ switch_to_next(c, stop_with("Read_Fail"), client[c])
        /\ output("Read_Fail") /\ UNCHANGED <<app, published>>
    BY <1>7 DEF receive_failed
  <2> QED BY <1>1, <2>1, Decided, SwitchKeeps, OutputKeeps DEF IInv
<1> QED BY <1>2, <1>3, <1>4, <1>5, <1>6, <1>7

\* What a message leads to is a state of the machine or its end, and what it
\* was accepted for is the server's.
LEMMA Accepted ==
    ASSUME NEW c \in Client, client[c].pc \in Receives,
           NEW m \in Replies(client[c].pc), NEW fits \in BOOLEAN, NEW STATE d,
           d = Transform_RcvPubKey_To_SendSignature(
                   Transform_RcvSignature_To_RequestShareKey(handle_Rcv(c, m), fits), fits)
    PROVE  /\ d.next \in PCs
           /\ d.next # "Invalid" /\ client[c].pc = "RcvPubKey" => m.body = ServerKey
           /\ d.next # "Invalid" /\ client[c].pc \in {"RcvShareKey", "RcvLua"} => m.body = published
<1> DEFINE h == handle_Rcv(c, m)
<1>1. d = h \/ d.next = "Invalid"
  BY DEF Transform_RcvPubKey_To_SendSignature, Transform_RcvSignature_To_RequestShareKey,
         stop_with
<1>2. h.next \in PCs
  <2>1. CASE checked_header(client[c].pc, m) # "Success"
    BY <2>1 DEF handle_Rcv, stop_with, PCs
  <2>2. CASE checked_header(client[c].pc, m) = "Success" /\ client[c].pc = "RcvPubKey"
    BY <2>2, Decided DEF handle_Rcv, handle_RcvPubKey, switch_to
  <2>3. CASE checked_header(client[c].pc, m) = "Success" /\ client[c].pc = "RcvSignature"
    BY <2>3, Decided DEF handle_Rcv, handle_RcvSignature, switch_to
  <2>4. CASE checked_header(client[c].pc, m) = "Success" /\ client[c].pc = "RcvShareKey"
    BY <2>4, Decided DEF handle_Rcv, handle_RcvShareKey, switch_to, PCs
  <2>5. CASE checked_header(client[c].pc, m) = "Success" /\ client[c].pc = "RcvLua"
    BY <2>5, Decided DEF handle_Rcv, handle_RcvLua, PCs
  <2> QED BY <2>1, <2>2, <2>3, <2>4, <2>5 DEF Receives
<1>3. ASSUME h.next # "Invalid", client[c].pc \in {"RcvPubKey", "RcvShareKey", "RcvLua"}
      PROVE  m.body \in Body(client[c].pc)
  <2>1. checked_header(client[c].pc, m) = "Success"
    BY <1>3 DEF handle_Rcv, stop_with
  <2>2. m.mark /\ m.code = code[client[c].pc]
    BY <2>1 DEF checked_header
  <2>3. m.opens
    <3>1. CASE client[c].pc = "RcvPubKey"
      BY <1>3, <2>1, <3>1 DEF handle_Rcv, handle_RcvPubKey, process_server_rsa_key, stop_with
    <3>2. CASE client[c].pc = "RcvShareKey"
      BY <1>3, <2>1, <3>2 DEF handle_Rcv, handle_RcvShareKey, stop_with
    <3>3. CASE client[c].pc = "RcvLua"
      BY <1>3, <2>1, <3>3 DEF handle_Rcv, handle_RcvLua, stop_with
    <3> QED BY <1>3, <3>1, <3>2, <3>3
  <2> QED BY <2>2, <2>3 DEF Replies
<1> HIDE DEF h
<1>4. d.next \in PCs
  BY <1>1, <1>2 DEF PCs
<1>5. d.next # "Invalid" /\ client[c].pc = "RcvPubKey" => m.body = ServerKey
  BY <1>1, <1>3 DEF Body
<1>6. d.next # "Invalid" /\ client[c].pc \in {"RcvShareKey", "RcvLua"} => m.body = published
  BY <1>1, <1>3 DEF Body
<1> QED BY <1>4, <1>5, <1>6

\* A message that was read.
LEMMA ReceivedStep ==
    ASSUME IInv, NEW c \in Client, received(c)
    PROVE  IInv'
<1> DEFINE pc == client[c].pc
           d(m, fits) == Transform_RcvPubKey_To_SendSignature(
                             Transform_RcvSignature_To_RequestShareKey(handle_Rcv(c, m), fits), fits)
           key(m, fits) == IF pc = "RcvPubKey" /\ d(m, fits).next # "Invalid" THEN m.body
                           ELSE client[c].server_public_key
           md5(m, fits) == IF pc = "RcvShareKey" /\ d(m, fits).next # "Invalid" THEN m.body
                           ELSE client[c].md5
           upd(m, fits) == [client[c] EXCEPT !.server_public_key = key(m, fits),
                                             !.md5 = md5(m, fits)]
<1>1. PICK m \in Replies(pc), fits \in BOOLEAN :
         /\ switch_to_next(c, d(m, fits), upd(m, fits))
         /\ CASE pc = "RcvShareKey" /\ d(m, fits).next # "Invalid" -> check_lua_md5(m.body)
              [] pc = "RcvLua" /\ d(m, fits).next = "Finished" -> handle_ca_data(m.body, client[c].md5)
              [] OTHER -> output(d(m, fits).ec)
  BY DEF received
<1>2. UNCHANGED <<app, published>>
  BY DEF received
<1>3. /\ client[c] \in ClientRecord /\ client[c].md5 <= published
      /\ published \in Nat
  BY DEF IInv, ClientsInv, EntranceInv, VersionsInv, Told
<1>4. /\ d(m, fits).next \in PCs
      /\ d(m, fits).next # "Invalid" /\ pc = "RcvPubKey" => m.body = ServerKey
      /\ d(m, fits).next # "Invalid" /\ pc \in {"RcvShareKey", "RcvLua"} => m.body = published
  <2>1. pc \in Receives
    BY DEF received, Pending
  <2> QED BY <2>1, Accepted
<1> HIDE DEF d
<1>5. /\ md5(m, fits) \in Nat /\ md5(m, fits) <= published
      /\ key(m, fits) \in {<<>>, ServerKey}
  BY <1>3, <1>4 DEF ClientRecord
<1> HIDE DEF key, md5
<1>6. upd(m, fits) \in ClientRecord /\ upd(m, fits).md5 = md5(m, fits)
  BY <1>3, <1>5 DEF ClientRecord
<1> HIDE DEF upd
<1>7. ClientsInv'
  BY <1>1, <1>2, <1>4, <1>5, <1>6, SwitchKeeps DEF IInv
<1>8. EntranceInv'
  <2>1. CASE pc = "RcvShareKey" /\ d(m, fits).next # "Invalid"
    BY <1>1, <1>2, <1>4, <2>1, Md5Keeps DEF IInv
  <2>2. CASE pc = "RcvLua" /\ d(m, fits).next = "Finished"
    <3>1. handle_ca_data(published, client[c].md5)
      BY <1>1, <1>4, <2>2
    <3> QED BY <1>2, <1>3, <3>1, DataKeeps DEF IInv, ClientRecord
  <2>3. CASE /\ ~(pc = "RcvShareKey" /\ d(m, fits).next # "Invalid")
             /\ ~(pc = "RcvLua" /\ d(m, fits).next = "Finished")
    <3>1. output(d(m, fits).ec)
      BY <1>1, <2>3
    <3> QED BY <1>2, <3>1, OutputKeeps DEF IInv
  <2> QED BY <2>1, <2>2, <2>3
<1> QED BY <1>7, <1>8 DEF IInv

\* The update timer makes a client, the io thread starts and stops them.
LEMMA ClientsStep ==
    ASSUME IInv, (\E c \in Client : handle_lua_update_timeout(c)) \/ request_core \/ close_ca_client
    PROVE  IInv'
<1>1. ASSUME NEW c \in Client, handle_lua_update_timeout(c) PROVE IInv'
  <2>1. client' = [client EXCEPT ![c] = [client[c] EXCEPT !.pc = "created"]]
    BY <1>1 DEF handle_lua_update_timeout
  <2>2. /\ [client[c] EXCEPT !.pc = "created"] \in ClientRecord
        /\ [client[c] EXCEPT !.pc = "created"].md5 <= published
    BY DEF IInv, ClientsInv, ClientRecord, PCs, Told
  <2>3. UNCHANGED <<lua, lua_md5, gslb_key, promise, app, published>>
    BY <1>1 DEF handle_lua_update_timeout
  <2>4. ClientsInv'
    BY <2>1, <2>2, <2>3, ClientChanged DEF IInv
  <2> QED BY <2>3, <2>4 DEF IInv, EntranceInv, VersionsInv, PromiseInv, PromiseFields,
                            ScriptNotBehindMd5, StartHasScript
<1>2. CASE request_core
  <2> DEFINE c == Head(tasks)[2]
  <2>1. /\ client' = [client EXCEPT ![c] = [client[c] EXCEPT !.pc = "Resolve", !.posted = TRUE]]
        /\ UNCHANGED <<lua, lua_md5, gslb_key, promise, app, published>>
    BY <1>2 DEF request_core
  <2> HIDE DEF c
  <2>2. c \in Client =>
           /\ [client[c] EXCEPT !.pc = "Resolve", !.posted = TRUE] \in ClientRecord
           /\ [client[c] EXCEPT !.pc = "Resolve", !.posted = TRUE].md5 <= published
    BY DEF IInv, ClientsInv, ClientRecord, PCs, CAStates, Told
  <2>3. ClientsInv'
    BY <2>1, <2>2, ClientChanged DEF IInv
  <2> QED BY <2>1, <2>3 DEF IInv, EntranceInv, VersionsInv, PromiseInv, PromiseFields,
                            ScriptNotBehindMd5, StartHasScript
<1>3. CASE close_ca_client
  <2> DEFINE r == [client[ca_client] EXCEPT !.connected = FALSE, !.pending = FALSE]
  <2>1. /\ UNCHANGED client \/ client' = [client EXCEPT ![ca_client] = r]
        /\ UNCHANGED <<lua, lua_md5, gslb_key, promise, app, published>>
    BY <1>3 DEF close_ca_client, stop_client
  <2>2. ca_client \in Client => r \in ClientRecord /\ r.md5 <= published
    BY DEF IInv, ClientsInv, ClientRecord, Told
  <2> HIDE DEF r
  <2>3. ClientsInv'
    <3>1. CASE UNCHANGED client
      BY <2>1, <3>1 DEF IInv, ClientsInv, Told
    <3>2. CASE client' = [client EXCEPT ![ca_client] = r]
      BY <2>1, <2>2, <3>2, ClientChanged DEF IInv
    <3> QED BY <2>1, <3>1, <3>2
  <2> QED BY <2>1, <2>3 DEF IInv, EntranceInv, VersionsInv, PromiseInv, PromiseFields,
                            ScriptNotBehindMd5, StartHasScript
<1> QED BY <1>1, <1>2, <1>3

\* start, the timer of its promise and what follows of honor.
LEMMA StartStep ==
    ASSUME IInv, start \/ get_core \/ start_returns \/ start_failed \/ handle_timeout \/ honored
    PROVE  IInv'
<1>1. UNCHANGED <<client, lua, lua_md5, gslb_key, published>>
  BY DEF start, get_core, start_returns, start_failed, handle_timeout, honored, entranceVars
<1>2. ClientsInv' /\ VersionsInv' /\ ScriptNotBehindMd5'
  BY <1>1 DEF IInv, EntranceInv, ClientsInv, Told, VersionsInv, ScriptNotBehindMd5
<1>3. PromiseInv' /\ StartHasScript'
  <2>1. CASE start
    BY <1>1, <2>1 DEF IInv, EntranceInv, PromiseInv, PromiseFields, StartHasScript, start
  <2>2. CASE get_core
    BY <1>1, <2>2 DEF IInv, EntranceInv, PromiseInv, PromiseFields, StartHasScript, get_core
  <2>3. CASE start_returns
    BY <1>1, <2>3 DEF IInv, EntranceInv, PromiseInv, PromiseFields, StartHasScript,
                      start_returns, entranceVars
  <2>4. CASE start_failed
    BY <1>1, <2>4 DEF IInv, EntranceInv, PromiseInv, PromiseFields, StartHasScript, start_failed
  <2>5. CASE handle_timeout
    <3>1. honor("Timeout") /\ UNCHANGED <<lua, app>>
      BY <2>5 DEF handle_timeout
    <3> QED BY <3>1, HonorKeeps DEF IInv, EntranceInv, StartHasScript
  <2>6. CASE honored
    BY <1>1, <2>6 DEF IInv, EntranceInv, PromiseInv, PromiseFields, StartHasScript, honored
  <2> QED BY <2>1, <2>2, <2>3, <2>4, <2>5, <2>6
<1> QED BY <1>2, <1>3 DEF IInv, EntranceInv

\* The server publishes.
LEMMA PublishStep ==
    ASSUME IInv, publish
    PROVE  IInv'
<1>1. published' = published + 1 /\ UNCHANGED <<client, lua, lua_md5, gslb_key, promise, app>>
  BY DEF publish, entranceVars
<1>2. ClientsInv'
  BY <1>1 DEF IInv, ClientsInv, Told, ClientRecord, EntranceInv, VersionsInv
<1> QED BY <1>1, <1>2 DEF IInv, EntranceInv, VersionsInv, PromiseInv, PromiseFields,
                          ScriptNotBehindMd5, StartHasScript

\* Every step of the specification keeps the invariant.
LEMMA NextInv ==
    ASSUME IInv, [CANext]_caVars
    PROVE  IInv'
<1>1. CASE CANext
  <2>1. ASSUME NEW c \in Client, ClientStep(c) PROVE IInv'
    BY <2>1, ClientsStep, MachineStep, ReceivedStep DEF ClientStep
  <2>2. CASE IoStep \/ AppStep
    BY <2>2, ClientsStep, StartStep DEF IoStep, AppStep
  <2>3. CASE publish
    BY <2>3, PublishStep
  <2> QED BY <1>1, <2>1, <2>2, <2>3 DEF CANext
<1>2. CASE UNCHANGED caVars
  BY <1>2 DEF caVars, IInv, ClientsInv, Told, EntranceInv, VersionsInv, PromiseInv, PromiseFields,
              ScriptNotBehindMd5, StartHasScript
<1> QED BY <1>1, <1>2

-----------------------------------------------------------------------------
(* The theorems.                                                           *)

\* The script BeeEntrance runs is never older than the md5 it is compared by,
\* whichever of any number of clients answers last and whatever is published
\* in between (handle_ca_data, check_lua_md5).
THEOREM ScriptCurrent == CASpec => []ScriptNotBehindMd5
<1>1. IInv /\ [CANext]_caVars => IInv'
  BY NextInv
<1>2. IInv => ScriptNotBehindMd5
  BY DEF IInv, EntranceInv
<1> QED BY InitInv, <1>1, <1>2, PTL DEF CASpec

\* start returns Success only with a script to run, whatever the clients, the
\* timer of its promise and a start that fails make of that promise.
THEOREM StartedWithScript == CASpec => []StartHasScript
<1>1. IInv /\ [CANext]_caVars => IInv'
  BY NextInv
<1>2. IInv => StartHasScript
  BY DEF IInv, EntranceInv
<1> QED BY InitInv, <1>1, <1>2, PTL DEF CASpec

-----------------------------------------------------------------------------
(* The peer connections of a script, for any number of them, any callbacks *)
(* and any bounds.                                                         *)

PeerRecord ==
    [obj : BOOLEAN, closed : BOOLEAN, service : BOOLEAN, connection : {"none", "open"},
     callbacks : SUBSET Events, sdp : BOOLEAN, role : {"offer", "answer"},
     source : {"default", "set"}, receiver : BOOLEAN, renderer : BOOLEAN,
     pending : Nat, asked : Nat, sdps : Nat, called : SUBSET Events]

Invoked == {"open", "create_offer", "create_answer", "set_remote_desc", "close", "get_stats",
            "set_video_source", "set_audio_source", "get_audio_input_level", "get_audio_output_level"}
Used == {"start_renderer", "stop_renderer"}
Posts == [h : Peer, what : Events \cup {"sdp"}]

CallOK ==
    /\ call = [op |-> call.op, h |-> call.h, ret |-> call.ret, video |-> call.video]
    /\ call.op \in {None} \cup Invoked \cup Used /\ call.video \in BOOLEAN
    /\ call.op # None => call.h \in Peer
    /\ call.op = None \/ call.op \in Used => call.ret = None

\* The connection that is being opened was never closed, so that what its failure
\* resets had not been silenced.
RtcInv ==
    /\ peer \in [Peer -> PeerRecord] /\ posted \in Seq(Posts)
    /\ CallOK
    /\ call.op = "open" => ~peer[call.h].closed

\* What the script was told of p is what it was told of q.
Mute(p, q) == q.sdps = p.sdps /\ q.called = p.called
Silent == \A h \in Peer : peer[h].closed => Mute(peer[h], peer'[h])

\* A step that closes nothing and tells the script nothing.
Tells(p, q) == q \in PeerRecord /\ (q.closed <=> p.closed) /\ Mute(p, q)

\* What the steps change of a connection.
LEMMA Changes ==
    ASSUME NEW p \in PeerRecord
    PROVE  /\ \A n \in Nat, b \in BOOLEAN :
                  Tells(p, [p EXCEPT !.role = "offer", !.pending = n, !.receiver = b])
           /\ \A n \in Nat : Tells(p, [p EXCEPT !.role = "answer", !.pending = n])
           /\ \A n \in Nat : Tells(p, [p EXCEPT !.sdp = TRUE, !.asked = n])
           /\ \A n \in Nat : Tells(p, [p EXCEPT !.pending = n])
           /\ \A b \in BOOLEAN : Tells(p, [p EXCEPT !.receiver = b])
           /\ Tells(p, [p EXCEPT !.receiver = FALSE, !.renderer = FALSE])
           /\ \A E \in SUBSET Events : Tells(p, [p EXCEPT !.callbacks = E])
           /\ \A b \in BOOLEAN : Tells(p, [p EXCEPT !.renderer = b])
<1> USE DEF Tells, Mute, PeerRecord
<1>1. ASSUME NEW n \in Nat, NEW b \in BOOLEAN
      PROVE  Tells(p, [p EXCEPT !.role = "offer", !.pending = n, !.receiver = b])
  OBVIOUS
<1>2. ASSUME NEW n \in Nat
      PROVE  /\ Tells(p, [p EXCEPT !.role = "answer", !.pending = n])
             /\ Tells(p, [p EXCEPT !.sdp = TRUE, !.asked = n]) /\ Tells(p, [p EXCEPT !.pending = n])
  OBVIOUS
<1>3. ASSUME NEW b \in BOOLEAN
      PROVE  Tells(p, [p EXCEPT !.receiver = b]) /\ Tells(p, [p EXCEPT !.renderer = b])
  OBVIOUS
<1>4. Tells(p, [p EXCEPT !.receiver = FALSE, !.renderer = FALSE])
  OBVIOUS
<1>5. ASSUME NEW E \in SUBSET Events PROVE Tells(p, [p EXCEPT !.callbacks = E])
  OBVIOUS
<1> HIDE DEF Tells, Mute, PeerRecord
<1> QED BY <1>1, <1>2, <1>3, <1>4, <1>5

\* The fields the steps read.
LEMMA Fields ==
    ASSUME NEW p \in PeerRecord
    PROVE  /\ p.pending \in Nat /\ p.asked \in Nat /\ p.sdps \in Nat
           /\ p.pending + 1 \in Nat /\ p.asked + 1 \in Nat /\ (p.pending > 0 => p.pending - 1 \in Nat)
           /\ p.receiver \in BOOLEAN /\ \A b \in BOOLEAN : (p.receiver \/ b) \in BOOLEAN
BY DEF PeerRecord

LEMMA InnerTells ==
    ASSUME NEW c, c.op \in Invoked, c.video \in BOOLEAN, NEW p \in PeerRecord, NEW ok \in BOOLEAN
    PROVE  Tells(p, inner(c, p, ok).p)
<1> USE DEF Tells, Mute, PeerRecord, Result
<1>1. CASE c.op = "open"
  BY <1>1 DEF inner, create_webrtc_peer_connection
<1>2. CASE c.op = "create_offer"
  <2> DEFINE n == p.pending + 1
             b == p.receiver \/ c.video
             q == [p EXCEPT !.role = "offer", !.pending = n, !.receiver = b]
  <2>1. Tells(p, q)
    <3>1. n \in Nat /\ b \in BOOLEAN
      BY Fields
    <3> HIDE DEF n, b, Tells, Mute, PeerRecord
    <3> QED BY <3>1, Changes
  <2>2. inner(c, p, ok).p \in {p, q}
    BY <1>2 DEF inner, inner_create_offer
  <2> QED BY <2>1, <2>2
<1>3. CASE c.op = "create_answer"
  <2> DEFINE n == p.pending + 1
             q == [p EXCEPT !.role = "answer", !.pending = n]
  <2>1. Tells(p, q)
    <3>1. n \in Nat
      BY Fields
    <3> HIDE DEF n, Tells, Mute, PeerRecord
    <3> QED BY <3>1, Changes
  <2>2. inner(c, p, ok).p \in {p, q}
    BY <1>3 DEF inner, inner_create_answer, inner_set_remote_desc
  <2> QED BY <2>1, <2>2
<1>4. CASE c.op = "close"
  BY <1>4 DEF inner, inner_close, drop_receiver
<1>5. CASE c.op \in {"set_video_source", "set_audio_source"}
  BY <1>5 DEF inner, inner_set_video_source, inner_set_audio_source
<1>6. CASE c.op \in {"set_remote_desc", "get_stats", "get_audio_input_level", "get_audio_output_level"}
  BY <1>6 DEF inner, inner_set_remote_desc, inner_get_stats, inner_get_audio_input_level,
              inner_get_audio_output_level
<1> QED BY <1>1, <1>2, <1>3, <1>4, <1>5, <1>6 DEF Invoked

\* A step on one connection that tells nothing keeps the invariant.
LEMMA OneMute ==
    ASSUME RtcInv, NEW h \in Peer, NEW q, Tells(peer[h], q), peer' = [peer EXCEPT ![h] = q]
    PROVE  /\ peer' \in [Peer -> PeerRecord] /\ Silent
           /\ \A k \in Peer : peer'[k].closed <=> peer[k].closed
BY DEF RtcInv, Tells, Silent, Mute

LEMMA MuteItself == ASSUME RtcInv, UNCHANGED peer PROVE Silent
BY DEF Silent, Mute

LEMMA PostsEvent ==
    ASSUME RtcInv, NEW h \in Peer, NEW what \in Events \cup {"sdp"}, post_event(h, what)
    PROVE  posted' \in Seq(Posts)
<1>1. [h |-> h, what |-> what] \in Posts
  BY DEF Posts
<1> QED BY <1>1, AppendProperties DEF RtcInv, post_event

\* The signaling thread: the function it runs for the io thread, and the observer.
LEMMA SignalingStep ==
    ASSUME RtcInv, RtcInvoked \/ RtcObserver \/ \E h \in Peer : RtcDescribed(h)
    PROVE  RtcInv' /\ Silent
<1>1. ASSUME NEW ok \in BOOLEAN, invoked(ok) PROVE RtcInv' /\ Silent
  <2>1. call.h \in Peer /\ call.op \in Invoked /\ call.video \in BOOLEAN
    BY <1>1 DEF RtcInv, CallOK, Used, invoked
  <2> DEFINE q == inner(call, peer[call.h], ok).p
  <2>2. Tells(peer[call.h], q)
    BY <2>1, InnerTells DEF RtcInv
  <2>3. peer' = [peer EXCEPT ![call.h] = q]
    BY <1>1 DEF invoked
  <2> HIDE DEF q
  <2>4. peer' \in [Peer -> PeerRecord] /\ Silent /\ \A k \in Peer : peer'[k].closed <=> peer[k].closed
    BY <2>1, <2>2, <2>3, OneMute
  <2>5. CallOK' /\ call'.op = call.op /\ call'.h = call.h
    BY <1>1, <2>1 DEF RtcInv, CallOK, Used, Invoked, invoked
  <2> QED BY <1>1, <2>1, <2>4, <2>5 DEF RtcInv, invoked
<1>2. ASSUME NEW h \in Peer, NEW video \in BOOLEAN, OnAddStream(h, video) PROVE RtcInv' /\ Silent
  <2> DEFINE b == peer[h].receiver \/ video
             q == [peer[h] EXCEPT !.receiver = b]
  <2>1. Tells(peer[h], q)
    <3>1. peer[h] \in PeerRecord
      BY DEF RtcInv
    <3>2. b \in BOOLEAN
      BY <3>1, Fields
    <3> HIDE DEF b
    <3> QED BY <3>1, <3>2, Changes
  <2>2. peer' = [peer EXCEPT ![h] = q]
    BY <1>2 DEF OnAddStream, RtcInv
  <2> HIDE DEF q
  <2>3. peer' \in [Peer -> PeerRecord] /\ Silent /\ \A k \in Peer : peer'[k].closed <=> peer[k].closed
    BY <2>1, <2>2, OneMute
  <2>4. posted' \in Seq(Posts)
    BY <1>2, PostsEvent DEF OnAddStream, Events
  <2> QED BY <1>2, <2>3, <2>4 DEF RtcInv, CallOK, OnAddStream, Invoked
<1>3. ASSUME NEW h \in Peer, OnRemoveStream(h) PROVE RtcInv' /\ Silent
  <2> DEFINE q == [peer[h] EXCEPT !.receiver = FALSE, !.renderer = FALSE]
  <2>1. Tells(peer[h], q)
    <3>1. peer[h] \in PeerRecord
      BY DEF RtcInv
    <3> QED BY <3>1, Changes
  <2>2. peer' = [peer EXCEPT ![h] = q]
    BY <1>3 DEF OnRemoveStream, drop_receiver, RtcInv
  <2> HIDE DEF q
  <2>3. peer' \in [Peer -> PeerRecord] /\ Silent /\ \A k \in Peer : peer'[k].closed <=> peer[k].closed
    BY <2>1, <2>2, OneMute
  <2>4. CallOK' /\ UNCHANGED <<call, posted>> /\ (call.op = "open" => call.h \in Peer)
    BY <1>3 DEF RtcInv, CallOK, OnRemoveStream, None
  <2> QED BY <2>3, <2>4 DEF RtcInv
<1>4. ASSUME NEW h \in Peer,
             OnIceCandidate(h) \/ OnIceGatheringChange(h) \/ OnIceConnectionChange(h)
      PROVE  RtcInv' /\ Silent
  <2>1. posted' \in Seq(Posts) /\ UNCHANGED <<peer, call>>
    BY <1>4, PostsEvent DEF OnIceCandidate, OnIceGatheringChange, OnIceConnectionChange, Events
  <2> QED BY <2>1, MuteItself DEF RtcInv, CallOK
<1>5. ASSUME NEW h \in Peer, RtcDescribed(h) PROVE RtcInv' /\ Silent
  <2>0. described(h) /\ post_event(h, "sdp")
    BY <1>5 DEF RtcDescribed, OnSuccess, OnFailure
  <2> DEFINE n == peer[h].pending - 1
             q == [peer[h] EXCEPT !.pending = n]
  <2>1. Tells(peer[h], q)
    <3>1. peer[h] \in PeerRecord
      BY DEF RtcInv
    <3>2. n \in Nat
      BY <2>0, <3>1, Fields DEF described
    <3> HIDE DEF n
    <3> QED BY <3>1, <3>2, Changes
  <2>2. peer' = [peer EXCEPT ![h] = q]
    BY <2>0 DEF described, RtcInv
  <2> HIDE DEF q
  <2>3. peer' \in [Peer -> PeerRecord] /\ Silent /\ \A k \in Peer : peer'[k].closed <=> peer[k].closed
    BY <2>1, <2>2, OneMute
  <2>4. posted' \in Seq(Posts)
    BY <2>0, PostsEvent
  <2> QED BY <2>0, <2>3, <2>4 DEF RtcInv, CallOK, described, Invoked
<1>6. CASE stop_sink
  <2>0. call.op = "close" /\ UNCHANGED <<call, posted>>
    BY <1>6 DEF stop_sink
  <2>1. call.h \in Peer /\ UNCHANGED <<call, posted>>
    BY <2>0 DEF RtcInv, CallOK, None
  <2> DEFINE q == [peer[call.h] EXCEPT !.renderer = FALSE, !.receiver = FALSE]
  <2>2. Tells(peer[call.h], q)
    <3>1. peer[call.h] \in PeerRecord
      BY <2>1 DEF RtcInv
    <3> QED BY <3>1, Changes
  <2>3. peer' = [peer EXCEPT ![call.h] = q]
    BY <1>6 DEF stop_sink, drop_receiver, RtcInv
  <2> HIDE DEF q
  <2>4. peer' \in [Peer -> PeerRecord] /\ Silent /\ \A k \in Peer : peer'[k].closed <=> peer[k].closed
    BY <2>1, <2>2, <2>3, OneMute
  <2>5. CallOK' /\ call.op # "open"
    BY <1>6, <2>1 DEF RtcInv, CallOK, stop_sink
  <2> QED BY <2>1, <2>4, <2>5 DEF RtcInv
<1> QED BY <1>1, <1>2, <1>3, <1>4, <1>5, <1>6 DEF RtcInvoked, RtcObserver

\* Closing a connection tells the script nothing.
LEMMA ClosesPeer ==
    ASSUME RtcInv, NEW h \in Peer, close_peer(h, [peer[h] EXCEPT !.obj = FALSE])
    PROVE  RtcInv' /\ Silent
<1> DEFINE q == [peer[h] EXCEPT !.obj = FALSE, !.closed = TRUE]
<1>1. q \in PeerRecord /\ Mute(peer[h], q)
  <2>1. peer[h] \in PeerRecord
    BY DEF RtcInv
  <2> QED BY <2>1 DEF PeerRecord, Mute
<1>2. peer' = [peer EXCEPT ![h] = q]
  BY DEF close_peer, RtcInv
<1> HIDE DEF q
<1>3. peer' \in [Peer -> PeerRecord] /\ Silent
  BY <1>1, <1>2 DEF RtcInv, Silent, Mute
<1>4. CallOK' /\ call'.op # "open"
  BY DEF close_peer, CallOK, NoCall, None, Invoked, Used
<1> QED BY <1>3, <1>4 DEF RtcInv, close_peer

\* A function of the script: none but close touches a connection that is not new.
LEMMA ScriptStep ==
    ASSUME RtcInv, RtcScript
    PROVE  RtcInv' /\ Silent
<1>1. ASSUME NEW h \in Peer, NEW op \in (Invoked \ {"open"}) \cup Used, NEW video \in BOOLEAN,
             UNCHANGED <<peer, posted>>,
             call' = [op |-> op, h |-> h, ret |-> None, video |-> video]
      PROVE  RtcInv' /\ Silent
  <2>1. CallOK' /\ call'.op # "open"
    BY <1>1 DEF CallOK, Invoked, Used
  <2> QED BY <1>1, <2>1, MuteItself DEF RtcInv
<1>2. ASSUME NEW h \in Peer, NEW callbacks \in CallbackSets, lua_open(h, callbacks)
      PROVE  RtcInv' /\ Silent
  <2> DEFINE q == [peer[h] EXCEPT !.callbacks = installed(callbacks)]
  <2>1. installed(callbacks) \in SUBSET Events
    BY WebrtcAssumption DEF installed
  <2>2. Tells(peer[h], q) /\ ~q.closed
    <3>1. peer[h] \in PeerRecord
      BY DEF RtcInv
    <3>2. ~peer[h].closed
      BY <1>2 DEF lua_open, new_peer
    <3> QED BY <2>1, <3>1, <3>2, Changes DEF Tells
  <2>3. peer' = [peer EXCEPT ![h] = q]
    BY <1>2 DEF lua_open, RtcInv
  <2>4. ~peer'[h].closed
    BY <2>2, <2>3 DEF RtcInv
  <2> HIDE DEF q
  <2>5. peer' \in [Peer -> PeerRecord] /\ Silent
    BY <2>2, <2>3, OneMute
  <2>6. CallOK' /\ call'.h = h
    BY <1>2 DEF CallOK, lua_open, NoCall, Invoked, Used, None
  <2> QED BY <1>2, <2>4, <2>5, <2>6 DEF RtcInv, lua_open
<1>3. ASSUME NEW h \in Peer, lua_close_peer(h) PROVE RtcInv' /\ Silent
  <2>1. close_peer(h, [peer[h] EXCEPT !.obj = FALSE])
    BY <1>3 DEF lua_close_peer
  <2> QED BY <2>1, ClosesPeer
<1>4. ASSUME NEW h \in Peer, NEW video \in BOOLEAN, lua_create_offer(h, video) PROVE RtcInv' /\ Silent
  <2>1. "create_offer" \in (Invoked \ {"open"}) \cup Used
    BY DEF Invoked
  <2>2. call' = [op |-> "create_offer", h |-> h, ret |-> None, video |-> video]
    BY <1>4 DEF lua_create_offer, NoCall
  <2>3. UNCHANGED <<peer, posted>>
    BY <1>4 DEF lua_create_offer
  <2> QED BY <1>1, <2>1, <2>2, <2>3
<1>5. ASSUME NEW h \in Peer, NEW op \in Invoked \ {"open"}, invokes(h, op) PROVE RtcInv' /\ Silent
  BY <1>1, <1>5 DEF invokes, NoCall, None
<1>6. ASSUME NEW h \in Peer, lua_start_video_renderer(h) \/ lua_stop_video_renderer(h)
      PROVE  RtcInv' /\ Silent
  BY <1>1, <1>6 DEF lua_start_video_renderer, lua_stop_video_renderer, NoCall, Used, None
<1>7. CASE begin_close_module
  BY <1>7, MuteItself DEF RtcInv, CallOK, begin_close_module
<1> QED BY <1>2, <1>3, <1>4, <1>5, <1>6, <1>7
        DEF RtcScript, lua_create_answer, lua_set_remote_dec, lua_get_stats, lua_set_video_source,
            lua_set_audio_source, lua_get_audio_input_level, lua_get_audio_output_level, Invoked

\* The io thread: what Invoke returns to, and what was posted to it.
LEMMA RtcIoStep ==
    ASSUME RtcInv, RtcIo
    PROVE  RtcInv' /\ Silent
<1>1. CASE use_receiver
  <2>1. call.h \in Peer /\ call.op \in Used
    BY <1>1 DEF RtcInv, CallOK, use_receiver, Used, None
  <2>2. CallOK' /\ call'.op # "open" /\ UNCHANGED posted
    BY <1>1 DEF use_receiver, CallOK, NoCall, None, Used, Invoked
  <2>3. CASE UNCHANGED peer
    BY <2>2, <2>3, MuteItself DEF RtcInv
  <2>4. CASE peer[call.h].receiver
    <3> DEFINE q == IF call.op = "start_renderer" THEN start_video_render(peer[call.h])
                    ELSE stop_video_render(peer[call.h])
    <3>1. Tells(peer[call.h], q)
      <4>1. peer[call.h] \in PeerRecord
        BY <2>1 DEF RtcInv
      <4> QED BY <4>1, Changes DEF start_video_render, stop_video_render
    <3>2. peer' = [peer EXCEPT ![call.h] = q]
      BY <1>1, <2>1, <2>4 DEF use_receiver, RtcInv
    <3> HIDE DEF q
    <3> QED BY <2>1, <2>2, <3>1, <3>2, OneMute DEF RtcInv
  <2> QED BY <1>1, <2>3, <2>4 DEF use_receiver
<1>2. CASE returned
  <2>1. call.h \in Peer /\ call.op \in Invoked
    BY <1>2 DEF RtcInv, CallOK, returned, Used, None
  <2> DEFINE p == peer[call.h]
             q == CASE call.op = "open" -> open_answered(p, call.ret)
                    [] call.op = "create_offer" -> create_offer(p, call.ret)
                    [] call.op = "create_answer" -> create_answer(p, call.ret)
                    [] call.op = "close" -> closed_peer(p)
                    [] OTHER -> p
  <2>2. p \in PeerRecord /\ (call.op = "open" => ~p.closed)
    BY <2>1 DEF RtcInv
  <2>3. q \in PeerRecord /\ (p.closed => Mute(p, q))
    <3> HIDE DEF p
    <3>1. new_peer \in PeerRecord
      BY DEF new_peer, PeerRecord
    <3>2. CASE call.op = "open"
      BY <2>2, <3>1, <3>2 DEF open_answered, PeerRecord, Mute
    <3>3. CASE call.op = "create_offer"
      <4> DEFINE n == p.asked + 1
      <4>1. n \in Nat
        BY <2>2, Fields
      <4>2. q \in {p, [p EXCEPT !.sdp = TRUE, !.asked = n]}
        BY <3>3 DEF create_offer
      <4>3. p \in PeerRecord /\ Tells(p, [p EXCEPT !.sdp = TRUE, !.asked = n])
        <5> HIDE DEF n
        <5> QED BY <2>2, <4>1, Changes
      <4> HIDE DEF n, q
      <4> QED BY <4>2, <4>3 DEF Tells, Mute
    <3>4. CASE call.op = "create_answer"
      <4> DEFINE n == p.asked + 1
      <4>1. n \in Nat
        BY <2>2, Fields
      <4>2. q \in {p, [p EXCEPT !.sdp = TRUE, !.asked = n]}
        BY <3>4 DEF create_answer
      <4>3. p \in PeerRecord /\ Tells(p, [p EXCEPT !.sdp = TRUE, !.asked = n])
        <5> HIDE DEF n
        <5> QED BY <2>2, <4>1, Changes
      <4> HIDE DEF n, q
      <4> QED BY <4>2, <4>3 DEF Tells, Mute
    <3>5. CASE call.op = "close"
      BY <2>2, <3>5 DEF closed_peer, PeerRecord, Mute
    <3>6. CASE call.op \notin {"open", "create_offer", "create_answer", "close"}
      BY <2>2, <3>6 DEF Mute
    <3> QED BY <3>2, <3>3, <3>4, <3>5, <3>6
  <2>4. peer' = [peer EXCEPT ![call.h] = q]
    BY <1>2, <2>1 DEF returned, RtcInv
  <2> HIDE DEF q
  <2>5. peer' \in [Peer -> PeerRecord] /\ Silent
    BY <2>1, <2>3, <2>4 DEF RtcInv, Silent, Mute
  <2>6. posted' \in Seq(Posts)
    BY <1>2, <2>1, PostsEvent DEF returned, RtcInv, Events
  <2>7. CallOK' /\ call'.op # "open"
    BY <1>2 DEF returned, CallOK, NoCall, None, Used, Invoked
  <2> QED BY <2>5, <2>6, <2>7 DEF RtcInv
<1>3. CASE on_close_module
  <2>1. CASE \E h \in Peer : close_peer(h, [peer[h] EXCEPT !.obj = FALSE])
    BY <2>1, ClosesPeer
  <2>2. CASE UNCHANGED <<peer, call, posted>>
    BY <2>2, MuteItself DEF RtcInv, CallOK
  <2> QED BY <1>3, <2>1, <2>2 DEF on_close_module
<1>4. CASE run_posted
  <2> DEFINE e == Head(posted)
             p == peer[e.h]
             q == CASE e.what = "sdp" -> on_get_sdp(p)
                    [] e.what = "candidate" -> on_local_ice_candidate(p)
                    [] e.what = "gathering" -> on_local_ice_gathering_changed(p)
                    [] e.what = "connection" -> on_local_ice_connection_changed(p)
                    [] e.what = "media_ready" -> on_media_ready(p)
  <2>1. e \in Posts /\ Tail(posted) \in Seq(Posts)
    BY <1>4, HeadTailProperties DEF RtcInv, run_posted
  <2>2. e.h \in Peer /\ e.what \in Events \cup {"sdp"} /\ p \in PeerRecord
    BY <2>1 DEF Posts, RtcInv
  <2>3. q \in PeerRecord /\ (p.closed => Mute(p, q))
    <3> HIDE DEF p, e
    <3>1. CASE e.what = "sdp"
      BY <2>2, <3>1 DEF on_get_sdp, PeerRecord, Mute
    <3>2. CASE e.what # "sdp"
      <4>1. e.what \in Events /\ q = report_event(p, e.what)
        BY <2>2, <3>2 DEF Events, on_local_ice_candidate, on_local_ice_gathering_changed,
                          on_local_ice_connection_changed, on_media_ready
      <4> DEFINE E == p.called \cup {e.what}
      <4>2. E \in SUBSET Events
        BY <2>2, <4>1 DEF PeerRecord
      <4>3. q \in {p, [p EXCEPT !.called = E]} /\ (p.closed => q = p)
        BY <4>1 DEF report_event
      <4> HIDE DEF E, q
      <4> QED BY <2>2, <4>2, <4>3 DEF PeerRecord, Mute
    <3> QED BY <3>1, <3>2
  <2>4. peer' = [peer EXCEPT ![e.h] = q]
    BY <1>4, <2>2 DEF run_posted, RtcInv
  <2>5. posted' \in Seq(Posts) /\ UNCHANGED call /\ call.op # "open"
    BY <1>4, <2>1 DEF run_posted, NoCall, None
  <2> HIDE DEF q, e
  <2>6. peer' \in [Peer -> PeerRecord] /\ Silent
    BY <2>2, <2>3, <2>4 DEF RtcInv, Silent, Mute
  <2> QED BY <2>5, <2>6 DEF RtcInv, CallOK
<1> QED BY <1>1, <1>2, <1>3, <1>4 DEF RtcIo

LEMMA RtcStep == RtcInv /\ [RtcNext]_rtcVars => RtcInv' /\ Silent
<1> SUFFICES ASSUME RtcInv, [RtcNext]_rtcVars PROVE RtcInv' /\ Silent
  OBVIOUS
<1>1. CASE RtcScript
  BY <1>1, ScriptStep
<1>2. CASE RtcIo
  BY <1>2, RtcIoStep
<1>3. CASE RtcInvoked \/ RtcObserver \/ \E h \in Peer : RtcDescribed(h)
  BY <1>3, SignalingStep
<1>4. CASE render \/ init_service \/ uninit_service \/ (\E h \in Peer : OnFrame(h)) \/ UNCHANGED rtcVars
  <2>1. UNCHANGED <<peer, call, posted>>
    BY <1>4 DEF render, init_service, uninit_service, OnFrame, rtcVars
  <2> QED BY <2>1, MuteItself DEF RtcInv, CallOK
<1> QED BY <1>1, <1>2, <1>3, <1>4 DEF RtcNext

\* A peer connection that was closed calls the script no more: neither what WebRTC's
\* threads posted before, nor what they post while it is being closed, nor the return
\* of a call.
THEOREM ClosedStaysQuiet == RtcSpec => RtcQuiet
<1>1. rtc_init => RtcInv
  <2>1. new_peer \in PeerRecord /\ <<>> \in Seq(Posts)
    BY DEF new_peer, PeerRecord
  <2> QED BY <2>1 DEF rtc_init, RtcInv, CallOK, NoCall, None, Invoked, Used
<1>2. RtcInv /\ [RtcNext]_rtcVars => RtcInv'
  BY RtcStep
<1>3. RtcInv /\ [RtcNext]_rtcVars =>
        [\A h \in Peer : peer[h].closed => UNCHANGED <<peer[h].sdps, peer[h].called>>]_rtcVars
  BY RtcStep DEF Silent, Mute
<1> QED BY <1>1, <1>2, <1>3, PTL DEF RtcSpec, RtcQuiet

-----------------------------------------------------------------------------
(* What the engine reads from a script.                                    *)

\* What get_capability keeps while it reads: what it has of the entry, and
\* the codes it has collected.
Reading == [valid : BOOLEAN, panic : BOOLEAN, code : Int, desc : BOOLEAN, caps : Seq(Int)]
Table == Seq(ServiceEntry)

\* One pair after the other.
LEMMA PairType ==
    ASSUME NEW a \in Reading, NEW p \in Pair
    PROVE  pair(a, p) \in Reading
BY DEF pair, Reading, Pair

LEMMA PairsSteps ==
    ASSUME NEW a \in Reading, NEW e \in Seq(Pair)
    PROVE  \E r : /\ r \in [0 .. Len(e) -> Reading] /\ r[0] = a
                  /\ \A i \in 1 .. Len(e) : r[i] = pair(r[i - 1], e[i])
                  /\ r[Len(e)] = FoldLeft(pair, a, e)
<1> DEFINE V == Reading
           n == Len(e)
           F(g) == [t \in SUBSET (DOMAIN e) |-> IF t = {} THEN a
                        ELSE pair(g[t \ {Max(t)}], e[Max(t)])]
           fold == CHOOSE g : g = F(g)
           step == [p \in (1 .. n) \X V |-> pair(p[2], e[p[1]])]
<1>0. n \in Nat /\ DOMAIN e = 1 .. n /\ (\A i \in 1 .. n : e[i] \in Pair) /\ a \in V
  BY LenProperties, ElementOfSeq
<1>1. FoldLeft(pair, a, e) = fold[DOMAIN e]
  BY DEF FoldLeft, MapThenFoldSet
<1>2. step \in [(1 .. n) \X V -> V]
  <2>1. \A i \in 1 .. n, y \in V : pair(y, e[i]) \in V
    BY <1>0, PairType
  <2> HIDE DEF V, n
  <2> QED BY <2>1
<1> HIDE DEF V
<1>3. \E g : g = F(g)
  <2>1. PICK g \in [SUBSET (1 .. n) -> V] : Recursive(n, a, step, g)
    <3> HIDE DEF n, step
    <3> QED BY <1>0, <1>2, RecursionExists
  <2>2. ASSUME NEW t \in SUBSET (1 .. n), t # {}
        PROVE  step[<<Max(t), g[t \ {Max(t)}]>>] = pair(g[t \ {Max(t)}], e[Max(t)])
    <3>1. Max(t) \in 1 .. n
      BY <1>0, <2>2, MaxUpTo
    <3>2. g[t \ {Max(t)}] \in V
      OBVIOUS
    <3> QED BY <3>1, <3>2
  <2>3. g = F(g)
    <3> HIDE DEF n, step
    <3> QED BY <1>0, <2>1, <2>2 DEF Recursive
  <2> QED BY <2>3
<1>4. PICK f : f = F(f) /\ FoldLeft(pair, a, e) = f[DOMAIN e]
  <2> HIDE DEF F
  <2> QED BY <1>1, <1>3
<1>5. f[{}] = a /\ \A t \in SUBSET (1 .. n) : t # {} =>
         f[t] = pair(f[t \ {Max(t)}], e[Max(t)])
  BY <1>0, <1>4
<1>6. ASSUME NEW t \in SUBSET (1 .. n), t # {}, f[t \ {Max(t)}] \in V
      PROVE  f[t] = step[<<Max(t), f[t \ {Max(t)}]>>]
  <2>1. Max(t) \in 1 .. n
    BY <1>0, <1>6, MaxUpTo
  <2> QED BY <2>1, <1>5, <1>6
<1>7. Unfolds(n, V, a, step, f)
  <2> HIDE DEF step
  <2> QED BY <1>5, <1>6 DEF Unfolds
<1>8. Computes(n, V, a, step, f)
  <2> HIDE DEF n, step
  <2> QED BY <1>0, <1>2, <1>7, RecursionSteps
<1>9. PICK r : OneByOne(n, V, a, step, r) /\ r[n] = f[1 .. n]
  BY <1>8 DEF Computes
<1>10. ASSUME NEW i \in 1 .. n PROVE r[i] = pair(r[i - 1], e[i])
  <2>1. r[i - 1] \in V /\ r[i] = step[<<i, r[i - 1]>>]
    <3> HIDE DEF step, n
    <3> QED BY <1>0, <1>9 DEF OneByOne
  <2> QED BY <2>1
<1> HIDE DEF n, F, step
<1> QED BY <1>0, <1>4, <1>9, <1>10 DEF OneByOne, V, n

\* What is known of an entry once its first i pairs are read: the last code and
\* the last description so far.
LastUpTo(e, key, i) ==
    {j \in 1 .. i : e[j].key = key /\ \A k \in 1 .. i : k > j => e[k].key # key}
SoFar(a, e, i, x) ==
    /\ x.caps = a.caps
    /\ x.valid /\ ~x.panic <=> \A j \in 1 .. i : sound(e[j])
    /\ x.panic => \E j \in 1 .. i : e[j].key = "index" /\ \A k \in 1 .. j - 1 : sound(e[k])
    /\ x.valid /\ ~x.panic =>
           /\ \/ x.code = -1 /\ LastUpTo(e, "svc", i) = {}
              \/ \E j \in LastUpTo(e, "svc", i) : e[j].val = x.code
           /\ x.desc <=> \E j \in LastUpTo(e, "desc", i) : e[j].val # 0

LEMMA LastOne ==
    ASSUME NEW e, NEW i \in Nat, NEW key
    PROVE  LastUpTo(e, key, i + 1) = IF e[i + 1].key = key THEN {i + 1} ELSE LastUpTo(e, key, i)
<1>1. \A j : j \in 1 .. (i + 1) <=> j \in 1 .. i \/ j = i + 1
  OBVIOUS
<1>2. \A j \in 1 .. i : i + 1 > j /\ ~(j > i + 1)
  OBVIOUS
<1>3. ~(i + 1 > i + 1) /\ i + 1 \notin 1 .. i
  OBVIOUS
<1>4. CASE e[i + 1].key = key
  <2>1. \A j \in LastUpTo(e, key, i + 1) : j = i + 1
    BY <1>1, <1>2, <1>4 DEF LastUpTo
  <2>2. i + 1 \in LastUpTo(e, key, i + 1)
    BY <1>1, <1>2, <1>3, <1>4 DEF LastUpTo
  <2> QED BY <1>4, <2>1, <2>2
<1>5. CASE e[i + 1].key # key
  <2>1. ASSUME NEW j PROVE j \in LastUpTo(e, key, i + 1) <=> j \in LastUpTo(e, key, i)
    BY <1>1, <1>5 DEF LastUpTo
  <2> QED BY <1>5, <2>1
<1> QED BY <1>4, <1>5

LEMMA PairRead ==
    ASSUME NEW a \in Reading, NEW e \in Seq(Pair), NEW i \in Nat, i < Len(e),
           NEW x \in Reading, SoFar(a, e, i, x)
    PROVE  SoFar(a, e, i + 1, pair(x, e[i + 1]))
<1> DEFINE p == e[i + 1]
           y == pair(x, p)
<1>1. p \in Pair /\ y \in Reading
  <2>1. i + 1 \in 1 .. Len(e)
    BY LenProperties
  <2> QED BY <2>1, PairType, ElementOfSeq
<1>2. \A j : j \in 1 .. (i + 1) <=> j \in 1 .. i \/ j = i + 1
  OBVIOUS
<1>3. (i + 1) - 1 = i
  OBVIOUS
<1>4. y.caps = a.caps
  BY <1>1 DEF SoFar, pair, Reading
<1>5. y.valid /\ ~y.panic <=> x.valid /\ ~x.panic /\ sound(p)
  BY <1>1 DEF pair, Reading, Pair, Keys, sound
<1>6. ASSUME y.valid, ~y.panic
      PROVE  /\ \/ y.code = -1 /\ LastUpTo(e, "svc", i + 1) = {}
                \/ \E j \in LastUpTo(e, "svc", i + 1) : e[j].val = y.code
             /\ y.desc <=> \E j \in LastUpTo(e, "desc", i + 1) : e[j].val # 0
  <2>0. x.valid /\ ~x.panic /\ sound(p)
    BY <1>5, <1>6
  <2>1. /\ p.key = "svc" => y.code = p.val
        /\ p.key = "desc" => y.desc = (p.val # 0)
        /\ p.key # "svc" => y.code = x.code
        /\ p.key # "desc" => y.desc = x.desc
    BY <1>1, <2>0 DEF pair, Reading, Pair, Keys, sound
  <2>2. /\ LastUpTo(e, "svc", i + 1) = IF p.key = "svc" THEN {i + 1} ELSE LastUpTo(e, "svc", i)
        /\ LastUpTo(e, "desc", i + 1) = IF p.key = "desc" THEN {i + 1} ELSE LastUpTo(e, "desc", i)
    BY LastOne
  <2>3. \/ y.code = -1 /\ LastUpTo(e, "svc", i + 1) = {}
        \/ \E j \in LastUpTo(e, "svc", i + 1) : e[j].val = y.code
    <3>1. CASE p.key = "svc"
      BY <2>1, <2>2, <3>1
    <3>2. CASE p.key # "svc"
      <4>1. y.code = x.code /\ LastUpTo(e, "svc", i + 1) = LastUpTo(e, "svc", i)
        BY <2>1, <2>2, <3>2
      <4> HIDE DEF y
      <4> QED BY <2>0, <4>1 DEF SoFar
    <3> QED BY <3>1, <3>2
  <2>4. y.desc <=> \E j \in LastUpTo(e, "desc", i + 1) : e[j].val # 0
    <3>1. CASE p.key = "desc"
      <4>1. y.desc <=> p.val # 0
        BY <3>1, <2>1
      <4> QED BY <2>2, <3>1, <4>1
    <3>2. CASE p.key # "desc"
      <4>1. y.desc = x.desc /\ LastUpTo(e, "desc", i + 1) = LastUpTo(e, "desc", i)
        BY <2>1, <2>2, <3>2
      <4> HIDE DEF y
      <4> QED BY <2>0, <4>1 DEF SoFar
    <3> QED BY <3>1, <3>2
  <2> QED BY <2>3, <2>4
<1>7. y.valid /\ ~y.panic <=> \A j \in 1 .. (i + 1) : sound(e[j])
  BY <1>2, <1>5 DEF SoFar
<1>8. ASSUME y.panic
      PROVE  \E j \in 1 .. (i + 1) : e[j].key = "index" /\ \A k \in 1 .. j - 1 : sound(e[k])
  <2>1. CASE x.panic
    BY <1>2, <2>1 DEF SoFar
  <2>2. CASE ~x.panic
    <3>1. x.valid /\ p.key = "index"
      <4>1. ~x.valid => y = x
        BY DEF pair
      <4>2. x.valid /\ p.key # "index" => y.panic = x.panic
        BY <1>1, <2>2 DEF pair, Reading
      <4> HIDE DEF y, p
      <4> QED BY <1>8, <2>2, <4>1, <4>2
    <3>2. \A k \in 1 .. i : sound(e[k])
      BY <2>2, <3>1 DEF SoFar
    <3> QED BY <1>2, <1>3, <3>1, <3>2
  <2> QED BY <2>1, <2>2
<1> HIDE DEF y, p
<1> QED BY <1>4, <1>6, <1>7, <1>8 DEF SoFar, y, p

\* What is known of an entry once it is read.
LEMMA PairsRead ==
    ASSUME NEW a \in Reading, a.valid, ~a.panic, a.code = -1, ~a.desc,
           NEW e \in Seq(Pair)
    PROVE  /\ FoldLeft(pair, a, e) \in Reading
           /\ SoFar(a, e, Len(e), FoldLeft(pair, a, e))
<1> DEFINE n == Len(e)
<1>1. PICK r : /\ r \in [0 .. n -> Reading] /\ r[0] = a
               /\ \A i \in 1 .. n : r[i] = pair(r[i - 1], e[i])
               /\ r[n] = FoldLeft(pair, a, e)
  BY PairsSteps
<1> DEFINE S == {i \in 0 .. n : SoFar(a, e, i, r[i])}
<1>2. n \in Nat
  BY LenProperties
<1>3. 0 \in S
  <2>1. 1 .. 0 = {}
    OBVIOUS
  <2>2. LastUpTo(e, "svc", 0) = {} /\ LastUpTo(e, "desc", 0) = {}
    BY <2>1 DEF LastUpTo
  <2>3. SoFar(a, e, 0, a)
    BY <2>1, <2>2 DEF SoFar, Reading
  <2> QED BY <1>1, <1>2, <2>3
<1>4. ASSUME NEW i \in S, i < n PROVE i + 1 \in S
  <2>1. i + 1 \in 1 .. n /\ r[i] \in Reading /\ (i + 1) - 1 = i /\ i \in Nat
    BY <1>1, <1>2, <1>4
  <2>2. SoFar(a, e, i, r[i])
    BY <2>1
  <2>3. SoFar(a, e, i + 1, pair(r[i], e[i + 1]))
    BY <2>1, <2>2, PairRead
  <2>4. r[i + 1] = pair(r[(i + 1) - 1], e[i + 1])
    BY <2>1, <1>1
  <2> QED BY <2>1, <2>3, <2>4, <1>2
<1>5. S = 0 .. n
  <2>1. S \in SUBSET (0 .. n)
    OBVIOUS
  <2> HIDE DEF S, n
  <2> QED BY <2>1, <1>2, <1>3, <1>4, UpTo
<1>6. n \in S
  BY <1>2, <1>5
<1> QED BY <1>1, <1>2, <1>6

\* Nothing of the last entry is left when the next one is read.
fresh(a) == [a EXCEPT !.code = -1, !.desc = FALSE]

LEMMA Fresh ==
    ASSUME NEW a \in Reading
    PROVE  LET b == fresh(a)
           IN /\ b \in Reading /\ b.code = -1 /\ ~b.desc
              /\ b.valid = a.valid /\ b.panic = a.panic /\ b.caps = a.caps
<1> DEFINE m == -1
<1>1. m \in Int
  OBVIOUS
<1>2. fresh(a) = [a EXCEPT !.code = m, !.desc = FALSE]
  BY DEF fresh
<1> HIDE DEF m
<1>3. LET b == [a EXCEPT !.code = m, !.desc = FALSE]
      IN /\ b \in Reading /\ b.code = m /\ ~b.desc
         /\ b.valid = a.valid /\ b.panic = a.panic /\ b.caps = a.caps
  BY <1>1 DEF Reading
<1> QED BY <1>2, <1>3 DEF m

\* One code more.
LEMMA Collects ==
    ASSUME NEW s \in Seq(Int), NEW v \in Int
    PROVE  Append(s, v) \in Seq(Int) /\ ToSet(Append(s, v)) = ToSet(s) \cup {v}
<1>1. /\ Append(s, v) \in Seq(Int) /\ Len(s) \in Nat
      /\ DOMAIN Append(s, v) = 1 .. (Len(s) + 1) /\ DOMAIN s = 1 .. Len(s)
      /\ \A i \in 1 .. Len(s) : Append(s, v)[i] = s[i]
      /\ Append(s, v)[Len(s) + 1] = v
  BY AppendProperties, LenProperties
<1> DEFINE t == Append(s, v)
<1> HIDE DEF t
<1>2. ASSUME NEW x \in ToSet(t) PROVE x \in ToSet(s) \cup {v}
  BY <1>1 DEF ToSet, t
<1>3. ASSUME NEW x \in ToSet(s) \cup {v} PROVE x \in ToSet(t)
  <2>1. CASE x = v
    <3>1. Len(s) + 1 \in DOMAIN t /\ t[Len(s) + 1] = v
      BY <1>1 DEF t
    <3> QED BY <2>1, <3>1 DEF ToSet
  <2>2. CASE x \in ToSet(s)
    <3>1. PICK i \in 1 .. Len(s) : x = s[i]
      BY <2>2, <1>1 DEF ToSet
    <3>2. i \in DOMAIN t /\ t[i] = x
      BY <3>1, <1>1 DEF t
    <3> QED BY <3>2 DEF ToSet
  <2> QED BY <1>3, <2>1, <2>2
<1> QED BY <1>1, <1>2, <1>3 DEF t

LEMMA OneMore ==
    ASSUME NEW r \in Reading
    PROVE  LET x == [r EXCEPT !.caps = Append(@, r.code)]
           IN /\ x \in Reading /\ x.valid = r.valid /\ x.panic = r.panic
              /\ x.caps = Append(r.caps, r.code)
<1>1. r.caps \in Seq(Int) /\ r.code \in Int
  BY DEF Reading
<1>2. Append(r.caps, r.code) \in Seq(Int)
  BY <1>1, Collects
<1> QED BY <1>2 DEF Reading

LEMMA EntryRead ==
    ASSUME NEW a \in Reading, NEW e \in ServiceEntry, a.valid, ~a.panic
    PROVE  LET x == entry(a, e)
           IN /\ x \in Reading
              /\ x.valid /\ ~x.panic <=> wellFormed(e)
              /\ x.panic => e.table /\ raises(e.pairs)
              /\ x.valid /\ ~x.panic => ToSet(x.caps) = ToSet(a.caps) \cup offered(e)
<1> DEFINE ps == e.pairs
           b == fresh(a)
           r == FoldLeft(pair, b, ps)
           x == entry(a, e)
<1>0. ps \in Seq(Pair) /\ e.table \in BOOLEAN
  BY DEF ServiceEntry
<1>1. b \in Reading /\ b.valid /\ ~b.panic /\ b.code = -1 /\ ~b.desc /\ b.caps = a.caps
  BY Fresh
<1>2. r \in Reading /\ SoFar(b, ps, Len(ps), r)
  <2> HIDE DEF b, ps
  <2> QED BY <1>0, <1>1, PairsRead
<1>3. x = IF ~e.table THEN [a EXCEPT !.valid = FALSE]
          ELSE IF r.code # -1 /\ r.desc THEN [r EXCEPT !.caps = Append(@, r.code)] ELSE r
  BY DEF entry, fresh
<1>4. DOMAIN ps = 1 .. Len(ps)
  <2> HIDE DEF ps
  <2> QED BY <1>0, LenProperties
<1>5. CASE ~e.table
  <2>1. x \in Reading /\ ~x.valid /\ ~x.panic
    BY <1>3, <1>5 DEF Reading
  <2> HIDE DEF x
  <2> QED BY <1>5, <2>1 DEF wellFormed, x
<1>6. CASE e.table
  <2> HIDE DEF b, r, x, ps
  <2>1. /\ x \in Reading /\ x.valid = r.valid /\ x.panic = r.panic
        /\ r.code # -1 /\ r.desc => x.caps = Append(a.caps, r.code)
        /\ ~(r.code # -1 /\ r.desc) => x.caps = a.caps
    <3>1. r.caps = a.caps
      BY <1>1, <1>2 DEF SoFar
    <3> QED BY <1>2, <1>3, <1>6, <3>1, OneMore
  <2>2. x.valid /\ ~x.panic <=> wellFormed(e)
    BY <1>2, <1>4, <1>6, <2>1 DEF SoFar, wellFormed, ps
  <2>3. x.panic => e.table /\ raises(ps)
    BY <1>2, <1>4, <1>6, <2>1 DEF SoFar, raises
  <2>4. ASSUME x.valid, ~x.panic
        PROVE  ToSet(x.caps) = ToSet(a.caps) \cup offered(e)
    <3>0. LastUpTo(ps, "svc", Len(ps)) = last(ps, "svc") /\ LastUpTo(ps, "desc", Len(ps)) = last(ps, "desc")
      BY <1>4 DEF LastUpTo, last
    <3>1. /\ \/ r.code = -1 /\ last(ps, "svc") = {}
             \/ \E j \in last(ps, "svc") : ps[j].val = r.code
          /\ r.desc <=> has_desc(ps)
      BY <1>2, <2>1, <2>4, <3>0 DEF SoFar, has_desc
    <3>2. \A j, k \in last(ps, "svc") : j = k
      <4>1. \A j, k \in 1 .. Len(ps) : j = k \/ j > k \/ k > j
        <5>1. Len(ps) \in Nat
          BY <1>0, LenProperties
        <5> QED BY <5>1
      <4> QED BY <1>4, <4>1 DEF last
    <3>3. offered(e) = IF r.code # -1 /\ r.desc THEN {r.code} ELSE {}
      <4>1. \A v \in {ps[j].val : j \in last(ps, "svc")} : v = r.code
        BY <3>1, <3>2
      <4>2. r.code # -1 => r.code \in {ps[j].val : j \in last(ps, "svc")}
        BY <3>1
      <4> QED BY <3>1, <4>1, <4>2 DEF offered, ps
    <3>4. a.caps \in Seq(Int) /\ r.code \in Int
      BY <1>2 DEF Reading
    <3>5. ToSet(Append(a.caps, r.code)) = ToSet(a.caps) \cup {r.code}
      BY <3>4, Collects
    <3> QED BY <2>1, <3>3, <3>5
  <2> QED BY <2>1, <2>2, <2>3, <2>4 DEF x, ps
<1> QED BY <1>0, <1>5, <1>6

LEMMA EntryType ==
    ASSUME NEW a \in Reading, NEW e \in ServiceEntry
    PROVE  entry(a, e) \in Reading
<1> DEFINE ps == e.pairs
           b == fresh(a)
           r == FoldLeft(pair, b, ps)
<1>0. ps \in Seq(Pair)
  BY DEF ServiceEntry
<1>1. b \in Reading
  BY Fresh
<1>2. r \in Reading
  <2> HIDE DEF b, ps
  <2>1. PICK f : f \in [0 .. Len(ps) -> Reading] /\ f[Len(ps)] = r
    BY <1>0, <1>1, PairsSteps
  <2>2. Len(ps) \in 0 .. Len(ps)
    BY <1>0, LenProperties
  <2> HIDE DEF r
  <2> QED BY <2>1, <2>2
<1>3. entry(a, e) = IF ~a.valid \/ a.panic THEN a
                    ELSE IF ~e.table THEN [a EXCEPT !.valid = FALSE]
                    ELSE IF r.code # -1 /\ r.desc THEN [r EXCEPT !.caps = Append(@, r.code)] ELSE r
  BY DEF entry, fresh
<1>4. [a EXCEPT !.valid = FALSE] \in Reading
  BY DEF Reading
<1> HIDE DEF r
<1> QED BY <1>2, <1>3, <1>4, OneMore

\* One entry after the other.
LEMMA EntriesSteps ==
    ASSUME NEW a \in Reading, NEW es \in Table
    PROVE  \E r : /\ r \in [0 .. Len(es) -> Reading] /\ r[0] = a
                  /\ \A i \in 1 .. Len(es) : r[i] = entry(r[i - 1], es[i])
                  /\ r[Len(es)] = FoldLeft(entry, a, es)
<1> DEFINE V == Reading
           n == Len(es)
           F(g) == [t \in SUBSET (DOMAIN es) |-> IF t = {} THEN a
                        ELSE entry(g[t \ {Max(t)}], es[Max(t)])]
           fold == CHOOSE g : g = F(g)
           step == [p \in (1 .. n) \X V |-> entry(p[2], es[p[1]])]
<1>0. n \in Nat /\ DOMAIN es = 1 .. n /\ (\A i \in 1 .. n : es[i] \in ServiceEntry) /\ a \in V
  BY LenProperties, ElementOfSeq DEF Table
<1>1. FoldLeft(entry, a, es) = fold[DOMAIN es]
  BY DEF FoldLeft, MapThenFoldSet
<1>2. step \in [(1 .. n) \X V -> V]
  <2>1. \A i \in 1 .. n, y \in V : entry(y, es[i]) \in V
    BY <1>0, EntryType
  <2> HIDE DEF V, n
  <2> QED BY <2>1
<1> HIDE DEF V
<1>3. \E g : g = F(g)
  <2>1. PICK g \in [SUBSET (1 .. n) -> V] : Recursive(n, a, step, g)
    <3> HIDE DEF n, step
    <3> QED BY <1>0, <1>2, RecursionExists
  <2>2. ASSUME NEW t \in SUBSET (1 .. n), t # {}
        PROVE  step[<<Max(t), g[t \ {Max(t)}]>>] = entry(g[t \ {Max(t)}], es[Max(t)])
    <3>1. Max(t) \in 1 .. n
      BY <1>0, <2>2, MaxUpTo
    <3>2. g[t \ {Max(t)}] \in V
      OBVIOUS
    <3> QED BY <3>1, <3>2
  <2>3. g = F(g)
    <3> HIDE DEF n, step
    <3> QED BY <1>0, <2>1, <2>2 DEF Recursive
  <2> QED BY <2>3
<1>4. PICK f : f = F(f) /\ FoldLeft(entry, a, es) = f[DOMAIN es]
  <2> HIDE DEF F
  <2> QED BY <1>1, <1>3
<1>5. f[{}] = a /\ \A t \in SUBSET (1 .. n) : t # {} =>
         f[t] = entry(f[t \ {Max(t)}], es[Max(t)])
  BY <1>0, <1>4
<1>6. ASSUME NEW t \in SUBSET (1 .. n), t # {}, f[t \ {Max(t)}] \in V
      PROVE  f[t] = step[<<Max(t), f[t \ {Max(t)}]>>]
  <2>1. Max(t) \in 1 .. n
    BY <1>0, <1>6, MaxUpTo
  <2> QED BY <2>1, <1>5, <1>6
<1>7. Unfolds(n, V, a, step, f)
  <2> HIDE DEF step
  <2> QED BY <1>5, <1>6 DEF Unfolds
<1>8. Computes(n, V, a, step, f)
  <2> HIDE DEF n, step
  <2> QED BY <1>0, <1>2, <1>7, RecursionSteps
<1>9. PICK r : OneByOne(n, V, a, step, r) /\ r[n] = f[1 .. n]
  BY <1>8 DEF Computes
<1>10. ASSUME NEW i \in 1 .. n PROVE r[i] = entry(r[i - 1], es[i])
  <2>1. r[i - 1] \in V /\ r[i] = step[<<i, r[i - 1]>>]
    <3> HIDE DEF step, n
    <3> QED BY <1>0, <1>9 DEF OneByOne
  <2> QED BY <2>1
<1> HIDE DEF n, F, step
<1> QED BY <1>0, <1>4, <1>9, <1>10 DEF OneByOne, V, n


\* What is known of the table once its first i entries are read.
Collected(es, i, x) ==
    /\ x.valid /\ ~x.panic <=> \A k \in 1 .. i : wellFormed(es[k])
    /\ x.panic => \E j \in 1 .. i :
           es[j].table /\ raises(es[j].pairs) /\ \A k \in 1 .. j - 1 : wellFormed(es[k])
    /\ x.valid /\ ~x.panic => ToSet(x.caps) = UNION {offered(es[k]) : k \in 1 .. i}

LEMMA EntryCollected ==
    ASSUME NEW es \in Table, NEW i \in Nat, i < Len(es),
           NEW x \in Reading, Collected(es, i, x)
    PROVE  Collected(es, i + 1, entry(x, es[i + 1]))
<1> DEFINE e == es[i + 1]
           y == entry(x, e)
<1>1. e \in ServiceEntry
  <2>1. i + 1 \in 1 .. Len(es)
    BY LenProperties DEF Table
  <2> QED BY <2>1, ElementOfSeq DEF Table
<1>2. \A j : j \in 1 .. (i + 1) <=> j \in 1 .. i \/ j = i + 1
  OBVIOUS
<1>3. (i + 1) - 1 = i
  OBVIOUS
<1>4. CASE ~(x.valid /\ ~x.panic)
  <2>1. y = x
    BY <1>4 DEF entry
  <2> HIDE DEF y
  <2> QED BY <1>2, <1>4, <2>1 DEF Collected, y
<1>5. CASE x.valid /\ ~x.panic
  <2>1. /\ y.valid /\ ~y.panic <=> wellFormed(e)
        /\ y.panic => e.table /\ raises(e.pairs)
        /\ y.valid /\ ~y.panic => ToSet(y.caps) = ToSet(x.caps) \cup offered(e)
    <3> HIDE DEF e
    <3> QED BY <1>1, <1>5, EntryRead
  <2>2. ToSet(x.caps) = UNION {offered(es[k]) : k \in 1 .. i}
    BY <1>5 DEF Collected
  <2>3. UNION {offered(es[k]) : k \in 1 .. (i + 1)}
            = (UNION {offered(es[k]) : k \in 1 .. i}) \cup offered(e)
    BY <1>2
  <2>4. \A k \in 1 .. i : wellFormed(es[k])
    BY <1>5 DEF Collected
  <2> HIDE DEF y
  <2>5. y.panic => \E j \in 1 .. (i + 1) :
           es[j].table /\ raises(es[j].pairs) /\ \A k \in 1 .. j - 1 : wellFormed(es[k])
    BY <1>2, <1>3, <2>1, <2>4
  <2>6. y.valid /\ ~y.panic <=> \A k \in 1 .. (i + 1) : wellFormed(es[k])
    BY <1>2, <2>1, <2>4
  <2>7. y.valid /\ ~y.panic => ToSet(y.caps) = UNION {offered(es[k]) : k \in 1 .. (i + 1)}
    BY <2>1, <2>2, <2>3
  <2> QED BY <2>5, <2>6, <2>7 DEF Collected, y
<1> QED BY <1>4, <1>5

\* What get_capability makes of a table.
LEMMA CapabilitiesRead ==
    ASSUME NEW c, c.kind = "table", c.entries \in Table
    PROVE  LET x == get_capability(c)
           IN /\ x.panic \in BOOLEAN
              /\ x.panic => uncaught(c.entries)
              /\ x.valid /\ ~x.panic =>
                     /\ \A i \in DOMAIN c.entries : wellFormed(c.entries[i])
                     /\ ToSet(x.caps) = all_offered(c.entries)
              /\ ~x.valid /\ ~x.panic =>
                     (\E i \in DOMAIN c.entries : ~wellFormed(c.entries[i])) \/ all_offered(c.entries) = {}
<1> DEFINE none == [valid |-> TRUE, panic |-> FALSE, code |-> -1, desc |-> FALSE, caps |-> <<>>]
           es == c.entries
           n == Len(es)
           z == FoldLeft(entry, none, es)
           x == get_capability(c)
<1>1. none \in Reading /\ none.valid /\ ~none.panic /\ ToSet(none.caps) = {}
  BY DEF Reading, ToSet
<1>2. x = [z EXCEPT !.valid = @ /\ z.caps # <<>>]
  BY DEF get_capability
<1> HIDE DEF none, x
<1>3. PICK r : /\ r \in [0 .. n -> Reading] /\ r[0] = none
               /\ \A i \in 1 .. n : r[i] = entry(r[i - 1], es[i])
               /\ r[n] = z
  BY <1>1, EntriesSteps
<1> DEFINE S == {i \in 0 .. n : Collected(es, i, r[i])}
<1>4. n \in Nat /\ DOMAIN es = 1 .. n
  BY LenProperties DEF Table
<1>5. 0 \in S
  <2>1. 1 .. 0 = {}
    OBVIOUS
  <2>2. UNION {offered(es[k]) : k \in 1 .. 0} = {}
    BY <2>1
  <2> QED BY <1>1, <1>3, <1>4, <2>1, <2>2 DEF Collected
<1>6. ASSUME NEW i \in S, i < n PROVE i + 1 \in S
  <2>1. i + 1 \in 1 .. n /\ r[i] \in Reading /\ (i + 1) - 1 = i /\ i \in Nat
    BY <1>3, <1>4, <1>6
  <2>2. Collected(es, i, r[i])
    BY <2>1
  <2>3. Collected(es, i + 1, entry(r[i], es[i + 1]))
    <3>1. i < Len(es)
      BY <1>6
    <3> HIDE DEF S, es
    <3> QED BY <2>1, <2>2, <3>1, EntryCollected DEF es
  <2>4. r[i + 1] = entry(r[(i + 1) - 1], es[i + 1])
    BY <2>1, <1>3
  <2> QED BY <2>1, <2>3, <2>4, <1>4
<1>7. n \in S
  <2>1. S \in SUBSET (0 .. n)
    OBVIOUS
  <2>2. S = 0 .. n
    <3> HIDE DEF S, n
    <3> QED BY <2>1, <1>4, <1>5, <1>6, UpTo
  <2> QED BY <2>2, <1>4
<1>8. Collected(es, n, z) /\ z \in Reading
  BY <1>3, <1>4, <1>7
<1> HIDE DEF z
<1>9. x.panic = z.panic /\ x.caps = z.caps /\ x.panic \in BOOLEAN
      /\ (x.valid <=> z.valid /\ z.caps # <<>>)
  BY <1>2, <1>8 DEF Reading
<1>10. z.caps = <<>> => ToSet(z.caps) = {}
  BY DEF ToSet
<1> HIDE DEF es, n
<1>11. x.panic => uncaught(es)
  BY <1>4, <1>8, <1>9 DEF Collected, uncaught
<1>12. z.valid /\ ~z.panic =>
          (\A i \in DOMAIN es : wellFormed(es[i])) /\ ToSet(z.caps) = all_offered(es)
  BY <1>4, <1>8 DEF Collected, all_offered
<1>13. ~z.valid /\ ~z.panic => \E i \in DOMAIN es : ~wellFormed(es[i])
  BY <1>4, <1>8 DEF Collected
<1> QED BY <1>9, <1>10, <1>11, <1>12, <1>13 DEF es, x

-----------------------------------------------------------------------------
(* The engine of a session.                                                *)

\* Where the session is ready its script is loaded and bound to it; where a
\* coroutine waits the session is ready.
IEngine ==
    /\ script \in Scripts
    /\ session.state \in {"Idle", "Ready"}
    /\ session = [state |-> session.state, services |-> session.services,
                  capabilities |-> session.capabilities]
    /\ session.state = "Ready" => engine.L /\ engine.table
    /\ \A co \in Coroutine : coroutine[co] = "yielded" => session.state = "Ready"
    /\ coroutine = [co \in Coroutine |-> coroutine[co]]
    /\ EngineInv

LEMMA EngineStarts == EngineInit => IEngine
BY DEF EngineInit, IEngine, EngineInv, CapabilityRead, NoPanic, ClosedSession

LEMMA ScriptKnown ==
    ASSUME script \in Scripts
    PROVE  /\ script.loads \in BOOLEAN /\ script.early \in BOOLEAN
           /\ script.capability.kind \in {"absent", "fails", "table"}
           /\ script.capability.entries \in Table
BY ScriptType DEF Table

LEMMA EngineOpens == IEngine /\ session_open => IEngine'
<1> SUFFICES ASSUME IEngine, session_open PROVE IEngine'
  OBVIOUS
<1> DEFINE c == script.capability
           caps == get_capability(c)
           res == open_result(caps)
           e == session_engine
<1>1. /\ session.state = "Idle" /\ script' = script /\ coroutine' = coroutine
      /\ engine' = open(e, res) /\ ~panic
      /\ panic' = /\ script.loads /\ ~script.early
                   /\ (store_session_panics(e) \/ (set_sys_info /\ caps.panic))
      /\ session' = IF panic' \/ res # "Success" THEN session
                    ELSE [session EXCEPT !.state = "Ready", !.capabilities = ToSet(caps.caps)]
  BY DEF session_open
<1>2. \A co \in Coroutine : coroutine[co] # "yielded"
  BY <1>1 DEF IEngine
<1>3. ~store_session_panics(e)
  BY DEF store_session_panics, session_engine, NewEngine, NoEngine
<1>4. res = "Success" => script.loads /\ ~script.early /\ set_sys_info /\ caps.valid
  BY DEF open_result
<1>5. res = "Success" => engine'.L /\ engine'.table
  BY <1>1 DEF open, session_engine, NewEngine, NoEngine
<1>6. c.kind # "table" => ~caps.valid /\ ~caps.panic
  BY DEF get_capability
<1>7. script \in Scripts
  BY DEF IEngine
<1>8. c.kind = "table" =>
        /\ caps.panic \in BOOLEAN
        /\ caps.panic => uncaught(c.entries)
        /\ caps.valid /\ ~caps.panic =>
               /\ \A i \in DOMAIN c.entries : wellFormed(c.entries[i])
               /\ ToSet(caps.caps) = all_offered(c.entries)
        /\ ~caps.valid /\ ~caps.panic =>
               (\E i \in DOMAIN c.entries : ~wellFormed(c.entries[i])) \/ all_offered(c.entries) = {}
  BY <1>7, ScriptKnown, CapabilitiesRead
<1>12. result' = res
  BY DEF session_open
<1>14. res = "Service_Not_Supported" => ~caps.valid /\ script.loads /\ ~script.early /\ set_sys_info
  BY DEF open_result
<1> HIDE DEF caps, res, e
<1>9. NoPanic'
  BY <1>1, <1>3, <1>6, <1>8 DEF NoPanic
<1>13. result' = "Service_Not_Supported" /\ c.kind = "table" /\ ~panic' =>
          (\E i \in DOMAIN c.entries : ~wellFormed(c.entries[i])) \/ all_offered(c.entries) = {}
  BY <1>1, <1>8, <1>12, <1>14
<1>10. CASE panic' \/ res # "Success"
  <2>1. session' = session
    BY <1>1, <1>10
  <2>2. session.state # "Ready"
    BY <1>1
  <2>3. CapabilityRead'
    BY <1>1, <1>13, <2>1, <2>2 DEF CapabilityRead
  <2> QED BY <1>1, <1>2, <1>9, <2>1, <2>2, <2>3 DEF IEngine, EngineInv
<1>11. CASE ~panic' /\ res = "Success"
  <2>1. /\ session'.state = "Ready" /\ session'.capabilities = ToSet(caps.caps)
        /\ session' = [state |-> session'.state, services |-> session'.services,
                       capabilities |-> session'.capabilities]
    BY <1>1, <1>11 DEF IEngine
  <2>2. caps.valid /\ ~caps.panic
    BY <1>1, <1>4, <1>11
  <2>3. CapabilityRead'
    BY <1>1, <1>6, <1>8, <1>11, <1>12, <2>1, <2>2 DEF CapabilityRead
  <2> QED BY <1>1, <1>2, <1>5, <1>9, <1>11, <2>1, <2>3 DEF IEngine, EngineInv
<1> QED BY <1>10, <1>11

LEMMA EngineStep == IEngine /\ [EngineNext]_engineVars => IEngine'
<1> SUFFICES ASSUME IEngine, [EngineNext]_engineVars PROVE IEngine'
  OBVIOUS
<1>1. CASE session_open
  BY <1>1, EngineOpens
<1>2. CASE session_close
  BY <1>2 DEF session_close, ClosedSession, all_closed, IEngine, EngineInv, CapabilityRead, NoPanic
<1>3. ASSUME NEW c \in Codes, RegSvc(c) PROVE IEngine'
  BY <1>3 DEF RegSvc, IEngine, EngineInv, CapabilityRead, NoPanic
<1>4. ASSUME NEW c \in Codes, session_execute(c) PROVE IEngine'
  BY <1>4 DEF session_execute, IEngine, EngineInv, CapabilityRead, NoPanic
<1>5. ASSUME NEW co \in Coroutine, Resume(co) PROVE IEngine'
  BY <1>5 DEF Resume, IEngine, EngineInv, CapabilityRead, NoPanic
<1>6. CASE UNCHANGED engineVars
  BY <1>6 DEF engineVars, IEngine, EngineInv, CapabilityRead, NoPanic
<1> QED BY <1>1, <1>2, <1>3, <1>4, <1>5, <1>6 DEF EngineNext

\* BeeSession::open and LuaEngine::get_capability: a session that is ready offers what
\* the table of its script describes, whatever that table holds, a script is refused
\* for its table only when it deserves it, and no Lua error ends the process but the
\* one of a number that get_capability meets for a key.
THEOREM EngineReads == EngineSpec => []EngineInv
<1>1. EngineInit => IEngine
  BY EngineStarts
<1>2. IEngine /\ [EngineNext]_engineVars => IEngine'
  BY EngineStep
<1>3. IEngine => EngineInv
  BY DEF IEngine
<1> QED BY <1>1, <1>2, <1>3, PTL DEF EngineSpec

-----------------------------------------------------------------------------
(* The logger, for any threads, sizes and number of volumes.  First the    *)
(* volumes as data: where the lines of each end in the sequence of all the *)
(* lines ever written.                                                     *)

Line == {l \in [len : Nat, text : Nat] : l.len = l.text}
Entry == {l \in [len : Nat, text : Nat, n : Nat] : l.len = l.text}

Files(d) == DOMAIN d \subseteq Nat /\ d \in [DOMAIN d -> Seq(Entry)]
Volumes(d, n) == DOMAIN d \subseteq 0 .. n - 1 /\ d \in [DOMAIN d -> Seq(Entry)]

\* The lines of volume j are those from e[j + 1] up to e[j], of w lines.
size(d, j) == IF j \in DOMAIN d THEN Len(d[j]) ELSE 0
Ends(d, n, w, e) ==
    /\ e \in [0 .. n -> Int] /\ e[0] = w
    /\ \A j \in 0 .. n - 1 : e[j] = e[j + 1] + size(d, j)
    /\ \A j \in DOMAIN d : \A i \in 1 .. Len(d[j]) : d[j][i].n = e[j + 1] + i - 1
Contiguous(d, n, w) == \E e : Ends(d, n, w, e)

\* What the operations make of the files.
created(d, f) == [g \in DOMAIN d \cup {f} |-> IF g = f THEN <<>> ELSE d[g]]
deleted(d, k) == [j \in DOMAIN d \ {k} |-> d[j]]
renamed(d, k) == [j \in (DOMAIN d \ {k}) \cup {k + 1} |-> IF j = k + 1 THEN d[k] ELSE d[j]]
extended(d, f, x) == [d EXCEPT ![f] = Append(@, x)]

LEMMA SizeIsNat ==
    ASSUME NEW d, d \in [DOMAIN d -> Seq(Entry)], NEW j
    PROVE  size(d, j) \in Nat
<1>1. CASE j \in DOMAIN d
  <2>1. d[j] \in Seq(Entry)
    BY <1>1
  <2> QED BY <1>1, <2>1, LenProperties DEF size
<1>2. CASE j \notin DOMAIN d
  BY <1>2 DEF size
<1> QED BY <1>1, <1>2

LEMMA CreatedFiles ==
    ASSUME NEW d, d \in [DOMAIN d -> Seq(Entry)], NEW f
    PROVE  /\ DOMAIN created(d, f) = DOMAIN d \cup {f}
           /\ created(d, f) \in [DOMAIN created(d, f) -> Seq(Entry)]
           /\ created(d, f)[f] = <<>> /\ \A j \in DOMAIN d \ {f} : created(d, f)[j] = d[j]
<1>1. <<>> \in Seq(Entry)
  BY EmptySeq
<1>2. DOMAIN created(d, f) = DOMAIN d \cup {f}
  BY DEF created
<1>3. \A g \in DOMAIN d \cup {f} : (IF g = f THEN <<>> ELSE d[g]) \in Seq(Entry)
  BY <1>1
<1>4. created(d, f) \in [DOMAIN d \cup {f} -> Seq(Entry)]
  BY <1>3 DEF created
<1>5. created(d, f)[f] = <<>> /\ \A j \in DOMAIN d \ {f} : created(d, f)[j] = d[j]
  BY DEF created
<1> QED BY <1>2, <1>4, <1>5

LEMMA DeletedFiles ==
    ASSUME NEW d, d \in [DOMAIN d -> Seq(Entry)], NEW k
    PROVE  /\ DOMAIN deleted(d, k) = DOMAIN d \ {k}
           /\ deleted(d, k) \in [DOMAIN deleted(d, k) -> Seq(Entry)]
           /\ \A j \in DOMAIN d \ {k} : deleted(d, k)[j] = d[j]
BY DEF deleted

LEMMA RenamedFiles ==
    ASSUME NEW d, d \in [DOMAIN d -> Seq(Entry)], NEW k \in DOMAIN d, k \in Nat
    PROVE  /\ DOMAIN renamed(d, k) = (DOMAIN d \ {k}) \cup {k + 1}
           /\ renamed(d, k) \in [DOMAIN renamed(d, k) -> Seq(Entry)]
           /\ renamed(d, k)[k + 1] = d[k]
           /\ \A j \in DOMAIN d \ {k, k + 1} : renamed(d, k)[j] = d[j]
<1>1. DOMAIN renamed(d, k) = (DOMAIN d \ {k}) \cup {k + 1}
  BY DEF renamed
<1>2. \A j \in (DOMAIN d \ {k}) \cup {k + 1} : (IF j = k + 1 THEN d[k] ELSE d[j]) \in Seq(Entry)
  OBVIOUS
<1>3. renamed(d, k) \in [(DOMAIN d \ {k}) \cup {k + 1} -> Seq(Entry)]
  BY <1>2 DEF renamed
<1>4. /\ renamed(d, k)[k + 1] = d[k]
      /\ \A j \in DOMAIN d \ {k, k + 1} : renamed(d, k)[j] = d[j]
  BY DEF renamed
<1> QED BY <1>1, <1>3, <1>4

LEMMA ExtendedFiles ==
    ASSUME NEW d, d \in [DOMAIN d -> Seq(Entry)], NEW f \in DOMAIN d, NEW x \in Entry
    PROVE  /\ DOMAIN extended(d, f, x) = DOMAIN d
           /\ extended(d, f, x) \in [DOMAIN d -> Seq(Entry)]
           /\ extended(d, f, x)[f] = Append(d[f], x)
           /\ \A j \in DOMAIN d \ {f} : extended(d, f, x)[j] = d[j]
<1>1. d[f] \in Seq(Entry)
  OBVIOUS
<1>2. Append(d[f], x) \in Seq(Entry)
  BY <1>1, AppendProperties
<1> QED BY <1>2 DEF extended

\* No file, and no line.
LEMMA NothingWritten ==
    ASSUME NEW d, NEW n \in Nat, DOMAIN d = {}
    PROVE  Contiguous(d, n, 0)
<1> DEFINE e == [j \in 0 .. n |-> 0]
<1>1. Ends(d, n, 0, e)
  BY DEF Ends, size
<1> QED BY <1>1 DEF Contiguous

\* The oldest volume is deleted.
LEMMA DeletesOldest ==
    ASSUME NEW n \in Nat \ {0}, NEW d, Volumes(d, n), NEW w \in Nat, Contiguous(d, n, w)
    PROVE  Volumes(deleted(d, n - 1), n) /\ Contiguous(deleted(d, n - 1), n, w)
<1> DEFINE x == deleted(d, n - 1)
<1>1. PICK e : Ends(d, n, w, e)
  BY DEF Contiguous
<1>2. /\ DOMAIN x = DOMAIN d \ {n - 1} /\ x \in [DOMAIN x -> Seq(Entry)]
      /\ \A j \in DOMAIN d \ {n - 1} : x[j] = d[j]
  BY DeletedFiles DEF Volumes
<1> DEFINE f == [j \in 0 .. n |-> IF j = n THEN e[n - 1] ELSE e[j]]
<1>3. f \in [0 .. n -> Int] /\ f[n] = e[n - 1] /\ \A j \in 0 .. n - 1 : f[j] = e[j]
  BY <1>1 DEF Ends
<1> HIDE DEF x, f
<1>4. f[0] = w
  BY <1>1, <1>3 DEF Ends
<1>5. ASSUME NEW j \in 0 .. n - 1 PROVE f[j] = f[j + 1] + size(x, j)
  <2>1. CASE j = n - 1
    <3>1. size(x, j) = 0 /\ f[j] = e[n - 1] /\ f[j + 1] = e[n - 1] /\ e[n - 1] \in Int
      BY <1>1, <1>2, <1>3, <2>1 DEF size, Ends
    <3> QED BY <3>1
  <2>2. CASE j # n - 1
    <3>1. size(x, j) = size(d, j)
      BY <1>2, <2>2 DEF size
    <3>2. j + 1 \in 0 .. n - 1 /\ e[j] = e[j + 1] + size(d, j)
      BY <1>1, <2>2 DEF Ends
    <3> QED BY <1>3, <3>1, <3>2
  <2> QED BY <2>1, <2>2
<1>6. ASSUME NEW j \in DOMAIN x, NEW i \in 1 .. Len(x[j]) PROVE x[j][i].n = f[j + 1] + i - 1
  <2>1. j \in DOMAIN d /\ j # n - 1 /\ x[j] = d[j]
    BY <1>2
  <2>2. j \in 0 .. n - 1 /\ j + 1 \in 0 .. n - 1
    BY <2>1 DEF Volumes
  <2>3. d[j][i].n = e[j + 1] + i - 1
    BY <1>1, <2>1 DEF Ends
  <2> QED BY <1>3, <2>1, <2>2, <2>3
<1>7. Ends(x, n, w, f)
  BY <1>3, <1>4, <1>5, <1>6 DEF Ends
<1>8. Volumes(x, n)
  BY <1>2 DEF Volumes
<1> QED BY <1>7, <1>8 DEF Contiguous, x

\* A volume moves up by one, to an index that is free.
LEMMA MovesUp ==
    ASSUME NEW n \in Nat, NEW d, Volumes(d, n), NEW w \in Nat, Contiguous(d, n, w),
           NEW k \in DOMAIN d, k < n - 1, k + 1 \notin DOMAIN d
    PROVE  Volumes(renamed(d, k), n) /\ Contiguous(renamed(d, k), n, w)
<1> DEFINE x == renamed(d, k)
<1>1. PICK e : Ends(d, n, w, e)
  BY DEF Contiguous
<1>0. k \in 0 .. n - 1 /\ k + 1 \in 0 .. n - 1 /\ k + 2 \in 0 .. n
  BY DEF Volumes
<1>2. /\ DOMAIN x = (DOMAIN d \ {k}) \cup {k + 1} /\ x \in [DOMAIN x -> Seq(Entry)]
      /\ x[k + 1] = d[k] /\ \A j \in DOMAIN d \ {k} : x[j] = d[j]
  <2>1. k \in Nat /\ d \in [DOMAIN d -> Seq(Entry)]
    BY <1>0 DEF Volumes
  <2>2. /\ DOMAIN x = (DOMAIN d \ {k}) \cup {k + 1} /\ x \in [DOMAIN x -> Seq(Entry)]
        /\ x[k + 1] = d[k] /\ \A j \in DOMAIN d \ {k, k + 1} : x[j] = d[j]
    BY <2>1, RenamedFiles
  <2> QED BY <2>2
<1> DEFINE f == [j \in 0 .. n |-> IF j = k + 1 THEN e[k] ELSE e[j]]
<1>3. f \in [0 .. n -> Int] /\ f[k + 1] = e[k] /\ \A j \in 0 .. n : j # k + 1 => f[j] = e[j]
  BY <1>0, <1>1 DEF Ends
<1>11. size(x, k) = 0 /\ size(x, k + 1) = size(d, k) /\ size(d, k + 1) = 0
  <2>1. k \notin DOMAIN x /\ k + 1 \in DOMAIN x
    BY <1>0, <1>2
  <2> QED BY <1>2, <2>1 DEF size
<1>12. /\ e[k] = e[k + 1] + size(d, k) /\ e[k + 1] = e[k + 2] + size(d, k + 1)
       /\ e[k] \in Int /\ e[k + 1] \in Int /\ e[k + 2] \in Int
  <2>1. (k + 1) + 1 = k + 2 /\ k \in 0 .. n /\ k + 1 \in 0 .. n
    BY <1>0
  <2>2. /\ e[k] = e[k + 1] + size(d, k) /\ e[k + 1] = e[(k + 1) + 1] + size(d, k + 1)
        /\ e \in [0 .. n -> Int]
    BY <1>0, <1>1 DEF Ends
  <2> QED BY <1>0, <2>1, <2>2
<1>13. size(d, k) \in Nat
  BY SizeIsNat DEF Volumes
<1> HIDE DEF x, f
<1>4. f[0] = w
  BY <1>0, <1>1, <1>3 DEF Ends
<1>5. ASSUME NEW j \in 0 .. n - 1 PROVE f[j] = f[j + 1] + size(x, j)
  <2>1. CASE j = k
    BY <1>0, <1>3, <1>11, <1>12, <2>1
  <2>2. CASE j = k + 1
    <3>1. f[j] = e[k] /\ f[j + 1] = e[k + 2] /\ size(x, j) = size(d, k)
      BY <1>0, <1>3, <1>11, <2>2
    <3> QED BY <1>11, <1>12, <1>13, <3>1
  <2>3. CASE j # k /\ j # k + 1
    <3>1. size(x, j) = size(d, j)
      <4>1. j \in DOMAIN x <=> j \in DOMAIN d
        BY <1>2, <2>3
      <4> QED BY <1>2, <2>3, <4>1 DEF size
    <3>2. f[j] = e[j] /\ f[j + 1] = e[j + 1]
      <4>1. j \in 0 .. n /\ j + 1 \in 0 .. n /\ j + 1 # k + 1
        BY <1>0, <2>3
      <4> QED BY <1>3, <2>3, <4>1
    <3> QED BY <1>1, <3>1, <3>2 DEF Ends
  <2> QED BY <2>1, <2>2, <2>3
<1>6. ASSUME NEW j \in DOMAIN x, NEW i \in 1 .. Len(x[j]) PROVE x[j][i].n = f[j + 1] + i - 1
  <2>1. CASE j = k + 1
    <3>1. x[j] = d[k] /\ d[k][i].n = e[k + 1] + i - 1
      BY <1>1, <1>2, <2>1 DEF Ends
    <3>2. f[j + 1] = e[k + 2]
      <4>1. j + 1 = k + 2 /\ k + 2 # k + 1
        BY <1>0, <2>1
      <4> QED BY <1>0, <1>3, <4>1
    <3>3. e[k + 1] = e[k + 2]
      BY <1>11, <1>12
    <3> QED BY <3>1, <3>2, <3>3
  <2>2. CASE j # k + 1
    <3>1. j \in DOMAIN d \ {k} /\ x[j] = d[j]
      BY <1>2, <2>2
    <3>2. d[j][i].n = e[j + 1] + i - 1
      BY <1>1, <3>1 DEF Ends
    <3>3. f[j + 1] = e[j + 1]
      <4>1. j \in 0 .. n - 1 /\ j # k
        BY <3>1 DEF Volumes
      <4>2. j + 1 \in 0 .. n /\ j + 1 # k + 1
        BY <1>0, <4>1
      <4> QED BY <1>3, <4>2
    <3> QED BY <3>1, <3>2, <3>3
  <2> QED BY <2>1, <2>2
<1>7. Ends(x, n, w, f)
  BY <1>3, <1>4, <1>5, <1>6 DEF Ends
<1>8. Volumes(x, n)
  BY <1>0, <1>2 DEF Volumes
<1> QED BY <1>7, <1>8 DEF Contiguous, x

\* bee.log is created, where there is none or no other.
LEMMA CreatesFirst ==
    ASSUME NEW n \in Nat \ {0}, NEW d, Volumes(d, n), NEW w \in Nat, Contiguous(d, n, w),
           0 \in DOMAIN d => n = 1
    PROVE  Volumes(created(d, 0), n) /\ Contiguous(created(d, 0), n, w)
<1> DEFINE x == created(d, 0)
<1>1. PICK e : Ends(d, n, w, e)
  BY DEF Contiguous
<1>2. /\ DOMAIN x = DOMAIN d \cup {0} /\ x \in [DOMAIN x -> Seq(Entry)]
      /\ x[0] = <<>> /\ \A j \in DOMAIN d \ {0} : x[j] = d[j]
  BY CreatedFiles DEF Volumes
<1>3. Len(<<>>) = 0
  BY EmptySeq
<1> DEFINE f == [j \in 0 .. n |-> IF n = 1 THEN w ELSE e[j]]
<1>4. f \in [0 .. n -> Int] /\ f[0] = w
  BY <1>1 DEF Ends
<1>5. \A j \in 0 .. n : f[j] = IF n = 1 THEN w ELSE e[j]
  OBVIOUS
<1> HIDE DEF x, f
<1>6. ASSUME NEW j \in 0 .. n - 1 PROVE f[j] = f[j + 1] + size(x, j)
  <2>1. CASE n = 1
    <3>1. j = 0 /\ size(x, j) = 0
      BY <1>2, <1>3, <2>1 DEF size
    <3> QED BY <1>5, <2>1, <3>1
  <2>2. CASE n # 1
    <3>1. size(x, j) = size(d, j)
      BY <1>2, <1>3, <2>2 DEF size
    <3>2. f[j] = e[j] /\ f[j + 1] = e[j + 1]
      BY <1>5, <2>2
    <3> QED BY <1>1, <3>1, <3>2 DEF Ends
  <2> QED BY <2>1, <2>2
<1>7. ASSUME NEW j \in DOMAIN x, NEW i \in 1 .. Len(x[j]) PROVE x[j][i].n = f[j + 1] + i - 1
  <2>1. j # 0
    BY <1>2, <1>3
  <2>2. j \in DOMAIN d \ {0} /\ x[j] = d[j]
    BY <1>2, <2>1
  <2>3. j \in 0 .. n - 1 /\ n # 1
    BY <2>2 DEF Volumes
  <2>4. d[j][i].n = e[j + 1] + i - 1
    BY <1>1, <2>2 DEF Ends
  <2> QED BY <1>5, <2>2, <2>3, <2>4
<1>8. Ends(x, n, w, f)
  BY <1>4, <1>6, <1>7 DEF Ends
<1>9. Volumes(x, n)
  BY <1>2 DEF Volumes
<1> QED BY <1>8, <1>9 DEF Contiguous, x

\* A line is added to bee.log.
LEMMA AddsLine ==
    ASSUME NEW n \in Nat \ {0}, NEW d, Volumes(d, n), NEW w \in Nat, Contiguous(d, n, w),
           0 \in DOMAIN d, NEW x \in Entry, x.n = w
    PROVE  Volumes(extended(d, 0, x), n) /\ Contiguous(extended(d, 0, x), n, w + 1)
<1> DEFINE y == extended(d, 0, x)
<1>1. PICK e : Ends(d, n, w, e)
  BY DEF Contiguous
<1>2. /\ DOMAIN y = DOMAIN d /\ y \in [DOMAIN d -> Seq(Entry)]
      /\ y[0] = Append(d[0], x) /\ \A j \in DOMAIN d \ {0} : y[j] = d[j]
  BY ExtendedFiles DEF Volumes
<1>3. /\ d[0] \in Seq(Entry) /\ Len(d[0]) \in Nat /\ Len(y[0]) = Len(d[0]) + 1
      /\ y[0][Len(d[0]) + 1] = x /\ \A i \in 1 .. Len(d[0]) : y[0][i] = d[0][i]
  <2>1. d[0] \in Seq(Entry)
    BY DEF Volumes
  <2> QED BY <1>2, <2>1, Pushed
<1> DEFINE f == [j \in 0 .. n |-> IF j = 0 THEN w + 1 ELSE e[j]]
<1>4. f \in [0 .. n -> Int] /\ f[0] = w + 1 /\ \A j \in 1 .. n : f[j] = e[j]
  BY <1>1 DEF Ends
<1> HIDE DEF y, f
<1>5. w = e[1] + Len(d[0]) /\ e[1] \in Int
  <2>1. 0 \in 0 .. n - 1 /\ 0 + 1 = 1 /\ 1 \in 0 .. n /\ size(d, 0) = Len(d[0])
    BY DEF size
  <2>2. e[0] = e[0 + 1] + size(d, 0) /\ e[0] = w /\ e \in [0 .. n -> Int]
    BY <1>1, <2>1 DEF Ends
  <2> QED BY <2>1, <2>2
<1>6. ASSUME NEW j \in 0 .. n - 1 PROVE f[j] = f[j + 1] + size(y, j)
  <2>1. CASE j = 0
    <3>1. size(y, j) = Len(d[0]) + 1
      BY <1>2, <1>3, <2>1 DEF size
    <3>2. j + 1 = 1 /\ 1 \in 1 .. n
      BY <2>1
    <3>3. f[j + 1] = e[1]
      BY <1>4, <3>2
    <3> QED BY <1>3, <1>4, <1>5, <2>1, <3>1, <3>3
  <2>2. CASE j # 0
    <3>1. size(y, j) = size(d, j)
      BY <1>2, <2>2 DEF size
    <3>2. f[j] = e[j] /\ f[j + 1] = e[j + 1]
      BY <1>4, <2>2
    <3> QED BY <1>1, <3>1, <3>2 DEF Ends
  <2> QED BY <2>1, <2>2
<1>7. ASSUME NEW j \in DOMAIN y, NEW i \in 1 .. Len(y[j]) PROVE y[j][i].n = f[j + 1] + i - 1
  <2>0. j \in DOMAIN d /\ j \in 0 .. n - 1 /\ f[j + 1] = e[j + 1]
    <3>1. j \in DOMAIN d
      BY <1>2
    <3>2. j \in 0 .. n - 1
      BY <3>1 DEF Volumes
    <3>3. j + 1 \in 1 .. n
      BY <3>2
    <3> QED BY <1>4, <3>1, <3>2, <3>3
  <2>1. CASE j = 0
    <3>1. CASE i = Len(d[0]) + 1
      BY <1>3, <1>5, <2>0, <2>1, <3>1
    <3>2. CASE i \in 1 .. Len(d[0])
      BY <1>1, <1>3, <2>0, <2>1, <3>2 DEF Ends
    <3> QED BY <1>3, <2>1, <3>1, <3>2
  <2>2. CASE j # 0
    <3>1. y[j] = d[j]
      BY <1>2, <2>0, <2>2
    <3>2. d[j][i].n = e[j + 1] + i - 1
      BY <1>1, <2>0, <3>1 DEF Ends
    <3> QED BY <2>0, <3>1, <3>2
  <2> QED BY <2>1, <2>2
<1>8. Ends(y, n, w + 1, f)
  BY <1>4, <1>6, <1>7 DEF Ends
<1>9. Volumes(y, n)
  BY <1>2 DEF Volumes
<1> QED BY <1>8, <1>9 DEF Contiguous, y

-----------------------------------------------------------------------------
(* The volumes in their order.                                             *)

Enumerates(s, S) ==
    /\ s \in [1 .. Cardinality(S) -> S] /\ Range(s) = S
    /\ \A i, j \in 1 .. Cardinality(S) : i < j => s[i] > s[j]

\* Some indexes can be put into descending order.
LEMMA Descends ==
    ASSUME NEW n \in Nat, NEW S \in SUBSET (0 .. n - 1)
    PROVE  Enumerates(descending(S), S) /\ Cardinality(S) \in Nat
<1> DEFINE Good(u) == \E s : Enumerates(s, u)
           T == {k \in 0 .. n : \A u \in SUBSET (0 .. k - 1) : Good(u)}
<1>1. T \in SUBSET (0 .. n) /\ 0 \in T
  <2>1. ASSUME NEW u \in SUBSET (0 .. 0 - 1) PROVE Good(u)
    <3>1. u = {} /\ Cardinality(u) = 0 /\ 1 .. 0 = {}
      <4>1. u = {} /\ 1 .. 0 = {}
        OBVIOUS
      <4>2. Cardinality({}) = 0
        BY FS_EmptySet
      <4> QED BY <4>1, <4>2
    <3> DEFINE s == [i \in {} |-> 0]
    <3>2. s \in [{} -> {}] /\ Range(s) = {}
      BY DEF Range
    <3>3. Enumerates(s, u)
      BY <3>1, <3>2 DEF Enumerates
    <3> QED BY <3>3
  <2>2. 0 \in 0 .. n
    OBVIOUS
  <2> HIDE DEF Good
  <2> QED BY <2>1, <2>2
<1>2. ASSUME NEW k \in T, k < n PROVE k + 1 \in T
  <2>0. k \in Nat /\ k + 1 \in 0 .. n /\ (k + 1) - 1 = k
    BY <1>2
  <2> SUFFICES ASSUME NEW u \in SUBSET (0 .. k) PROVE Good(u)
    <3> HIDE DEF Good
    <3> QED BY <2>0
  <2>1. CASE k \notin u
    <3>1. u \in SUBSET (0 .. k - 1)
      BY <2>0, <2>1
    <3> HIDE DEF Good
    <3> QED BY <3>1
  <2>2. CASE k \in u
    <3> DEFINE v == u \ {k}
               c == Cardinality(v)
    <3>1. v \in SUBSET (0 .. k - 1) /\ k \notin v
      BY <2>0
    <3>2. PICK s : Enumerates(s, v)
      BY <3>1
    <3>3. c \in Nat /\ Cardinality(u) = c + 1
      <4>1. IsFiniteSet(u)
        <5>1. IsFiniteSet(0 .. k) /\ u \in SUBSET (0 .. k)
          BY <2>0, FS_Interval
        <5> QED BY <5>1, FS_Subset
      <4>2. IsFiniteSet(v) /\ c = Cardinality(u) - 1
        BY <2>2, <4>1, FS_RemoveElement
      <4>3. Cardinality(u) \in Nat /\ Cardinality(v) \in Nat
        BY <4>1, <4>2, FS_CardinalityType
      <4> QED BY <4>2, <4>3
    <3>4. /\ s \in [1 .. c -> v] /\ \A x \in v : \E i \in 1 .. c : s[i] = x
          /\ \A i, j \in 1 .. c : i < j => s[i] > s[j]
      BY <3>2 DEF Enumerates, Range
    <3> HIDE DEF c
    <3> DEFINE r == [i \in 1 .. c + 1 |-> IF i = 1 THEN k ELSE s[i - 1]]
    <3>5. r \in [1 .. c + 1 -> u]
      <4>1. ASSUME NEW i \in 1 .. c + 1 PROVE (IF i = 1 THEN k ELSE s[i - 1]) \in u
        <5>1. i # 1 => i - 1 \in 1 .. c
          BY <3>3
        <5> QED BY <2>2, <3>4, <5>1
      <4> QED BY <4>1
    <3>6. r[1] = k /\ \A i \in 2 .. c + 1 : r[i] = s[i - 1] /\ i - 1 \in 1 .. c
      BY <3>3
    <3> HIDE DEF r, v
    <3>7. Range(r) = u
      <4>1. ASSUME NEW x \in u PROVE \E i \in 1 .. c + 1 : r[i] = x
        <5>1. CASE x = k
          <6>1. 1 \in 1 .. c + 1
            BY <3>3
          <6> QED BY <3>6, <5>1, <6>1
        <5>2. CASE x # k
          <6>1. x \in v
            BY <5>2 DEF v
          <6>2. PICK i \in 1 .. c : s[i] = x
            BY <3>4, <6>1
          <6>3. i + 1 \in 2 .. c + 1 /\ (i + 1) - 1 = i /\ i + 1 \in 1 .. c + 1
            BY <3>3
          <6> QED BY <3>6, <6>2, <6>3
        <5> QED BY <5>1, <5>2
      <4> QED BY <3>5, <4>1 DEF Range
    <3>8. ASSUME NEW i \in 1 .. c + 1, NEW j \in 1 .. c + 1, i < j PROVE r[i] > r[j]
      <4>1. j \in 2 .. c + 1 /\ r[j] = s[j - 1] /\ j - 1 \in 1 .. c
        BY <3>3, <3>6, <3>8
      <4>2. CASE i = 1
        <5>1. s[j - 1] \in v
          BY <3>4, <4>1
        <5>2. s[j - 1] \in 0 .. k - 1
          BY <3>1, <5>1
        <5> QED BY <2>0, <3>6, <4>1, <4>2, <5>2
      <4>3. CASE i # 1
        <5>1. i \in 2 .. c + 1 /\ i - 1 < j - 1
          BY <3>3, <3>8, <4>3
        <5>2. r[i] = s[i - 1] /\ i - 1 \in 1 .. c
          BY <3>6, <5>1
        <5> QED BY <3>4, <4>1, <5>1, <5>2
      <4> QED BY <4>2, <4>3
    <3>9. Enumerates(r, u)
      BY <3>3, <3>5, <3>7, <3>8 DEF Enumerates
    <3> QED BY <3>9
  <2> QED BY <2>1, <2>2
<1>3. n \in T
  <2> HIDE DEF T
  <2> QED BY UpTo, <1>1, <1>2
<1>4. Good(S)
  <2> HIDE DEF Good
  <2> QED BY <1>3
<1>5. Enumerates(descending(S), S)
  <2>1. PICK s : Enumerates(s, S)
    BY <1>4
  <2> DEFINE P(x) == /\ Range(x) = S
                     /\ \A i, j \in 1 .. Cardinality(S) : i < j => x[i] > x[j]
  <2>2. s \in [1 .. Cardinality(S) -> S] /\ P(s)
    BY <2>1 DEF Enumerates
  <2>3. descending(S) = CHOOSE x \in [1 .. Cardinality(S) -> S] : P(x)
    BY DEF descending
  <2>4. descending(S) \in [1 .. Cardinality(S) -> S] /\ P(descending(S))
    <3> HIDE DEF P
    <3> QED BY <2>2, <2>3
  <2> QED BY <2>4 DEF Enumerates
<1>6. Cardinality(S) \in Nat
  <2>1. IsFiniteSet(0 .. n - 1)
    BY FS_Interval
  <2>2. IsFiniteSet(S)
    BY <2>1, FS_Subset
  <2> QED BY <2>2, FS_CardinalityType
<1> QED BY <1>5, <1>6

\* Where no volume is, the lines neither end nor begin.
LEMMA NoVolume ==
    ASSUME NEW n \in Nat, NEW d, NEW w, NEW e, Ends(d, n, w, e),
           NEW a \in 0 .. n, NEW b \in 0 .. n, a <= b, \A j \in DOMAIN d : j < a \/ j >= b
    PROVE  e[a] = e[b]
<1> DEFINE T == {k \in 0 .. b - a : e[a + k] = e[a]}
<1>0. b - a \in Nat
  OBVIOUS
<1>1. T \in SUBSET (0 .. b - a) /\ 0 \in T
  OBVIOUS
<1>2. ASSUME NEW k \in T, k < b - a PROVE k + 1 \in T
  <2>1. a + k \in 0 .. n - 1 /\ (a + k) + 1 = a + (k + 1) /\ k + 1 \in 0 .. b - a
    BY <1>2
  <2>2. a + k \notin DOMAIN d
    BY <1>2
  <2>3. e[a + k] = e[a + (k + 1)] + 0 /\ e[a + (k + 1)] \in Int
    <3>1. size(d, a + k) = 0
      BY <2>2 DEF size
    <3>2. a + (k + 1) \in 0 .. n
      BY <2>1
    <3>3. e[a + k] = e[(a + k) + 1] + size(d, a + k) /\ e \in [0 .. n -> Int]
      BY <2>1 DEF Ends
    <3> QED BY <2>1, <3>1, <3>2, <3>3
  <2>4. e[a + k] = e[a]
    BY <1>2
  <2> QED BY <2>1, <2>3, <2>4
<1>3. b - a \in T
  <2>1. T = 0 .. b - a
    <3> HIDE DEF T
    <3> QED BY <1>0, <1>1, <1>2, UpTo
  <2> QED BY <1>0, <2>1
<1>4. a + (b - a) = b
  OBVIOUS
<1> QED BY <1>3, <1>4

\* Lines that follow others in the order they were written.
LEMMA Joined ==
    ASSUME NEW x \in Seq(Entry), NEW y \in Seq(Entry), NEW m \in Int,
           \A p \in 1 .. Len(x) : x[p].n = m + p - 1,
           \A p \in 1 .. Len(y) : y[p].n = m + Len(x) + p - 1
    PROVE  /\ Len(x \o y) = Len(x) + Len(y)
           /\ \A p \in 1 .. Len(x \o y) : (x \o y)[p].n = m + p - 1
<1> DEFINE a == Len(x)
           b == Len(y)
           z == x \o y
<1>1. a \in Nat /\ b \in Nat
  BY LenProperties
<1>2. Len(z) = a + b /\ \A p \in 1 .. a + b : z[p] = IF p <= a THEN x[p] ELSE y[p - a]
  BY ConcatProperties
<1>3. \A p \in 1 .. b : y[p].n = m + a + p - 1
  OBVIOUS
<1>4. \A p \in 1 .. a : x[p].n = m + p - 1
  OBVIOUS
<1> HIDE DEF a, b, z
<1>5. ASSUME NEW p \in 1 .. a + b PROVE z[p].n = m + p - 1
  <2>1. CASE p <= a
    BY <1>1, <1>2, <1>4, <2>1
  <2>2. CASE p > a
    <3>1. p - a \in 1 .. b /\ z[p] = y[p - a]
      BY <1>1, <1>2, <2>2
    <3>2. y[p - a].n = m + a + (p - a) - 1
      BY <1>3, <3>1
    <3> QED BY <1>1, <3>1, <3>2
  <2> QED BY <1>1, <2>1, <2>2
<1>6. \A p \in 1 .. Len(z) : z[p].n = m + p - 1
  BY <1>2, <1>5
<1> QED BY <1>2, <1>6 DEF a, b, z

\* One after the other, from the highest, they hold the last lines written.
LEMMA OneAfterTheOther ==
    ASSUME NEW n \in Nat \ {0}, NEW d, Volumes(d, n), NEW w \in Nat, Contiguous(d, n, w),
           NEW s, Enumerates(s, DOMAIN d), Cardinality(DOMAIN d) \in Nat,
           NEW all, all = FlattenSeq([i \in 1 .. Cardinality(DOMAIN d) |-> d[s[i]]])
    PROVE  \A i \in DOMAIN all : all[i].n = w - Len(all) + i - 1
<1> DEFINE c == Cardinality(DOMAIN d)
           seqs == [i \in 1 .. c |-> d[s[i]]]
<1>1. PICK e : Ends(d, n, w, e)
  BY DEF Contiguous
<1>2. /\ s \in [1 .. c -> DOMAIN d] /\ \A x \in DOMAIN d : \E i \in 1 .. c : s[i] = x
      /\ \A i, j \in 1 .. c : i < j => s[i] > s[j]
  BY DEF Enumerates, Range
<1>3. seqs \in Seq(Seq(Entry)) /\ Len(seqs) = c
  <2>1. \A i \in 1 .. c : d[s[i]] \in Seq(Entry)
    BY <1>2 DEF Volumes
  <2> QED BY <2>1
<1>4. \A i \in 1 .. c : seqs[i] = d[s[i]] /\ s[i] \in 0 .. n - 1 /\ s[i] \in DOMAIN d
  BY <1>2 DEF Volumes
<1>5. CASE c = 0
  <2>1. seqs = <<>>
    BY <1>5
  <2>2. FlattenSeq(seqs) = <<>>
    BY <2>1 DEF FlattenSeq
  <2> QED BY <2>2
<1>6. CASE c # 0
  <2>0. c \in Nat /\ c > 0 /\ seqs # <<>>
    BY <1>3, <1>6
  <2>1. PICK g : /\ g \in [1 .. c -> Seq(Entry)] /\ g[1] = seqs[1]
                 /\ \A i \in 2 .. c : g[i] = g[i - 1] \o seqs[i]
                 /\ g[c] = FlattenSeq(seqs)
    <3> HIDE DEF seqs, c
    <3>1. \E g : /\ g \in [1 .. Len(seqs) -> Seq(Entry)] /\ g[1] = seqs[1]
                 /\ \A i \in 2 .. Len(seqs) : g[i] = g[i - 1] \o seqs[i]
                 /\ g[Len(seqs)] = FlattenSeq(seqs)
      BY <1>3, <2>0, Flattened
    <3> QED BY <1>3, <3>1
  <2> HIDE DEF c, seqs
  <2>2. ASSUME NEW i \in 1 .. c
        PROVE  /\ seqs[i] \in Seq(Entry) /\ Len(seqs[i]) \in Nat
               /\ e[s[i]] \in Int /\ e[s[i] + 1] \in Int
               /\ e[s[i]] = e[s[i] + 1] + Len(seqs[i])
               /\ \A p \in 1 .. Len(seqs[i]) : seqs[i][p].n = e[s[i] + 1] + p - 1
    <3>1. seqs[i] = d[s[i]] /\ s[i] \in 0 .. n - 1 /\ s[i] \in DOMAIN d
      BY <1>4
    <3>2. seqs[i] \in Seq(Entry)
      BY <3>1 DEF Volumes
    <3>3. Len(seqs[i]) \in Nat /\ size(d, s[i]) = Len(seqs[i])
      BY <3>1, <3>2, LenProperties DEF size
    <3>4. s[i] \in 0 .. n /\ s[i] + 1 \in 0 .. n
      BY <3>1
    <3>5. e[s[i]] = e[s[i] + 1] + size(d, s[i]) /\ e \in [0 .. n -> Int]
      BY <1>1, <3>1 DEF Ends
    <3>6. \A p \in 1 .. Len(d[s[i]]) : d[s[i]][p].n = e[s[i] + 1] + p - 1
      BY <1>1, <3>1 DEF Ends
    <3> QED BY <3>1, <3>2, <3>3, <3>4, <3>5, <3>6
  <2>3. e[n] \in Int
    BY <1>1 DEF Ends
  <2>4. e[s[1] + 1] = e[n]
    <3>1. s[1] + 1 \in 0 .. n /\ n \in 0 .. n /\ s[1] + 1 <= n
      BY <1>4, <2>0
    <3>2. ASSUME NEW j \in DOMAIN d PROVE j < s[1] + 1
      <4>1. PICK i \in 1 .. c : s[i] = j
        BY <1>2
      <4>2. CASE i = 1
        BY <1>4, <4>1, <4>2
      <4>3. CASE i # 1
        <5>1. 1 \in 1 .. c /\ 1 < i
          BY <2>0, <4>3
        <5>2. s[1] > s[i] /\ s[1] \in Int /\ s[i] \in Int
          BY <1>2, <1>4, <4>1, <5>1
        <5> QED BY <4>1, <5>2
      <4> QED BY <4>2, <4>3
    <3> QED BY <1>1, <3>1, <3>2, NoVolume
  <2>5. ASSUME NEW i \in 2 .. c PROVE e[s[i] + 1] = e[s[i - 1]]
    <3>0. i \in 1 .. c /\ i - 1 \in 1 .. c /\ i - 1 < i
      BY <2>0
    <3>1. s[i] + 1 \in 0 .. n /\ s[i - 1] \in 0 .. n /\ s[i] + 1 <= s[i - 1]
      <4>1. s[i - 1] > s[i] /\ s[i] \in 0 .. n - 1 /\ s[i - 1] \in 0 .. n - 1
        BY <1>2, <1>4, <3>0
      <4> QED BY <4>1
    <3>2. ASSUME NEW j \in DOMAIN d PROVE j < s[i] + 1 \/ j >= s[i - 1]
      <4>1. PICK k \in 1 .. c : s[k] = j
        BY <1>2
      <4>0. s[k] \in Int /\ s[i] \in Int /\ s[i - 1] \in Int
        BY <1>4, <3>0
      <4>2. CASE k > i
        <5>1. s[i] > s[k]
          BY <1>2, <3>0, <4>2
        <5> QED BY <4>0, <4>1, <5>1
      <4>3. CASE k = i \/ k = i - 1
        BY <4>0, <4>1, <4>3
      <4>4. CASE k < i - 1
        <5>1. s[k] > s[i - 1]
          BY <1>2, <3>0, <4>4
        <5> QED BY <4>0, <4>1, <5>1
      <4> QED BY <4>2, <4>3, <4>4
    <3> QED BY <1>1, <3>1, <3>2, NoVolume
  <2>6. e[s[c]] = w
    <3>1. s[c] \in 0 .. n /\ 0 \in 0 .. n /\ 0 <= s[c] /\ c \in 1 .. c
      BY <1>4, <2>0
    <3>2. ASSUME NEW j \in DOMAIN d PROVE j >= s[c]
      <4>1. PICK k \in 1 .. c : s[k] = j
        BY <1>2
      <4>0. s[k] \in Int /\ s[c] \in Int
        BY <1>4, <3>1
      <4>2. CASE k = c
        BY <4>0, <4>1, <4>2
      <4>3. CASE k # c
        <5>1. k < c
          BY <2>0, <4>3
        <5>2. s[k] > s[c]
          BY <1>2, <3>1, <5>1
        <5> QED BY <4>0, <4>1, <5>2
      <4> QED BY <4>2, <4>3
    <3>3. e[0] = e[s[c]]
      BY <1>1, <3>1, <3>2, NoVolume
    <3> QED BY <1>1, <3>3 DEF Ends
  <2> DEFINE Done(i) == /\ Len(g[i]) = e[s[i]] - e[n]
                        /\ \A p \in 1 .. Len(g[i]) : g[i][p].n = e[n] + p - 1
             T == {i \in 0 .. c : i = 0 \/ Done(i)}
  <2>7. T \in SUBSET (0 .. c) /\ 0 \in T
    BY <2>0
  <2>8. ASSUME NEW k \in T, k < c PROVE k + 1 \in T
    <3>0. k \in Nat /\ k + 1 \in 1 .. c /\ k + 1 \in 0 .. c
      BY <2>0, <2>8
    <3>1. CASE k = 0
      <4>1. g[1] = seqs[1] /\ 1 \in 1 .. c
        BY <2>0, <2>1
      <4>2. /\ e[s[1]] = e[s[1] + 1] + Len(seqs[1]) /\ Len(seqs[1]) \in Nat
            /\ \A p \in 1 .. Len(seqs[1]) : seqs[1][p].n = e[s[1] + 1] + p - 1
        BY <2>2, <4>1
      <4>3. Len(g[1]) = e[s[1]] - e[n]
        BY <2>3, <2>4, <4>1, <4>2
      <4>4. \A p \in 1 .. Len(g[1]) : g[1][p].n = e[n] + p - 1
        BY <2>4, <4>1, <4>2
      <4>5. Done(1)
        BY <4>3, <4>4
      <4> QED BY <3>0, <3>1, <4>5
    <3>2. CASE k # 0
      <4> DEFINE i == k + 1
      <4>0. i \in 2 .. c /\ i \in 1 .. c /\ i - 1 = k /\ k \in 1 .. c
        BY <3>0, <3>2
      <4>1. Done(k)
        BY <2>8, <3>2
      <4> HIDE DEF i
      <4>2. g[i] = g[k] \o seqs[i] /\ g[k] \in Seq(Entry)
        BY <2>1, <4>0
      <4>3. /\ seqs[i] \in Seq(Entry) /\ Len(seqs[i]) \in Nat /\ e[s[i]] \in Int
            /\ e[s[i]] = e[s[k]] + Len(seqs[i])
            /\ \A p \in 1 .. Len(seqs[i]) : seqs[i][p].n = e[s[k]] + p - 1
        <5>1. e[s[i] + 1] = e[s[k]]
          BY <2>5, <4>0
        <5> QED BY <2>2, <4>0, <5>1
      <4>4. e[s[k]] \in Int /\ Len(g[k]) \in Nat
        BY <2>2, <4>0, <4>2, LenProperties
      <4>5. e[s[k]] = e[n] + Len(g[k])
        BY <2>3, <4>1, <4>4
      <4>9. \A p \in 1 .. Len(g[k]) : g[k][p].n = e[n] + p - 1
        BY <4>1
      <4>10. \A p \in 1 .. Len(seqs[i]) : seqs[i][p].n = e[n] + Len(g[k]) + p - 1
        BY <4>3, <4>5
      <4>11. /\ Len(g[i]) = Len(g[k]) + Len(seqs[i])
             /\ \A p \in 1 .. Len(g[i]) : g[i][p].n = e[n] + p - 1
        <5> HIDE DEF Done, T
        <5>1. /\ Len(g[k] \o seqs[i]) = Len(g[k]) + Len(seqs[i])
              /\ \A p \in 1 .. Len(g[k] \o seqs[i]) : (g[k] \o seqs[i])[p].n = e[n] + p - 1
          BY <2>3, <4>2, <4>3, <4>9, <4>10, Joined
        <5> QED BY <4>2, <5>1
      <4>6. Len(g[i]) = e[s[i]] - e[n]
        <5>1. Len(g[i]) = Len(g[k]) + Len(seqs[i])
          BY <4>11
        <5>2. Len(seqs[i]) \in Nat /\ e[s[i]] = e[s[k]] + Len(seqs[i])
          BY <4>3
        <5>3. /\ Len(g[k]) \in Nat /\ e[s[k]] = e[n] + Len(g[k]) /\ e[n] \in Int
          BY <2>3, <4>4, <4>5
        <5> DEFINE x == Len(g[k])
                   y == Len(seqs[i])
                   u == e[s[i]]
                   v == e[s[k]]
                   m == e[n]
                   l == Len(g[i])
        <5>4. l = x + y /\ y \in Nat /\ u = v + y /\ x \in Nat /\ v = m + x /\ m \in Int
          BY <5>1, <5>2, <5>3
        <5>5. l = u - m
          <6> HIDE DEF x, y, u, v, m, l
          <6> QED BY <5>4
        <5> QED BY <5>5
      <4>8. Done(i)
        BY <4>6, <4>11
      <4> HIDE DEF Done
      <4> QED BY <3>0, <4>8 DEF i
    <3> QED BY <3>1, <3>2
  <2>9. Done(c)
    <3>1. T = 0 .. c
      <4> HIDE DEF T
      <4> QED BY <2>0, <2>7, <2>8, UpTo
    <3>2. c \in T /\ c # 0
      BY <2>0, <3>1
    <3> QED BY <3>2
  <2>10. all = g[c] /\ g[c] \in Seq(Entry)
    BY <2>0, <2>1 DEF seqs, c
  <2>11. DOMAIN all = 1 .. Len(all)
    BY <2>10, LenProperties
  <2>12. Len(all) = w - e[n]
    BY <2>6, <2>9, <2>10
  <2>13. ASSUME NEW i \in DOMAIN all PROVE all[i].n = w - Len(all) + i - 1
    <3>1. i \in 1 .. Len(all)
      BY <2>11
    <3>2. all[i].n = e[n] + i - 1
      BY <2>9, <2>10, <3>1
    <3>3. w - (w - e[n]) = e[n]
      BY <2>3
    <3> QED BY <2>12, <3>2, <3>3
  <2> QED BY <2>13
<1> QED BY <1>5, <1>6

-----------------------------------------------------------------------------
(* The operations of a rolling that are still to be done.                  *)

Ops(n) == {<<"delete", n - 1>>, <<"open", 0>>} \cup {<<"rename", k>> : k \in 0 .. n - 2}
ToRename(r, f) == \E i \in 1 .. Len(r) : r[i] = <<"rename", f>>

\* Of the files D: the oldest is deleted first, bee.log is created last, and
\* in between volumes are renamed from the highest down.  Those that have been
\* renamed are above all that have not, with a free index between them.
Orderly(r, n) ==
    /\ r \in Seq(Ops(n))
    /\ \A i \in 1 .. Len(r) : r[i] = <<"open", 0>> <=> i = Len(r)
    /\ \A i \in 1 .. Len(r) : r[i] = <<"delete", n - 1>> => i = 1 /\ n > 1
    /\ \A i, j \in 1 .. Len(r) :
           i < j /\ r[i][1] = "rename" /\ r[j][1] = "rename" => r[i][2] > r[j][2]
Moving(r, D) == \A i \in 1 .. Len(r) : r[i][1] = "rename" => r[i][2] \in D
FreeAbove(r, D) ==
    \A f \in D : \/ ToRename(r, f) \/ r[1] = <<"delete", f>>
                 \/ f > 0 /\ \A i \in 1 .. Len(r) : r[i][1] = "rename" => f > r[i][2] + 1

\* volume_index_ is behind by one while the volumes move.
Indexed(r, D, vi) ==
    \A f \in D : f <= IF r = <<>> \/ ToRename(r, f) THEN vi ELSE vi + 1

Rolls(r, D, n, vi) ==
    /\ Orderly(r, n) /\ Moving(r, D) /\ Indexed(r, D, vi)
    /\ IF r = <<>> THEN 0 \in D ELSE n > 1 => FreeAbove(r, D)

LEMMA OpsApart ==
    ASSUME NEW n \in Nat, NEW op \in Ops(n)
    PROVE  \/ op = <<"delete", n - 1>> /\ op[1] = "delete" /\ op[2] = n - 1 /\ op # <<"open", 0>>
           \/ op = <<"open", 0>> /\ op[1] = "open" /\ op # <<"delete", n - 1>>
           \/ /\ op[1] = "rename" /\ op[2] \in 0 .. n - 2 /\ op = <<"rename", op[2]>>
              /\ op # <<"open", 0>> /\ op # <<"delete", n - 1>>
<1>1. CASE op = <<"delete", n - 1>>
  BY <1>1
<1>2. CASE op = <<"open", 0>>
  BY <1>2
<1>3. ASSUME NEW k \in 0 .. n - 2, op = <<"rename", k>>
      PROVE  /\ op[1] = "rename" /\ op[2] \in 0 .. n - 2 /\ op = <<"rename", op[2]>>
             /\ op # <<"open", 0>> /\ op # <<"delete", n - 1>>
  BY <1>3
<1> QED BY <1>1, <1>2, <1>3 DEF Ops

\* Nothing is being done.
LEMMA NoRolling == ASSUME NEW n PROVE Orderly(<<>>, n) /\ \A D : Moving(<<>>, D)
<1>1. <<>> \in Seq(Ops(n)) /\ Len(<<>>) = 0
  BY EmptySeq
<1> QED BY <1>1 DEF Orderly, Moving

\* What is left when the first operation is done.
LEMMA OrderlyTail ==
    ASSUME NEW n \in Nat, NEW r, Orderly(r, n), r # <<>>
    PROVE  /\ Orderly(Tail(r), n) /\ Len(r) \in Nat \ {0} /\ Len(Tail(r)) = Len(r) - 1
           /\ Head(r) = r[1] /\ Head(r) \in Ops(n)
           /\ \A i \in 1 .. Len(Tail(r)) : Tail(r)[i] = r[i + 1] /\ i + 1 \in 1 .. Len(r)
           /\ Tail(r) = <<>> <=> Head(r) = <<"open", 0>>
           /\ \A f : ToRename(r, f) <=> Head(r) = <<"rename", f>> \/ ToRename(Tail(r), f)
<1> DEFINE t == Tail(r)
           m == Len(r)
<1>1. r \in Seq(Ops(n))
  BY DEF Orderly
<1>2. /\ t \in Seq(Ops(n)) /\ m \in Nat \ {0} /\ Len(t) = m - 1 /\ Head(r) = r[1]
      /\ Head(r) \in Ops(n) /\ \A i \in 1 .. m - 1 : t[i] = r[i + 1]
  <2> HIDE DEF m, t
  <2> QED BY <1>1, Popped DEF m, t
<1>3. t = <<>> <=> m = 1
  <2>1. t = <<>> => Len(t) = 0
    BY EmptySeq
  <2>2. t # <<>> => Len(t) # 0
    BY <1>2, EmptySeq
  <2> QED BY <1>2, <2>1, <2>2
<1>4. 1 \in 1 .. m /\ (r[1] = <<"open", 0>> <=> 1 = m)
  <2>1. 1 \in 1 .. m
    BY <1>2
  <2> QED BY <2>1 DEF Orderly
<1>5. \A i \in 1 .. m - 1 : i + 1 \in 1 .. m
  BY <1>2
<1> HIDE DEF t, m
<1>6. Orderly(t, n)
  <2>1. ASSUME NEW i \in 1 .. m - 1 PROVE t[i] = <<"open", 0>> <=> i = m - 1
    <3>1. r[i + 1] = <<"open", 0>> <=> i + 1 = m
      BY <1>5 DEF Orderly, m
    <3> QED BY <1>2, <3>1
  <2>2. ASSUME NEW i \in 1 .. m - 1, t[i] = <<"delete", n - 1>> PROVE FALSE
    <3>1. i + 1 = 1
      BY <1>2, <1>5, <2>2 DEF Orderly, m
    <3> QED BY <3>1
  <2>3. ASSUME NEW i \in 1 .. m - 1, NEW j \in 1 .. m - 1, i < j, t[i][1] = "rename", t[j][1] = "rename"
        PROVE  t[i][2] > t[j][2]
    <3>1. i + 1 < j + 1 /\ r[i + 1] = t[i] /\ r[j + 1] = t[j]
      <4>1. i \in Int /\ j \in Int /\ i < j
        BY <2>3
      <4>2. i + 1 < j + 1
        BY <4>1
      <4>3. r[i + 1] = t[i] /\ r[j + 1] = t[j]
        BY <1>2
      <4> QED BY <4>2, <4>3
    <3> QED BY <1>5, <2>3, <3>1 DEF Orderly, m
  <2> QED BY <1>2, <2>1, <2>2, <2>3 DEF Orderly
<1>7. ASSUME NEW f PROVE ToRename(r, f) <=> Head(r) = <<"rename", f>> \/ ToRename(t, f)
  <2>1. ASSUME NEW i \in 1 .. m, r[i] = <<"rename", f>> PROVE Head(r) = <<"rename", f>> \/ ToRename(t, f)
    <3>1. CASE i = 1
      BY <1>2, <2>1, <3>1
    <3>2. CASE i # 1
      <4>1. i - 1 \in 1 .. m - 1 /\ (i - 1) + 1 = i
        BY <1>2, <3>2
      <4>2. t[i - 1] = r[i]
        BY <1>2, <4>1
      <4> QED BY <1>2, <2>1, <4>1, <4>2 DEF ToRename
    <3> QED BY <3>1, <3>2
  <2>2. ASSUME NEW i \in 1 .. m - 1, t[i] = <<"rename", f>> PROVE ToRename(r, f)
    BY <1>2, <1>5, <2>2 DEF ToRename, m
  <2>3. Head(r) = <<"rename", f>> => ToRename(r, f)
    BY <1>2, <1>4 DEF ToRename, m
  <2> QED BY <1>2, <2>1, <2>2, <2>3 DEF ToRename, m
<1> QED BY <1>2, <1>3, <1>4, <1>5, <1>6, <1>7 DEF t, m

\* The oldest volume is deleted.
LEMMA AfterDelete ==
    ASSUME NEW n \in Nat \ {0}, NEW D \in SUBSET (0 .. n - 1), NEW vi \in Nat, NEW r,
           Rolls(r, D, n, vi), r # <<>>, Head(r) = <<"delete", n - 1>>
    PROVE  Rolls(Tail(r), D \ {n - 1}, n, vi)
<1> DEFINE t == Tail(r)
           E == D \ {n - 1}
<1>1. /\ Orderly(t, n) /\ Len(r) \in Nat \ {0} /\ Len(t) = Len(r) - 1
      /\ Head(r) = r[1] /\ t # <<>>
      /\ \A i \in 1 .. Len(t) : t[i] = r[i + 1] /\ i + 1 \in 1 .. Len(r)
      /\ \A f : ToRename(r, f) <=> ToRename(t, f)
  <2>1. Orderly(r, n)
    BY DEF Rolls
  <2>2. \A f : Head(r) # <<"rename", f>>
    OBVIOUS
  <2>3. Head(r) # <<"open", 0>>
    OBVIOUS
  <2> HIDE DEF t
  <2> QED BY <2>1, <2>2, <2>3, OrderlyTail DEF t
<1> HIDE DEF t
<1>2. Moving(t, E)
  <2> SUFFICES ASSUME NEW i \in 1 .. Len(t), t[i][1] = "rename" PROVE t[i][2] \in E
    BY DEF Moving
  <2>1. t[i] \in Ops(n)
    BY <1>1, ElementOfSeq DEF Orderly
  <2>2. t[i][2] \in 0 .. n - 2
    BY <2>1, OpsApart
  <2>3. t[i][2] \in D
    BY <1>1 DEF Rolls, Moving
  <2> QED BY <2>2, <2>3
<1>3. Indexed(t, E, vi)
  BY <1>1 DEF Rolls, Indexed
<1>4. n > 1 => FreeAbove(t, E)
  <2> SUFFICES ASSUME n > 1, NEW f \in E
               PROVE  \/ ToRename(t, f)
                      \/ f > 0 /\ \A i \in 1 .. Len(t) : t[i][1] = "rename" => f > t[i][2] + 1
    BY DEF FreeAbove
  <2>1. \/ ToRename(r, f) \/ r[1] = <<"delete", f>>
        \/ f > 0 /\ \A i \in 1 .. Len(r) : r[i][1] = "rename" => f > r[i][2] + 1
    BY DEF Rolls, FreeAbove
  <2>2. r[1] # <<"delete", f>>
    BY <1>1
  <2> QED BY <1>1, <2>1, <2>2
<1> QED BY <1>1, <1>2, <1>3, <1>4 DEF Rolls, t

\* A volume moves up by one; the next index was free.
LEMMA AfterRename ==
    ASSUME NEW n \in Nat \ {0}, NEW D \in SUBSET (0 .. n - 1), NEW vi \in Nat, NEW r,
           Rolls(r, D, n, vi), r # <<>>, NEW k, Head(r) = <<"rename", k>>
    PROVE  /\ k \in D /\ k < n - 1 /\ k + 1 \notin D
           /\ Rolls(Tail(r), (D \ {k}) \cup {k + 1}, n, vi)
<1> DEFINE t == Tail(r)
           E == (D \ {k}) \cup {k + 1}
<1>1. /\ Orderly(t, n) /\ Len(r) \in Nat \ {0} /\ Len(t) = Len(r) - 1
      /\ r[1] = <<"rename", k>> /\ t # <<>> /\ 1 \in 1 .. Len(r) /\ Head(r) \in Ops(n)
      /\ \A i \in 1 .. Len(t) : t[i] = r[i + 1] /\ i + 1 \in 1 .. Len(r)
      /\ \A f : ToRename(r, f) <=> f = k \/ ToRename(t, f)
  <2>1. Orderly(r, n)
    BY DEF Rolls
  <2>2. Head(r) # <<"open", 0>>
    OBVIOUS
  <2>3. \A f : Head(r) = <<"rename", f>> <=> f = k
    OBVIOUS
  <2>4. /\ Orderly(t, n) /\ Len(r) \in Nat \ {0} /\ Len(t) = Len(r) - 1
        /\ Head(r) = r[1] /\ t # <<>> /\ Head(r) \in Ops(n)
        /\ \A i \in 1 .. Len(t) : t[i] = r[i + 1] /\ i + 1 \in 1 .. Len(r)
        /\ \A f : ToRename(r, f) <=> Head(r) = <<"rename", f>> \/ ToRename(t, f)
    <3> HIDE DEF t
    <3> QED BY <2>1, <2>2, OrderlyTail DEF t
  <2>5. 1 \in 1 .. Len(r)
    BY <2>4
  <2> QED BY <2>3, <2>4, <2>5
<1> HIDE DEF t
<1>2. k \in 0 .. n - 2
  <2>1. Head(r)[1] = "rename" /\ Head(r)[2] = k
    OBVIOUS
  <2> QED BY <1>1, <2>1, OpsApart
<1>3. k \in D /\ n > 1 /\ k < n - 1
  <2>1. r[1][1] = "rename" /\ r[1][2] = k
    BY <1>1
  <2>2. k \in D
    BY <1>1, <2>1 DEF Rolls, Moving
  <2> QED BY <1>2, <2>2
<1>4. FreeAbove(r, D)
  BY <1>3 DEF Rolls
<1>5. ASSUME NEW i \in 1 .. Len(t), t[i][1] = "rename" PROVE t[i][2] \in D /\ t[i][2] \in 0 .. n - 2 /\ t[i][2] < k
  <2>1. t[i] = r[i + 1] /\ i + 1 \in 1 .. Len(r) /\ 1 < i + 1
    BY <1>1
  <2>2. t[i] \in Ops(n)
    BY <1>1, ElementOfSeq DEF Orderly
  <2>3. t[i][2] \in 0 .. n - 2
    BY <1>5, <2>2, OpsApart
  <2>4. t[i][2] \in D
    BY <1>5, <2>1 DEF Rolls, Moving
  <2>5. r[1][1] = "rename" /\ r[1][2] = k
    BY <1>1
  <2>6. r[1][2] > r[i + 1][2]
    BY <1>1, <1>5, <2>1, <2>5 DEF Rolls, Orderly
  <2> QED BY <1>2, <2>1, <2>3, <2>4, <2>5, <2>6
<1>6. ASSUME NEW f, ToRename(t, f) PROVE f \in D /\ f < k
  <2>1. PICK i \in 1 .. Len(t) : t[i] = <<"rename", f>>
    BY <1>6 DEF ToRename
  <2>2. t[i][1] = "rename" /\ t[i][2] = f
    BY <2>1
  <2> QED BY <1>5, <2>2
<1>7. k + 1 \notin D
  <2> SUFFICES ASSUME k + 1 \in D PROVE FALSE
    OBVIOUS
  <2>1. \/ ToRename(r, k + 1) \/ r[1] = <<"delete", k + 1>>
        \/ \A i \in 1 .. Len(r) : r[i][1] = "rename" => k + 1 > r[i][2] + 1
    BY <1>4 DEF FreeAbove
  <2>2. ~ToRename(r, k + 1)
    <3>1. ToRename(t, k + 1) => k + 1 < k
      BY <1>6
    <3> QED BY <1>1, <1>2, <3>1
  <2>3. r[1] # <<"delete", k + 1>> /\ r[1][1] = "rename" /\ r[1][2] = k
    BY <1>1
  <2>4. k + 1 > k + 1
    BY <1>1, <2>1, <2>2, <2>3
  <2> QED BY <1>2, <2>4
<1>8. Moving(t, E)
  <2> SUFFICES ASSUME NEW i \in 1 .. Len(t), t[i][1] = "rename" PROVE t[i][2] \in E
    BY DEF Moving
  <2> QED BY <1>2, <1>5
<1>9. Indexed(t, E, vi)
  <2> SUFFICES ASSUME NEW f \in E PROVE f <= IF ToRename(t, f) THEN vi ELSE vi + 1
    BY <1>1 DEF Indexed
  <2>0. k <= vi
    BY <1>1, <1>3 DEF Rolls, Indexed
  <2>1. CASE ToRename(t, f)
    <3>1. f \in D /\ ToRename(r, f)
      BY <1>1, <1>6, <2>1
    <3> QED BY <2>1, <3>1 DEF Rolls, Indexed
  <2>2. CASE ~ToRename(t, f)
    <3>1. CASE f = k + 1
      BY <1>2, <2>0, <2>2, <3>1
    <3>2. CASE f # k + 1
      <4>1. f \in D /\ ~ToRename(r, f)
        BY <1>1, <2>2, <3>2
      <4>2. f <= vi + 1
        BY <4>1 DEF Rolls, Indexed
      <4> QED BY <2>2, <4>2
    <3> QED BY <3>1, <3>2
  <2> QED BY <2>1, <2>2
<1>10. FreeAbove(t, E)
  <2> SUFFICES ASSUME NEW f \in E
               PROVE  \/ ToRename(t, f)
                      \/ f > 0 /\ \A i \in 1 .. Len(t) : t[i][1] = "rename" => f > t[i][2] + 1
    BY DEF FreeAbove
  <2>1. CASE f = k + 1
    <3>1. \A i \in 1 .. Len(t) : t[i][1] = "rename" => t[i][2] \in 0 .. n - 2 /\ t[i][2] < k
      BY <1>5
    <3> QED BY <1>2, <2>1, <3>1
  <2>2. CASE f # k + 1
    <3>0. f \in D /\ f # k
      BY <2>2
    <3>1. \/ ToRename(r, f) \/ r[1] = <<"delete", f>>
          \/ f > 0 /\ \A i \in 1 .. Len(r) : r[i][1] = "rename" => f > r[i][2] + 1
      BY <1>4, <3>0 DEF FreeAbove
    <3>2. r[1] # <<"delete", f>>
      BY <1>1
    <3> QED BY <1>1, <3>0, <3>1, <3>2
  <2> QED BY <2>1, <2>2
<1>11. Rolls(t, E, n, vi)
  BY <1>1, <1>8, <1>9, <1>10 DEF Rolls
<1> QED BY <1>3, <1>7, <1>11 DEF t

\* bee.log is created; there was none, unless it is the only volume.
LEMMA AfterOpen ==
    ASSUME NEW n \in Nat \ {0}, NEW D \in SUBSET (0 .. n - 1), NEW vi \in Nat, NEW r,
           Rolls(r, D, n, vi), r # <<>>, Head(r) = <<"open", 0>>,
           NEW x \in Nat, x = IF vi + 1 <= n THEN vi + 1 ELSE n
    PROVE  (0 \in D => n = 1) /\ Tail(r) = <<>> /\ Rolls(Tail(r), D \cup {0}, n, x)
<1>1. /\ Tail(r) = <<>> /\ Orderly(<<>>, n) /\ Moving(<<>>, D \cup {0}) /\ r[1] = <<"open", 0>>
      /\ \A f : ~ToRename(r, f)
  <2>1. Orderly(r, n)
    BY DEF Rolls
  <2>2. Tail(r) = <<>> /\ Head(r) = r[1] /\ \A f : ToRename(r, f) <=> Head(r) = <<"rename", f>> \/ ToRename(Tail(r), f)
    BY <2>1, OrderlyTail
  <2>3. \A f : Head(r) # <<"rename", f>>
    OBVIOUS
  <2>4. Len(<<>>) = 0
    BY EmptySeq
  <2>5. \A f : ~ToRename(<<>>, f)
    BY <2>4 DEF ToRename
  <2> QED BY <2>2, <2>3, <2>5, NoRolling
<1>2. 0 \in D => n = 1
  <2> SUFFICES ASSUME 0 \in D, n > 1 PROVE FALSE
    OBVIOUS
  <2>1. \/ ToRename(r, 0) \/ r[1] = <<"delete", 0>> \/ 0 > 0
    BY DEF Rolls, FreeAbove
  <2>2. r[1] # <<"delete", 0>>
    BY <1>1
  <2> QED BY <1>1, <2>1, <2>2
<1>3. ASSUME NEW f \in D \cup {0} PROVE f <= x
  <2>1. f \in D => f <= vi + 1
    BY <1>1 DEF Rolls, Indexed
  <2> QED BY <2>1
<1>4. Rolls(<<>>, D \cup {0}, n, x)
  BY <1>1, <1>3 DEF Rolls, Indexed
<1> QED BY <1>1, <1>2, <1>4

\* The operations as RollingVolumes puts them together: a of them delete, m rename.
Assembled(r, n, s, a, m) ==
    /\ r \in Seq(Ops(n)) /\ Len(r) = a + m + 1 /\ a \in 0 .. 1 /\ r # <<>>
    /\ \A i \in 1 .. a : r[i] = <<"delete", n - 1>>
    /\ \A i \in a + 1 .. a + m : r[i] = <<"rename", s[i - a]>> /\ i - a \in 1 .. m
    /\ r[a + m + 1] = <<"open", 0>>

LEMMA PutTogether ==
    ASSUME NEW n \in Nat, NEW M \in SUBSET (0 .. n - 2), NEW s, Enumerates(s, M),
           Cardinality(M) \in Nat, NEW first, first = <<>> \/ first = << <<"delete", n - 1>> >>
    PROVE  /\ Assembled(first \o renames(s) \o << <<"open", 0>> >>, n, s, Len(first), Cardinality(M))
           /\ Len(first) = 0 <=> first = <<>>
<1> DEFINE a == Len(first)
           m == Cardinality(M)
           ren == renames(s)
           lastOp == << <<"open", 0>> >>
           b == first \o ren
           r == b \o lastOp
<1>1. /\ s \in [1 .. m -> M] /\ ren = [i \in 1 .. m |-> <<"rename", s[i]>>]
  BY DEF Enumerates, renames
<1>2. ren \in Seq(Ops(n)) /\ Len(ren) = m /\ \A i \in 1 .. m : ren[i] = <<"rename", s[i]>>
  <2>1. \A i \in 1 .. m : <<"rename", s[i]>> \in Ops(n)
    BY <1>1 DEF Ops
  <2>2. ren \in [1 .. m -> Ops(n)] /\ \A i \in 1 .. m : ren[i] = <<"rename", s[i]>>
    BY <1>1, <2>1
  <2>3. m \in Nat
    OBVIOUS
  <2> HIDE DEF ren, m
  <2> QED BY <2>2, <2>3
<1>3. /\ first \in Seq(Ops(n)) /\ a \in 0 .. 1 /\ (a = 0 <=> first = <<>>)
      /\ \A i \in 1 .. a : first[i] = <<"delete", n - 1>>
  <2>1. CASE first = <<>>
    BY <2>1, EmptySeq
  <2>2. CASE first = << <<"delete", n - 1>> >>
    <3>1. <<"delete", n - 1>> \in Ops(n)
      BY DEF Ops
    <3> QED BY <2>2, <3>1
  <2> QED BY <2>1, <2>2
<1>4. lastOp \in Seq(Ops(n)) /\ Len(lastOp) = 1 /\ lastOp[1] = <<"open", 0>>
  <2>1. <<"open", 0>> \in Ops(n)
    BY DEF Ops
  <2> QED BY <2>1
<1> HIDE DEF a, m, ren, lastOp, b, r
<1>0. m \in Nat
  BY DEF m
<1>5. /\ b \in Seq(Ops(n)) /\ Len(b) = a + m
      /\ \A i \in 1 .. a + m : b[i] = IF i <= a THEN first[i] ELSE ren[i - a]
  <2>1. /\ b \in Seq(Ops(n)) /\ Len(b) = Len(first) + Len(ren)
        /\ \A i \in 1 .. Len(first) + Len(ren) : b[i] = IF i <= Len(first) THEN first[i] ELSE ren[i - Len(first)]
    <3>1. first \in Seq(Ops(n)) /\ ren \in Seq(Ops(n))
      BY <1>2, <1>3
    <3> QED BY <3>1, ConcatProperties DEF b
  <2> QED BY <1>2, <2>1 DEF a
<1>6. /\ r \in Seq(Ops(n)) /\ Len(r) = a + m + 1
      /\ \A i \in 1 .. a + m + 1 : r[i] = IF i <= a + m THEN b[i] ELSE lastOp[i - (a + m)]
  <2>1. /\ r \in Seq(Ops(n)) /\ Len(r) = Len(b) + Len(lastOp)
        /\ \A i \in 1 .. Len(b) + Len(lastOp) : r[i] = IF i <= Len(b) THEN b[i] ELSE lastOp[i - Len(b)]
    BY <1>4, <1>5, ConcatProperties DEF r
  <2> QED BY <1>4, <1>5, <2>1
<1>7. ASSUME NEW i \in 1 .. a PROVE r[i] = <<"delete", n - 1>>
  <2>1. i \in 1 .. a + m + 1 /\ i \in 1 .. a + m /\ i <= a
    BY <1>0, <1>3
  <2> QED BY <1>3, <1>5, <1>6, <2>1
<1>8. ASSUME NEW i \in a + 1 .. a + m PROVE r[i] = <<"rename", s[i - a]>> /\ i - a \in 1 .. m
  <2>1. i \in 1 .. a + m + 1 /\ i \in 1 .. a + m /\ ~(i <= a) /\ i - a \in 1 .. m
    BY <1>0, <1>3
  <2>2. r[i] = b[i] /\ b[i] = ren[i - a]
    BY <1>5, <1>6, <2>1
  <2> QED BY <1>2, <2>1, <2>2
<1>9. r[a + m + 1] = <<"open", 0>>
  <2>1. a + m + 1 \in 1 .. a + m + 1 /\ ~(a + m + 1 <= a + m) /\ (a + m + 1) - (a + m) = 1
    BY <1>0, <1>3
  <2> QED BY <1>4, <1>6, <2>1
<1>10. r # <<>>
  <2>1. Len(<<>>) = 0
    BY EmptySeq
  <2> QED BY <1>0, <1>3, <1>6, <2>1
<1>11. Assembled(r, n, s, a, m)
  BY <1>3, <1>6, <1>7, <1>8, <1>9, <1>10 DEF Assembled
<1> QED BY <1>3, <1>11 DEF r, b, lastOp, ren, a, m

\* When bee.log is full, and no other volume is above the index.
LEMMA RollingStarts ==
    ASSUME volume_count \in Nat \ {0}, appender.volume_index \in Nat,
           DOMAIN disk \subseteq 0 .. volume_count - 1,
           Rolls(<<>>, DOMAIN disk, volume_count, appender.volume_index)
    PROVE  /\ Rolls(RollingVolumes, DOMAIN disk, volume_count, appender.volume_index)
           /\ RollingVolumes # <<>>
<1> DEFINE n == volume_count
           D == DOMAIN disk
           vi == appender.volume_index
           first == IF doomed = {} THEN <<>> ELSE << <<"delete", last_volume>> >>
           s == descending(shifted)
           m == Cardinality(shifted)
           a == Len(first)
           r == first \o renames(s) \o << <<"open", 0>> >>
<1>0. last_volume = n - 1 /\ RollingVolumes = r
  BY DEF last_volume, RollingVolumes
<1>1. n \in Nat \ {0} /\ vi \in Nat /\ D \in SUBSET (0 .. n - 1) /\ 0 \in D /\ \A f \in D : f <= vi
  <2>1. ~\E f : ToRename(<<>>, f)
    BY EmptySeq DEF ToRename
  <2> QED BY <2>1 DEF Rolls, Indexed
<1>2. shifted = {k \in D : n > 1 /\ k < n - 1}
  BY DEF shifted, doomed, last_volume, volumes
<1>3. /\ n > 1 /\ n - 1 \in D => first = << <<"delete", n - 1>> >>
      /\ first = <<>> \/ (first = << <<"delete", n - 1>> >> /\ n > 1)
  BY <1>0, <1>1 DEF doomed, last_volume
<1>4. Enumerates(s, shifted) /\ m \in Nat /\ shifted \in SUBSET (0 .. n - 2)
  <2>1. shifted \in SUBSET (0 .. n - 2) /\ shifted \in SUBSET (0 .. n - 1) /\ n \in Nat
    BY <1>1, <1>2
  <2> QED BY <2>1, Descends
<1> HIDE DEF first, s, a, m
<1>5. /\ r \in Seq(Ops(n)) /\ Len(r) = a + m + 1 /\ a \in 0 .. 1 /\ r # <<>>
      /\ a = 0 <=> first = <<>>
      /\ \A i \in 1 .. a : r[i] = <<"delete", n - 1>>
      /\ \A i \in a + 1 .. a + m : r[i] = <<"rename", s[i - a]>> /\ i - a \in 1 .. m
      /\ r[a + m + 1] = <<"open", 0>>
  <2>1. n \in Nat /\ (first = <<>> \/ first = << <<"delete", n - 1>> >>) /\ Cardinality(shifted) \in Nat
    BY <1>1, <1>3, <1>4 DEF m
  <2>2. Assembled(r, n, s, a, m) /\ (a = 0 <=> first = <<>>)
    <3> HIDE DEF n
    <3> QED BY <1>4, <2>1, PutTogether DEF a, m
  <2> HIDE DEF n, r
  <2> QED BY <2>2 DEF Assembled
<1>6. /\ s \in [1 .. m -> shifted] /\ \A x \in shifted : \E i \in 1 .. m : s[i] = x
      /\ \A i, j \in 1 .. m : i < j => s[i] > s[j]
  BY <1>4 DEF Enumerates, Range, m
<1> HIDE DEF n, D, vi, r
<1>7. \A i \in 1 .. a + m + 1 : i \in 1 .. a \/ i \in a + 1 .. a + m \/ i = a + m + 1
  BY <1>4, <1>5
<1>8. ASSUME NEW i \in 1 .. a + m + 1, r[i][1] = "rename"
      PROVE  i \in a + 1 .. a + m /\ r[i] = <<"rename", s[i - a]>> /\ i - a \in 1 .. m /\ r[i][2] = s[i - a]
  <2>1. i \notin 1 .. a
    BY <1>5, <1>8
  <2>2. i # a + m + 1
    BY <1>5, <1>8
  <2>3. i \in a + 1 .. a + m
    BY <1>7, <2>1, <2>2
  <2> QED BY <1>5, <2>3
<1>9. Orderly(r, n)
  <2>1. ASSUME NEW i \in 1 .. a + m + 1 PROVE r[i] = <<"open", 0>> <=> i = a + m + 1
    <3>1. CASE i \in 1 .. a
      BY <1>4, <1>5, <3>1
    <3>2. CASE i \in a + 1 .. a + m
      BY <1>4, <1>5, <3>2
    <3> QED BY <1>5, <1>7, <3>1, <3>2
  <2>2. ASSUME NEW i \in 1 .. a + m + 1, r[i] = <<"delete", n - 1>> PROVE i = 1 /\ n > 1
    <3>1. i \in 1 .. a
      <4>1. CASE i \in a + 1 .. a + m
        BY <1>5, <2>2, <4>1
      <4>2. CASE i = a + m + 1
        BY <1>5, <2>2, <4>2
      <4> QED BY <1>7, <4>1, <4>2
    <3>2. i = 1 /\ a # 0
      BY <1>5, <3>1
    <3> QED BY <1>3, <1>5, <3>2 DEF n
  <2>3. ASSUME NEW i \in 1 .. a + m + 1, NEW j \in 1 .. a + m + 1, i < j,
               r[i][1] = "rename", r[j][1] = "rename"
        PROVE  r[i][2] > r[j][2]
    <3>1. r[i][2] = s[i - a] /\ r[j][2] = s[j - a] /\ i - a \in 1 .. m /\ j - a \in 1 .. m
      BY <1>8, <2>3
    <3>2. i - a < j - a
      BY <1>5, <2>3
    <3> QED BY <1>6, <3>1, <3>2
  <2> QED BY <1>5, <2>1, <2>2, <2>3 DEF Orderly
<1>10. Moving(r, D)
  <2> SUFFICES ASSUME NEW i \in 1 .. a + m + 1, r[i][1] = "rename" PROVE r[i][2] \in D
    BY <1>5 DEF Moving
  <2>1. r[i][2] = s[i - a] /\ i - a \in 1 .. m
    BY <1>8
  <2> QED BY <1>2, <1>6, <2>1 DEF D
<1>11. Indexed(r, D, vi)
  BY <1>1, <1>5 DEF Indexed, D, vi
<1>12. ASSUME n > 1 PROVE FreeAbove(r, D)
  <2> SUFFICES ASSUME NEW f \in D PROVE ToRename(r, f) \/ r[1] = <<"delete", f>>
    BY DEF FreeAbove
  <2>1. CASE f \in shifted
    <3>1. PICK i \in 1 .. m : s[i] = f
      BY <1>6, <2>1
    <3>2. i + a \in a + 1 .. a + m /\ (i + a) - a = i /\ i + a \in 1 .. a + m + 1
      BY <1>4, <1>5
    <3>3. r[i + a] = <<"rename", f>>
      BY <1>5, <3>1, <3>2
    <3> QED BY <1>5, <3>2, <3>3 DEF ToRename
  <2>2. CASE f \notin shifted
    <3>1. f = n - 1 /\ n - 1 \in D
      <4>1. f \in 0 .. n - 1
        BY <1>1 DEF D, n
      <4>2. ~(f < n - 1)
        BY <1>2, <1>12, <2>2 DEF D, n
      <4> QED BY <1>1, <4>1, <4>2 DEF n
    <3>2. a # 0 /\ 1 \in 1 .. a
      <4>1. first = << <<"delete", n - 1>> >>
        BY <1>3, <1>12, <3>1 DEF n, D
      <4>2. first # <<>>
        BY <4>1
      <4> QED BY <1>5, <4>2
    <3>3. r[1] = <<"delete", n - 1>>
      BY <1>5, <3>2
    <3> QED BY <3>1, <3>3
  <2> QED BY <2>1, <2>2
<1>13. Rolls(r, D, n, vi)
  BY <1>5, <1>9, <1>10, <1>11, <1>12 DEF Rolls
<1> QED BY <1>0, <1>5, <1>13 DEF r, D, n, vi

-----------------------------------------------------------------------------
(* The invariant.                                                          *)

Task == {<<"open">>, <<"close">>} \cup {<<"append", l>> : l \in Line}
Appender == [open : BOOLEAN, file : Int, volume_index : Nat, size : Nat, lines : Nat]

LogTypeOK ==
    /\ volume_count \in Nat /\ clock \in Nat /\ written \in Nat /\ to_append \in Nat
    /\ opened \in BOOLEAN /\ running \in BOOLEAN
    /\ queue \in Seq(Task) /\ writer \in [Writer -> Line] /\ appender \in Appender
    /\ Files(disk)

Stored == volume_count > 0 => Volumes(disk, volume_count) /\ Contiguous(disk, volume_count, written)

\* The file of the appender is there, or a rolling is about to create it.
Ready ==
    IF volume_count = 0 THEN rolling = <<>> /\ appender.file \in DOMAIN disk
    ELSE appender.file = 0 /\ Rolls(rolling, DOMAIN disk, volume_count, appender.volume_index)

Appends(q) == \A i \in 1 .. Len(q) : q[i][1] = "append"
ClosesLast(q) ==
    /\ q # <<>> /\ q[Len(q)] = <<"close">>
    /\ \A i \in 1 .. Len(q) - 1 : q[i][1] = "append"

\* Close is posted after all the lines, and no thread is about to post another.
Phase ==
    \/ ~running /\ ~opened /\ queue = <<>> /\ to_append = 0 /\ rolling = <<>>
    \/ running /\ ~opened /\ queue = << <<"open">> >> /\ to_append = 0 /\ rolling = <<>>
    \/ running /\ opened /\ Appends(queue) /\ to_append = Len(queue) /\ Ready
    \/ running /\ ~opened /\ ClosesLast(queue) /\ to_append = Len(queue) - 1 /\ Ready
WritersGone == ~opened => \A w \in Writer : writer[w] = NoLine

LoggerOK == LogTypeOK /\ Stored /\ Phase /\ WritersGone

LEMMA LogPop ==
    ASSUME NEW q \in Seq(Task), q # <<>>, Head(q)[1] = "append"
    PROVE  /\ Tail(q) \in Seq(Task) /\ Len(q) \in Nat /\ Len(Tail(q)) = Len(q) - 1
           /\ Head(q)[2] \in Line
           /\ Appends(q) => Appends(Tail(q))
           /\ ClosesLast(q) => ClosesLast(Tail(q))
<1> DEFINE n == Len(q)
           t == Tail(q)
<1>1. /\ t \in Seq(Task) /\ n \in Nat \ {0} /\ Len(t) = n - 1 /\ Head(q) = q[1] /\ Head(q) \in Task
      /\ \A i \in 1 .. n - 1 : t[i] = q[i + 1]
  BY Popped
<1>2. Head(q)[2] \in Line
  BY <1>1 DEF Task
<1> HIDE DEF n, t
<1>3. Appends(q) => Appends(t)
  BY <1>1 DEF Appends, n
<1>4. ASSUME ClosesLast(q) PROVE ClosesLast(t)
  <2>1. n # 1
    BY <1>1, <1>4 DEF ClosesLast, n
  <2>2. t # <<>>
    BY <1>1, <2>1, EmptySeq
  <2>3. t[n - 1] = <<"close">>
    <3>1. n - 1 \in 1 .. n - 1 /\ (n - 1) + 1 = n
      BY <1>1, <2>1
    <3>2. t[n - 1] = q[(n - 1) + 1]
      BY <1>1, <3>1
    <3> QED BY <1>4, <3>1, <3>2 DEF ClosesLast, n
  <2>4. ASSUME NEW i \in 1 .. (n - 1) - 1 PROVE t[i][1] = "append"
    <3>1. i \in 1 .. n - 1 /\ i + 1 \in 1 .. n - 1
      BY <1>1
    <3> QED BY <1>1, <1>4, <3>1 DEF ClosesLast, n
  <2> QED BY <1>1, <2>2, <2>3, <2>4 DEF ClosesLast
<1> QED BY <1>1, <1>2, <1>3, <1>4 DEF n, t

LEMMA Opens ==
    ASSUME NEW d, d \in [DOMAIN d -> Seq(Entry)], NEW f, NEW append \in BOOLEAN
    PROVE  file_open(d, f, append) = IF append /\ f \in DOMAIN d THEN d ELSE created(d, f)
<1>1. CASE append /\ f \in DOMAIN d
  <2>1. file_open(d, f, append) = [g \in DOMAIN d |-> d[g]]
    BY <1>1 DEF file_open
  <2> QED BY <1>1, <2>1
<1>2. CASE ~(append /\ f \in DOMAIN d)
  BY <1>2 DEF file_open, created
<1> QED BY <1>1, <1>2

LEMMA NoLineIsOne == NoLine \in Line
BY DEF NoLine, Line

LEMMA MinOfTwo ==
    ASSUME NEW a \in Int, NEW b \in Int
    PROVE  Min({a, b}) = IF a <= b THEN a ELSE b
<1> DEFINE x == IF a <= b THEN a ELSE b
<1>1. x \in {a, b} /\ \A y \in {a, b} : x <= y
  OBVIOUS
<1>2. \A y \in {a, b} : (\A z \in {a, b} : y <= z) => y = x
  OBVIOUS
<1> HIDE DEF x
<1>3. Min({a, b}) = x
  BY <1>1, <1>2 DEF Min
<1> QED BY <1>3 DEF x

\* The highest index, with 0 when there is no file.
LEMMA Highest ==
    ASSUME NEW n \in Nat \ {0}, NEW D \in SUBSET (0 .. n - 1)
    PROVE  Max({0} \cup D) \in 0 .. n - 1 /\ \A f \in {0} \cup D : f <= Max({0} \cup D)
<1> DEFINE S == {0} \cup D
           T == {k \in 0 .. n - 1 : \A u \in SUBSET (0 .. k) : u # {} => \E x \in u : \A y \in u : x >= y}
<1>0. n - 1 \in Nat
  OBVIOUS
<1>1. T \in SUBSET (0 .. n - 1) /\ 0 \in T
  <2>1. \A u \in SUBSET (0 .. 0) : u # {} => u = {0}
    <3>1. 0 .. 0 = {0}
      OBVIOUS
    <3> QED BY <3>1
  <2>2. \A u \in SUBSET (0 .. 0) : u # {} => \E x \in u : \A y \in u : x >= y
    BY <2>1
  <2>3. 0 \in 0 .. n - 1
    OBVIOUS
  <2> QED BY <2>2, <2>3
<1>2. ASSUME NEW k \in T, k < n - 1 PROVE k + 1 \in T
  <2> SUFFICES ASSUME NEW u \in SUBSET (0 .. k + 1), u # {}
               PROVE  \E x \in u : \A y \in u : x >= y
    BY <1>2
  <2>1. CASE k + 1 \in u
    BY <2>1
  <2>2. CASE k + 1 \notin u
    <3>1. u \in SUBSET (0 .. k)
      BY <2>2
    <3> QED BY <3>1
  <2> QED BY <2>1, <2>2
<1>3. n - 1 \in T
  <2>1. T = 0 .. n - 1
    <3> HIDE DEF T
    <3> QED BY <1>0, <1>1, <1>2, UpTo
  <2>2. n - 1 \in 0 .. n - 1
    BY <1>0
  <2> HIDE DEF T
  <2> QED BY <2>1, <2>2
<1>4. S \in SUBSET (0 .. n - 1) /\ S # {}
  OBVIOUS
<1>5. \E x \in S : \A y \in S : x >= y
  BY <1>3, <1>4
<1>6. Max(S) \in S /\ \A y \in S : Max(S) >= y
  <2> HIDE DEF S, T
  <2> QED BY <1>5 DEF Max
<1> QED BY <1>4, <1>6

-----------------------------------------------------------------------------
(* The steps.                                                              *)

LEMMA LoggerStarts == LoggerInit => LoggerOK
<1> SUFFICES ASSUME LoggerInit PROVE LoggerOK
  OBVIOUS
<1>1. DOMAIN disk = {} /\ disk \in [{} -> Seq(Entry)]
  BY DEF LoggerInit
<1>2. volume_count \in Nat
  BY LoggerAssumption DEF LoggerInit
<1>3. NoAppender \in Appender
  BY DEF NoAppender, Appender
<1>4. writer \in [Writer -> Line]
  BY NoLineIsOne DEF LoggerInit
<1>5. LogTypeOK
  BY <1>1, <1>2, <1>3, <1>4, EmptySeq DEF LoggerInit, LogTypeOK, Files
<1>6. Stored
  BY <1>1, <1>2, NothingWritten DEF LoggerInit, Stored, Volumes
<1>7. Phase /\ WritersGone
  BY DEF LoggerInit, Phase, WritersGone
<1> QED BY <1>5, <1>6, <1>7 DEF LoggerOK

\* The line is formatted whole.
LEMMA FormatsWhole ==
    ASSUME NEW kind, NEW len \in Nat
    PROVE  GENERAL_LOG_FORMAT(kind, len) = prefix_length(kind) + len
<1> DEFINE prefix == prefix_length(kind)
           available == MsgLength - prefix
           msg_length == IF len >= available THEN len + prefix + 1 ELSE MsgLength
<1>1. prefix \in 1 .. 2 /\ MsgLength \in Nat
  BY LoggerAssumption DEF prefix_length
<1> HIDE DEF prefix
<1>2. msg_length - prefix - 1 \in Int /\ len <= msg_length - prefix - 1
  BY <1>1
<1>3. Min({len, msg_length - prefix - 1}) = len
  <2> HIDE DEF msg_length
  <2> QED BY <1>2, MinOfTwo
<1> QED BY <1>3 DEF GENERAL_LOG_FORMAT, prefix

LEMMA FormatStep ==
    ASSUME LoggerOK, NEW w \in Writer, NEW kind, format(w, kind)
    PROVE  LoggerOK'
<1>1. PICK len \in Lengths :
        writer' = [writer EXCEPT ![w] = [len |-> GENERAL_LOG_FORMAT(kind, len),
                                         text |-> prefix_length(kind) + len]]
  BY DEF format
<1>2. len \in Nat /\ prefix_length(kind) + len \in Nat
  BY LoggerAssumption DEF prefix_length
<1>3. [len |-> GENERAL_LOG_FORMAT(kind, len), text |-> prefix_length(kind) + len] \in Line
  BY <1>2, FormatsWhole DEF Line
<1>4. writer' \in [Writer -> Line]
  <2>1. writer \in [Writer -> Line]
    BY DEF LoggerOK, LogTypeOK
  <2> QED BY <1>1, <1>3, <2>1
<1>5. LogTypeOK'
  BY <1>4 DEF format, LoggerOK, LogTypeOK, Files
<1>6. Stored' /\ Phase' /\ WritersGone'
  BY DEF format, LoggerOK, Stored, Phase, Ready, WritersGone
<1> QED BY <1>5, <1>6 DEF LoggerOK

LEMMA PostStep == ASSUME LoggerOK, NEW w \in Writer, Append_post(w) PROVE LoggerOK'
<1> USE DEF LoggerOK
<1>1. opened
  BY DEF Append_post, WritersGone
<1>2. running /\ Appends(queue) /\ to_append = Len(queue) /\ Ready
  BY <1>1 DEF Phase
<1> DEFINE x == <<"append", writer[w]>>
<1>3. x \in Task /\ queue \in Seq(Task) /\ x[1] = "append"
  BY DEF LogTypeOK, Task
<1>4. queue' = Append(queue, x)
  BY DEF Append_post
<1> HIDE DEF x
<1>5. /\ queue' \in Seq(Task) /\ Len(queue) \in Nat /\ Len(queue') = Len(queue) + 1
      /\ queue'[Len(queue) + 1] = x /\ \A i \in 1 .. Len(queue) : queue'[i] = queue[i]
  BY <1>3, <1>4, Pushed
<1>6. Appends(queue')
  BY <1>2, <1>3, <1>5 DEF Appends
<1>7. LogTypeOK'
  BY <1>5, NoLineIsOne DEF Append_post, LogTypeOK, Files
<1>8. Phase'
  BY <1>1, <1>2, <1>5, <1>6 DEF Append_post, Phase, Ready
<1>9. Stored' /\ WritersGone'
  BY <1>1 DEF Append_post, Stored, WritersGone
<1> QED BY <1>7, <1>8, <1>9

LEMMA OpenStep == ASSUME LoggerOK, Open PROVE LoggerOK'
<1> USE DEF LoggerOK
<1>1. queue' \in Seq(Task)
  BY DEF Open, Task
<1>2. LogTypeOK' /\ Stored' /\ WritersGone'
  BY <1>1 DEF Open, LogTypeOK, Files, Stored, WritersGone
<1>3. Phase'
  BY DEF Open, Phase
<1> QED BY <1>2, <1>3

LEMMA CloseStep == ASSUME LoggerOK, Close PROVE LoggerOK'
<1> USE DEF LoggerOK
<1>1. running /\ Appends(queue) /\ to_append = Len(queue) /\ Ready
  BY DEF Close, Phase
<1> DEFINE x == <<"close">>
<1>3. x \in Task /\ queue \in Seq(Task)
  BY DEF LogTypeOK, Task
<1>4. queue' = Append(queue, x)
  BY DEF Close
<1>5. /\ queue' \in Seq(Task) /\ Len(queue) \in Nat /\ Len(queue') = Len(queue) + 1
      /\ queue'[Len(queue) + 1] = x /\ \A i \in 1 .. Len(queue) : queue'[i] = queue[i]
  <2> HIDE DEF x
  <2> QED BY <1>3, <1>4, Pushed
<1>6. ClosesLast(queue')
  <2>1. queue' # <<>>
    BY <1>5, EmptySeq
  <2> QED BY <1>1, <1>5, <2>1 DEF Appends, ClosesLast
<1>7. LogTypeOK'
  BY <1>5 DEF Close, LogTypeOK, Files
<1>8. Phase'
  BY <1>1, <1>5, <1>6 DEF Close, Phase, Ready
<1>9. Stored' /\ WritersGone'
  BY DEF Close, Stored, WritersGone
<1> QED BY <1>7, <1>8, <1>9

\* Who is first in the queue tells where the logger is.
LEMMA FirstInQueue ==
    ASSUME LoggerOK, queue # <<>>
    PROVE  /\ running /\ Head(queue) = queue[1] /\ Len(queue) \in Nat \ {0}
           /\ Head(queue)[1] = "open" => ~opened /\ queue = << <<"open">> >> /\ to_append = 0
           /\ Head(queue)[1] = "close" => ~opened /\ Len(queue) = 1 /\ to_append = 0
           /\ Head(queue)[1] = "append" =>
                  /\ \/ opened /\ Appends(queue) /\ to_append = Len(queue)
                     \/ ~opened /\ ClosesLast(queue) /\ to_append = Len(queue) - 1
                  /\ Ready
<1> DEFINE n == Len(queue)
<1>1. Head(queue) = queue[1] /\ n \in Nat \ {0}
  <2>1. queue \in Seq(Task)
    BY DEF LoggerOK, LogTypeOK
  <2> QED BY <2>1, Popped
<1> HIDE DEF n
<1>2. CASE queue = << <<"open">> >> /\ running /\ ~opened /\ to_append = 0
  <2>1. Head(queue)[1] = "open"
    BY <1>2
  <2> QED BY <1>1, <1>2, <2>1 DEF n
<1>3. CASE running /\ opened /\ Appends(queue) /\ to_append = n /\ Ready
  <2>1. Head(queue)[1] = "append"
    BY <1>1, <1>3 DEF Appends, n
  <2> QED BY <1>1, <1>3, <2>1 DEF n
<1>4. CASE running /\ ~opened /\ ClosesLast(queue) /\ to_append = n - 1 /\ Ready
  <2>1. CASE n = 1
    <3>1. Head(queue)[1] = "close"
      BY <1>1, <1>4, <2>1 DEF ClosesLast, n
    <3> QED BY <1>1, <1>4, <2>1, <3>1 DEF n
  <2>2. CASE n # 1
    <3>1. Head(queue)[1] = "append"
      BY <1>1, <1>4, <2>2 DEF ClosesLast, n
    <3> QED BY <1>1, <1>4, <3>1 DEF n
  <2> QED BY <2>1, <2>2
<1> QED BY <1>2, <1>3, <1>4 DEF LoggerOK, Phase, n

LEMMA InnerOpenStep == ASSUME LoggerOK, InnerOpen PROVE LoggerOK'
<1> USE DEF LoggerOK
<1>1. running /\ ~opened /\ queue = << <<"open">> >> /\ to_append = 0 /\ rolling = <<>>
  BY FirstInQueue DEF InnerOpen, Idle
<1>2. queue' = <<>> /\ Len(<<>>) = 0 /\ <<>> \in Seq(Task)
  <2>1. Tail(<< <<"open">> >>) = <<>>
    OBVIOUS
  <2> QED BY <1>1, <2>1, EmptySeq DEF InnerOpen
<1> DEFINE f == IF volume_count > 0 THEN 0 ELSE GetFileName
           n == volume_count
<1>3. n \in Nat /\ f \in Nat /\ DOMAIN disk \subseteq Nat /\ disk \in [DOMAIN disk -> Seq(Entry)]
  BY DEF LogTypeOK, Files, GetFileName
<1>4. disk' = IF n > 0 /\ f \in DOMAIN disk THEN disk ELSE created(disk, f)
  <2>1. disk' = file_open(disk, f, n > 0)
    BY DEF InnerOpen
  <2>2. (n > 0) \in BOOLEAN
    OBVIOUS
  <2> HIDE DEF f, n
  <2> QED BY <1>3, <2>1, <2>2, Opens
<1>5. appender' = open_volume(f)
  BY DEF InnerOpen
<1> HIDE DEF f
<1>6. DOMAIN disk' = DOMAIN disk \cup {f} /\ disk' \in [DOMAIN disk' -> Seq(Entry)]
  BY <1>3, <1>4, CreatedFiles
<1>7. Files(disk')
  BY <1>3, <1>6 DEF Files
<1>8. n > 0 => /\ f = 0 /\ Volumes(disk', n) /\ Contiguous(disk', n, written)
  <2> SUFFICES ASSUME n > 0 PROVE f = 0 /\ Volumes(disk', n) /\ Contiguous(disk', n, written)
    OBVIOUS
  <2>1. f = 0 /\ Volumes(disk, n) /\ Contiguous(disk, n, written) /\ written \in Nat
    BY DEF f, Stored, LogTypeOK
  <2>2. CASE 0 \in DOMAIN disk
    BY <1>4, <2>1, <2>2
  <2>3. CASE 0 \notin DOMAIN disk
    <3>1. disk' = created(disk, 0)
      BY <1>4, <2>1, <2>3
    <3>2. n \in Nat \ {0}
      BY <1>3
    <3> HIDE DEF n
    <3> QED BY <2>1, <2>3, <3>1, <3>2, CreatesFirst
  <2> QED BY <2>2, <2>3
<1>9. /\ appender' \in Appender /\ appender'.file = f
      /\ n > 0 => \A g \in DOMAIN disk' : g <= appender'.volume_index
  <2>1. CASE n = 0
    <3>1. appender' = [open |-> TRUE, file |-> f, size |-> 0, lines |-> 0, volume_index |-> 0]
      BY <1>5, <2>1 DEF open_volume
    <3> QED BY <1>3, <2>1, <3>1 DEF Appender
  <2>2. CASE n > 0
    <3> DEFINE m == GetMaxVolumeIndex
    <3>1. m \in 0 .. n - 1 /\ \A g \in {0} \cup DOMAIN disk : g <= m
      <4>1. DOMAIN disk \subseteq 0 .. n - 1
        BY <2>2 DEF Stored, Volumes
      <4>2. n \in Nat \ {0}
        BY <1>3, <2>2
      <4> HIDE DEF n
      <4> QED BY <4>1, <4>2, Highest DEF GetMaxVolumeIndex, volumes
    <3> HIDE DEF m
    <3>2. Min({m, n}) = m
      <4>1. m \in Int /\ n \in Int /\ m <= n
        BY <1>3, <3>1
      <4> HIDE DEF n
      <4> QED BY <4>1, MinOfTwo
    <3>3. appender' = [open |-> TRUE, file |-> f, size |-> 0, lines |-> 0, volume_index |-> m]
      <4>1. volume_count # 0 /\ Min({GetMaxVolumeIndex, volume_count}) = m
        BY <1>3, <2>2, <3>2 DEF m
      <4> QED BY <1>5, <4>1 DEF open_volume
    <3>4. appender'.volume_index = m /\ appender'.file = f /\ appender' \in Appender
      BY <1>3, <3>1, <3>3 DEF Appender
    <3>5. \A g \in DOMAIN disk' : g <= m
      BY <1>6, <1>8, <2>2, <3>1
    <3> QED BY <3>4, <3>5
  <2> QED BY <1>3, <2>1, <2>2
<1>10. Ready'
  <2>1. rolling' = <<>> /\ n' = n
    BY <1>1 DEF InnerOpen
  <2>2. CASE n = 0
    BY <1>6, <1>9, <2>1, <2>2 DEF Ready
  <2>3. CASE n > 0
    <3>1. Rolls(<<>>, DOMAIN disk', n, appender'.volume_index)
      <4>1. 0 \in DOMAIN disk'
        BY <1>6, <1>8, <2>3
      <4>2. Indexed(<<>>, DOMAIN disk', appender'.volume_index)
        BY <1>9, <2>3 DEF Indexed
      <4> QED BY <4>1, <4>2, NoRolling DEF Rolls
    <3> QED BY <1>8, <1>9, <2>1, <2>3, <3>1 DEF Ready
  <2> QED BY <1>3, <2>2, <2>3
<1>11. LogTypeOK'
  BY <1>2, <1>7, <1>9 DEF InnerOpen, LogTypeOK
<1>12. Stored' /\ WritersGone'
  BY <1>8 DEF InnerOpen, Stored, WritersGone
<1>13. Phase'
  BY <1>1, <1>2, <1>10 DEF InnerOpen, Phase, Appends
<1> QED BY <1>11, <1>12, <1>13

LEMMA InnerCloseStep == ASSUME LoggerOK, InnerClose PROVE LoggerOK'
<1> USE DEF LoggerOK
<1>1. ~opened /\ Len(queue) = 1 /\ to_append = 0 /\ rolling = <<>> /\ queue \in Seq(Task) /\ queue # <<>>
  BY FirstInQueue DEF InnerClose, Idle, LogTypeOK
<1>2. Tail(queue) = <<>>
  <2>1. Tail(queue) \in Seq(Task) /\ Len(Tail(queue)) = 0
    BY <1>1, Popped
  <2> QED BY <2>1, EmptySeq
<1>3. NoAppender \in Appender /\ <<>> \in Seq(Task)
  BY EmptySeq DEF NoAppender, Appender
<1>4. LogTypeOK'
  BY <1>2, <1>3 DEF InnerClose, LogTypeOK, Files
<1>5. Stored' /\ WritersGone' /\ Phase'
  BY <1>1, <1>2 DEF InnerClose, Stored, WritersGone, Phase
<1> QED BY <1>4, <1>5

LEMMA FullStep == ASSUME LoggerOK, Append_full PROVE LoggerOK'
<1> USE DEF LoggerOK
<1>1. /\ \/ opened /\ Appends(queue) /\ to_append = Len(queue)
         \/ ~opened /\ ClosesLast(queue) /\ to_append = Len(queue) - 1
      /\ running /\ Ready /\ rolling = <<>> /\ volume_count > 0
  BY FirstInQueue DEF Append_full, Idle, full
<1>2. /\ volume_count \in Nat \ {0} /\ appender.volume_index \in Nat
      /\ DOMAIN disk \subseteq 0 .. volume_count - 1 /\ appender.file = 0
      /\ Rolls(<<>>, DOMAIN disk, volume_count, appender.volume_index)
  BY <1>1 DEF LogTypeOK, Appender, Stored, Volumes, Ready
<1>3. Rolls(RollingVolumes, DOMAIN disk, volume_count, appender.volume_index)
  BY <1>2, RollingStarts
<1>4. /\ appender' \in Appender /\ appender'.file = appender.file
      /\ appender'.volume_index = appender.volume_index
  BY DEF LogTypeOK, Appender, Append_full, closed
<1>5. Ready'
  BY <1>2, <1>3, <1>4 DEF Append_full, Ready
<1>6. LogTypeOK'
  BY <1>4 DEF Append_full, LogTypeOK, Files
<1>7. Phase'
  BY <1>1, <1>5 DEF Append_full, Phase
<1>8. Stored' /\ WritersGone'
  BY DEF Append_full, Stored, WritersGone
<1> QED BY <1>6, <1>7, <1>8

\* The files after an operation of a rolling, and what is left to do.
LEMMA RollStep == ASSUME LoggerOK, Roll PROVE LoggerOK'
<1> USE DEF LoggerOK
<1> DEFINE n == volume_count
           D == DOMAIN disk
           op == Head(rolling)
<1>1. rolling # <<>> /\ disk' = roll(op) /\ rolling' = Tail(rolling) /\ n' = n /\ written' = written
  BY DEF Roll
<1>2. /\ \/ opened /\ Appends(queue) /\ to_append = Len(queue)
         \/ ~opened /\ ClosesLast(queue) /\ to_append = Len(queue) - 1
      /\ running /\ Ready
  BY <1>1 DEF Phase
<1>3. /\ n \in Nat \ {0} /\ appender.volume_index \in Nat /\ written \in Nat
      /\ Volumes(disk, n) /\ Contiguous(disk, n, written) /\ appender.file = 0
      /\ Rolls(rolling, D, n, appender.volume_index) /\ D \in SUBSET (0 .. n - 1)
      /\ disk \in [D -> Seq(Entry)]
  <2>1. n # 0
    BY <1>1, <1>2 DEF Ready
  <2>2. n \in Nat \ {0} /\ Volumes(disk, n) /\ Contiguous(disk, n, written)
    BY <2>1 DEF LogTypeOK, Stored
  <2> QED BY <1>2, <2>1, <2>2 DEF LogTypeOK, Appender, Volumes, Ready
<1>4. op \in Ops(n)
  BY <1>1, <1>3, OrderlyTail DEF Rolls
<1> HIDE DEF op, n, D
<1>5. CASE op = <<"delete", n - 1>>
  <2>1. op[1] = "delete" /\ op[2] = n - 1
    BY <1>5
  <2>2. disk' = deleted(disk, n - 1) /\ appender' = appender
    BY <1>1, <2>1 DEF Roll, roll, without, deleted, op
  <2>3. Volumes(disk', n) /\ Contiguous(disk', n, written)
    BY <1>3, <2>2, DeletesOldest
  <2>4. DOMAIN disk' = D \ {n - 1}
    BY <2>2 DEF deleted, D
  <2>5. Rolls(rolling', DOMAIN disk', n, appender'.volume_index) /\ appender'.file = 0 /\ appender' \in Appender
    BY <1>1, <1>3, <1>5, <2>2, <2>4, AfterDelete DEF op, LogTypeOK
  <2> QED BY <2>3, <2>5, <1>1, <1>2, <1>3
          DEF Roll, LogTypeOK, Files, Volumes, Stored, Phase, Ready, WritersGone, n
<1>6. ASSUME op[1] = "rename", op = <<"rename", op[2]>> PROVE LoggerOK'
  <2> DEFINE k == op[2]
  <2>1. disk' = renamed(disk, k) /\ appender' = appender
    BY <1>1, <1>6 DEF Roll, roll, renamed, op
  <2>2. /\ k \in D /\ k < n - 1 /\ k + 1 \notin D
        /\ Rolls(rolling', (D \ {k}) \cup {k + 1}, n, appender.volume_index)
    <3>1. op = <<"rename", k>>
      BY <1>6
    <3> HIDE DEF k
    <3> QED BY <1>1, <1>3, <3>1, AfterRename DEF op
  <2> HIDE DEF k
  <2>3. Volumes(disk', n) /\ Contiguous(disk', n, written)
    BY <1>3, <2>1, <2>2, MovesUp DEF D
  <2>4. DOMAIN disk' = (D \ {k}) \cup {k + 1}
    BY <2>1 DEF renamed, D
  <2>5. Rolls(rolling', DOMAIN disk', n, appender'.volume_index) /\ appender'.file = 0 /\ appender' \in Appender
    BY <1>3, <2>1, <2>2, <2>4 DEF LogTypeOK
  <2> QED BY <2>3, <2>5, <1>1, <1>2, <1>3
          DEF Roll, LogTypeOK, Files, Volumes, Stored, Phase, Ready, WritersGone, n
<1>7. CASE op = <<"open", 0>>
  <2> DEFINE x == Min({appender.volume_index + 1, n})
  <2>1. x \in Nat /\ x = IF appender.volume_index + 1 <= n THEN appender.volume_index + 1 ELSE n
    <3>1. appender.volume_index + 1 \in Nat /\ n \in Nat
      BY <1>3
    <3>2. x = IF appender.volume_index + 1 <= n THEN appender.volume_index + 1 ELSE n
      BY <3>1, MinOfTwo
    <3> QED BY <3>1, <3>2
  <2>2. op[1] = "open"
    BY <1>7
  <2>3. appender' = [appender EXCEPT !.open = TRUE, !.size = 0, !.volume_index = x]
    BY <2>2 DEF Roll, op, n
  <2> HIDE DEF x
  <2>4. appender' \in Appender /\ appender'.file = 0 /\ appender'.volume_index = x
    BY <1>3, <2>1, <2>3 DEF LogTypeOK, Appender
  <2>5. disk' = created(disk, 0)
    <3>1. disk' = file_open(disk, 0, FALSE)
      BY <1>1, <2>2 DEF roll
    <3>2. disk \in [DOMAIN disk -> Seq(Entry)]
      BY <1>3 DEF D
    <3> QED BY <3>1, <3>2, Opens
  <2>6. (0 \in D => n = 1) /\ Rolls(rolling', D \cup {0}, n, x)
    BY <1>1, <1>3, <1>7, <2>1, AfterOpen DEF op
  <2>7. Volumes(disk', n) /\ Contiguous(disk', n, written)
    BY <1>3, <2>5, <2>6, CreatesFirst DEF D
  <2>8. DOMAIN disk' = D \cup {0}
    BY <2>5 DEF created, D
  <2>9. Rolls(rolling', DOMAIN disk', n, appender'.volume_index)
    BY <2>4, <2>6, <2>8
  <2> QED BY <2>4, <2>7, <2>9, <1>1, <1>2, <1>3
          DEF Roll, LogTypeOK, Files, Volumes, Stored, Phase, Ready, WritersGone, n
<1>8. n \in Nat
  BY <1>3
<1> QED BY <1>4, <1>5, <1>6, <1>7, <1>8, OpsApart

LEMMA NumberedIsEntry ==
    ASSUME LogTypeOK, NEW line \in Line
    PROVE  numbered(line) \in Entry /\ numbered(line).n = written
BY DEF LogTypeOK, numbered, Line, Entry

LEMMA AppendStep == ASSUME LoggerOK, InnerAppend PROVE LoggerOK'
<1> USE DEF LoggerOK
<1>1. /\ \/ opened /\ Appends(queue) /\ to_append = Len(queue)
         \/ ~opened /\ ClosesLast(queue) /\ to_append = Len(queue) - 1
      /\ running /\ Ready /\ rolling = <<>> /\ queue # <<>> /\ Head(queue)[1] = "append"
  BY FirstInQueue DEF InnerAppend, Idle
<1> DEFINE n == volume_count
           line == Head(queue)[2]
           x == numbered(line)
<1>2. /\ Tail(queue) \in Seq(Task) /\ Len(queue) \in Nat /\ Len(Tail(queue)) = Len(queue) - 1
      /\ line \in Line
      /\ Appends(queue) => Appends(Tail(queue))
      /\ ClosesLast(queue) => ClosesLast(Tail(queue))
  <2>1. queue \in Seq(Task)
    BY DEF LogTypeOK
  <2> QED BY <1>1, <2>1, LogPop
<1>3. x \in Entry /\ x.n = written
  BY <1>2, NumberedIsEntry
<1>4. /\ n \in Nat \ {0} /\ written \in Nat /\ appender.file = 0 /\ 0 \in DOMAIN disk
      /\ Rolls(rolling, DOMAIN disk, n, appender.volume_index)
      /\ Volumes(disk, n) /\ Contiguous(disk, n, written)
  BY <1>1 DEF InnerAppend, Ready, Rolls, LogTypeOK, Stored
<1> HIDE DEF x, line
<1>5. /\ disk' = extended(disk, 0, x) /\ written' = written + 1 /\ queue' = Tail(queue)
      /\ to_append' = to_append - 1 /\ appender' = [appender EXCEPT !.size = @ + line.len]
  BY <1>4 DEF InnerAppend, write, extended, x, line
<1>6. Volumes(disk', n) /\ Contiguous(disk', n, written + 1)
  <2> HIDE DEF n
  <2> QED BY <1>3, <1>4, <1>5, AddsLine
<1>7. DOMAIN disk' = DOMAIN disk
  BY <1>5 DEF extended
<1>8. /\ appender' \in Appender /\ appender'.file = 0
      /\ appender'.volume_index = appender.volume_index
  <2>1. appender \in Appender
    BY DEF LogTypeOK
  <2>2. line.len \in Nat
    BY <1>2 DEF Line
  <2>3. appender.size \in Nat /\ appender.size + line.len \in Nat
    BY <2>1, <2>2 DEF Appender
  <2>4. appender' = [appender EXCEPT !.size = appender.size + line.len]
    BY <1>5
  <2> QED BY <1>4, <2>1, <2>3, <2>4 DEF Appender
<1>9. to_append' \in Nat /\ written' \in Nat
  <2>1. Len(Tail(queue)) \in Nat
    BY <1>2, LenProperties
  <2>2. ClosesLast(queue) => Len(Tail(queue)) # 0
    BY <1>2, EmptySeq DEF ClosesLast
  <2> QED BY <1>1, <1>2, <1>4, <1>5, <2>1, <2>2
<1>10. Ready'
  BY <1>4, <1>7, <1>8 DEF InnerAppend, Ready
<1>11. LogTypeOK'
  BY <1>2, <1>4, <1>5, <1>6, <1>8, <1>9 DEF InnerAppend, LogTypeOK, Files, Volumes
<1>12. Phase'
  <2>1. queue' = Tail(queue) /\ to_append' = to_append - 1 /\ opened' = opened /\ running' = running
    BY <1>5 DEF InnerAppend
  <2>2. CASE opened /\ Appends(queue) /\ to_append = Len(queue)
    BY <1>1, <1>2, <1>10, <2>1, <2>2 DEF Phase
  <2>3. CASE ~opened /\ ClosesLast(queue) /\ to_append = Len(queue) - 1
    BY <1>1, <1>2, <1>10, <2>1, <2>3 DEF Phase
  <2> QED BY <1>1, <2>2, <2>3
<1>13. Stored' /\ WritersGone'
  BY <1>5, <1>6 DEF InnerAppend, Stored, WritersGone
<1> QED BY <1>11, <1>12, <1>13

LEMMA ByLinesStep == ASSUME LoggerOK, Append_by_lines PROVE LoggerOK'
<1> USE DEF LoggerOK
<1>1. /\ \/ opened /\ Appends(queue) /\ to_append = Len(queue)
         \/ ~opened /\ ClosesLast(queue) /\ to_append = Len(queue) - 1
      /\ running /\ Ready /\ rolling = <<>> /\ queue # <<>> /\ Head(queue)[1] = "append"
  BY FirstInQueue DEF Append_by_lines, Idle
<1> DEFINE line == Head(queue)[2]
           x == numbered(line)
           new == appender.lines + 1 >= MaxLine
           a == IF new THEN [appender EXCEPT !.file = GetFileName, !.lines = 0]
                ELSE [appender EXCEPT !.lines = @ + 1]
           d == IF new THEN file_open(disk, GetFileName, FALSE) ELSE disk
<1>2. /\ Tail(queue) \in Seq(Task) /\ Len(queue) \in Nat /\ Len(Tail(queue)) = Len(queue) - 1
      /\ line \in Line
      /\ Appends(queue) => Appends(Tail(queue))
      /\ ClosesLast(queue) => ClosesLast(Tail(queue))
  <2>1. queue \in Seq(Task)
    BY DEF LogTypeOK
  <2> QED BY <1>1, <2>1, LogPop
<1>3. x \in Entry
  BY <1>2, NumberedIsEntry
<1> HIDE DEF x, line
<1>4. /\ volume_count = 0 /\ volume_count' = 0 /\ written \in Nat
      /\ appender \in Appender /\ appender.file \in DOMAIN disk /\ clock \in Nat
      /\ DOMAIN disk \subseteq Nat /\ disk \in [DOMAIN disk -> Seq(Entry)]
  BY <1>1 DEF Append_by_lines, Ready, LogTypeOK, Files
<1>5. disk' = extended(d, a.file, x) /\ appender' = a
  BY DEF Append_by_lines, extended, x, line
<1>6. /\ a \in Appender /\ a.file \in DOMAIN d
      /\ DOMAIN d \subseteq Nat /\ d \in [DOMAIN d -> Seq(Entry)]
  <2>1. CASE new
    <3>1. d = created(disk, clock)
      BY <1>4, <2>1, Opens DEF GetFileName
    <3>2. a = [appender EXCEPT !.file = clock, !.lines = 0]
      BY <2>1 DEF GetFileName
    <3>3. a \in Appender /\ a.file = clock
      <4>1. appender \in Appender /\ clock \in Int
        BY <1>4
      <4> HIDE DEF a
      <4>2. a.file = clock
        BY <3>2, <4>1 DEF Appender
      <4>3. a \in Appender
        BY <3>2, <4>1 DEF Appender
      <4> QED BY <4>2, <4>3
    <3>4. DOMAIN d = DOMAIN disk \cup {clock} /\ d \in [DOMAIN d -> Seq(Entry)]
      <4> HIDE DEF d
      <4> QED BY <1>4, <3>1, CreatedFiles
    <3> HIDE DEF a, d
    <3> QED BY <1>4, <3>3, <3>4
  <2>2. CASE ~new
    <3>1. a = [appender EXCEPT !.lines = appender.lines + 1] /\ d = disk
      BY <2>2
    <3>2. appender.lines + 1 \in Nat
      BY <1>4 DEF Appender
    <3>3. a \in Appender /\ a.file = appender.file
      <4> HIDE DEF a
      <4> QED BY <1>4, <3>1, <3>2 DEF Appender
    <3> HIDE DEF a
    <3> QED BY <1>4, <3>1, <3>3
  <2> QED BY <2>1, <2>2
<1> HIDE DEF a, d
<1>7. DOMAIN disk' = DOMAIN d /\ disk' \in [DOMAIN disk' -> Seq(Entry)]
  BY <1>3, <1>5, <1>6, ExtendedFiles
<1>8. Files(disk') /\ appender'.file \in DOMAIN disk' /\ appender' \in Appender
  BY <1>5, <1>6, <1>7 DEF Files
<1>9. /\ queue' = Tail(queue) /\ to_append' = to_append - 1 /\ opened' = opened /\ running' = running
      /\ rolling' = rolling /\ written' = written + 1
  BY DEF Append_by_lines
<1>10. to_append' \in Nat
  <2>1. Len(Tail(queue)) \in Nat
    BY <1>2, LenProperties
  <2>2. ClosesLast(queue) => Len(Tail(queue)) # 0
    BY <1>2, EmptySeq DEF ClosesLast
  <2> QED BY <1>1, <1>2, <1>9, <2>1, <2>2
<1>11. Ready'
  BY <1>1, <1>4, <1>8, <1>9 DEF Ready
<1>12. LogTypeOK'
  BY <1>2, <1>4, <1>8, <1>9, <1>10 DEF Append_by_lines, LogTypeOK
<1>13. Phase'
  <2>2. CASE opened /\ Appends(queue) /\ to_append = Len(queue)
    BY <1>1, <1>2, <1>9, <1>11, <2>2 DEF Phase
  <2>3. CASE ~opened /\ ClosesLast(queue) /\ to_append = Len(queue) - 1
    BY <1>1, <1>2, <1>9, <1>11, <2>3 DEF Phase
  <2> QED BY <1>1, <2>2, <2>3
<1>14. Stored' /\ WritersGone'
  BY <1>4 DEF Append_by_lines, Stored, WritersGone
<1> QED BY <1>12, <1>13, <1>14

LEMMA TickStep == ASSUME LoggerOK, Tick PROVE LoggerOK'
BY DEF LoggerOK, Tick, LogTypeOK, Files, Stored, Phase, Ready, WritersGone

\* The next start finds the files as they were left.
LEMMA CrashStep == ASSUME LoggerOK, Crash PROVE LoggerOK'
<1> USE DEF LoggerOK
<1>1. NoAppender \in Appender /\ <<>> \in Seq(Task)
  BY EmptySeq DEF NoAppender, Appender
<1>2. writer' \in [Writer -> Line]
  BY NoLineIsOne DEF Crash
<1>3. LogTypeOK'
  BY <1>1, <1>2 DEF Crash, LogTypeOK, Files
<1>4. Stored' /\ Phase' /\ WritersGone'
  BY DEF Crash, Stored, Phase, WritersGone
<1> QED BY <1>3, <1>4

LEMMA LoggerStutters == LoggerOK /\ UNCHANGED logVars => LoggerOK'
BY DEF logVars, LoggerOK, LogTypeOK, Files, Stored, Phase, Ready, WritersGone

LoggerSpec == LoggerInit /\ [][LoggerNext]_logVars

\* The logger's threads, queue, files and rolling are in step with each other
\* (LoggerImpl, LogAppenderFile).
THEOREM LoggerKept == LoggerSpec => []LoggerOK
<1>1. LoggerInit => LoggerOK
  BY LoggerStarts
<1>2. LoggerOK /\ [LoggerNext]_logVars => LoggerOK'
  <2> SUFFICES ASSUME LoggerOK, LoggerNext PROVE LoggerOK'
    BY LoggerStutters
  <2>1. ASSUME NEW w \in Writer, NEW level \in Levels, Debug(w, level) \/ DT(w, level) \/ Log(w, level)
        PROVE  LoggerOK'
    BY <2>1, FormatStep DEF Debug, DT, Log
  <2>2. ASSUME NEW w \in Writer, Append_post(w) PROVE LoggerOK'
    BY <2>2, PostStep
  <2>3. CASE Open \/ Close \/ InnerOpen \/ InnerClose
    BY <2>3, OpenStep, CloseStep, InnerOpenStep, InnerCloseStep
  <2>4. CASE Append_full \/ Roll \/ InnerAppend \/ Append_by_lines
    BY <2>4, FullStep, RollStep, AppendStep, ByLinesStep
  <2>5. CASE Tick \/ Crash
    BY <2>5, TickStep, CrashStep
  <2> QED BY <2>1, <2>2, <2>3, <2>4, <2>5 DEF LoggerNext
<1> QED BY <1>1, <1>2, PTL DEF LoggerSpec

\* The volumes hold the last lines written, in their order and without a gap,
\* there are never more than log_volume_count of them, Close returns when all
\* is written, and a line is as long as what was logged, for any threads,
\* sizes and number of volumes, and whenever the process dies (RollingVolumes).
THEOREM LogHolds == LoggerSpec => []LogInv
<1>1. LoggerOK => LogInv
  <2> SUFFICES ASSUME LoggerOK PROVE LogInv
    OBVIOUS
  <2>1. VolumesContiguous
    <3> SUFFICES ASSUME volume_count > 0
                 PROVE  \A i \in DOMAIN kept : kept[i].n = written - Len(kept) + i - 1
      BY DEF VolumesContiguous
    <3>1. /\ volume_count \in Nat \ {0} /\ volume_count \in Nat /\ written \in Nat
          /\ Volumes(disk, volume_count) /\ Contiguous(disk, volume_count, written)
      BY DEF LoggerOK, LogTypeOK, Stored
    <3>2. DOMAIN disk \in SUBSET (0 .. volume_count - 1)
      BY <3>1 DEF Volumes
    <3> DEFINE s == descending(DOMAIN disk)
    <3>3. Enumerates(s, DOMAIN disk) /\ Cardinality(DOMAIN disk) \in Nat
      BY <3>1, <3>2, Descends
    <3>4. kept = FlattenSeq([i \in 1 .. Cardinality(DOMAIN disk) |-> disk[s[i]]])
      BY DEF kept
    <3> HIDE DEF s
    <3> QED BY <3>1, <3>3, <3>4, OneAfterTheOther
  <2>2. VolumesBounded
    BY DEF VolumesBounded, LoggerOK, Stored, Volumes
  <2>3. CloseFlushes
    BY DEF CloseFlushes, LoggerOK, Phase
  <2>4. LinesWhole
    <3> SUFFICES ASSUME NEW f \in DOMAIN disk, NEW i \in DOMAIN disk[f]
                 PROVE  disk[f][i].len = disk[f][i].text
      BY DEF LinesWhole
    <3>1. disk[f] \in Seq(Entry)
      BY DEF LoggerOK, LogTypeOK, Files
    <3>2. disk[f][i] \in Entry
      BY <3>1, LenProperties, ElementOfSeq
    <3> QED BY <3>2 DEF Entry
  <2> QED BY <2>1, <2>2, <2>3, <2>4 DEF LogInv
<1> QED BY <1>1, LoggerKept, PTL

-----------------------------------------------------------------------------
(* What is lost.                                                           *)

\* The files d hold what those of c held, but for the file n - 1.
Holds(c, d, n) ==
    \A f \in DOMAIN c \ {n - 1} : \A i \in DOMAIN c[f] :
        \E g \in DOMAIN d : c[f][i] \in Range(d[g])

LEMMA HoldsFile ==
    ASSUME NEW c, NEW d, NEW n,
           \A f \in DOMAIN c \ {n - 1} : \E g \in DOMAIN d : d[g] = c[f]
    PROVE  Holds(c, d, n)
<1> SUFFICES ASSUME NEW f \in DOMAIN c \ {n - 1}, NEW i \in DOMAIN c[f]
             PROVE  \E g \in DOMAIN d : c[f][i] \in Range(d[g])
  BY DEF Holds
<1>1. PICK g \in DOMAIN d : d[g] = c[f]
  OBVIOUS
<1>2. c[f][i] \in Range(d[g])
  BY <1>1 DEF Range
<1> QED BY <1>2

LEMMA RollHolds == ASSUME LoggerOK, Roll PROVE Holds(disk, disk', volume_count)
<1> DEFINE n == volume_count
           D == DOMAIN disk
           op == Head(rolling)
<1>1. rolling # <<>> /\ disk' = roll(op)
  BY DEF Roll
<1>2. Ready /\ disk \in [D -> Seq(Entry)]
  BY <1>1 DEF LoggerOK, Phase, LogTypeOK, Files
<1>3. /\ n \in Nat \ {0} /\ appender.volume_index \in Nat /\ n \in Nat
      /\ Rolls(rolling, D, n, appender.volume_index) /\ D \in SUBSET (0 .. n - 1)
  <2>1. n # 0
    BY <1>1, <1>2 DEF Ready
  <2>2. n \in Nat \ {0} /\ Volumes(disk, n)
    BY <2>1 DEF LoggerOK, LogTypeOK, Stored
  <2> QED BY <1>2, <2>1, <2>2 DEF LoggerOK, LogTypeOK, Appender, Volumes, Ready
<1>4. op \in Ops(n)
  BY <1>1, <1>3, OrderlyTail DEF Rolls
<1> HIDE DEF op, n, D
<1>5. CASE op = <<"delete", n - 1>>
  <2>1. op[1] = "delete" /\ op[2] = n - 1
    BY <1>5
  <2>2. disk' = deleted(disk, n - 1)
    BY <1>1, <2>1 DEF roll, without, deleted
  <2>3. \A f \in DOMAIN disk \ {n - 1} : \E g \in DOMAIN disk' : disk'[g] = disk[f]
    BY <2>2 DEF deleted
  <2> QED BY <2>3, HoldsFile DEF n
<1>6. ASSUME op[1] = "rename", op = <<"rename", op[2]>> PROVE Holds(disk, disk', n)
  <2> DEFINE k == op[2]
  <2>1. disk' = renamed(disk, k)
    BY <1>1, <1>6 DEF roll, renamed
  <2>2. k \in D /\ k + 1 \notin D
    <3>1. op = <<"rename", k>>
      BY <1>6
    <3> HIDE DEF k
    <3> QED BY <1>1, <1>3, <3>1, AfterRename DEF op
  <2> HIDE DEF k
  <2>3. /\ DOMAIN disk' = (D \ {k}) \cup {k + 1} /\ disk'[k + 1] = disk[k]
        /\ \A j \in D \ {k} : disk'[j] = disk[j]
    BY <2>1, <2>2 DEF renamed, D
  <2>4. \A f \in DOMAIN disk \ {n - 1} : \E g \in DOMAIN disk' : disk'[g] = disk[f]
    BY <2>2, <2>3 DEF D
  <2> QED BY <2>4, HoldsFile
<1>7. CASE op = <<"open", 0>>
  <2>1. op[1] = "open"
    BY <1>7
  <2>2. disk' = created(disk, 0)
    <3>1. disk' = file_open(disk, 0, FALSE)
      BY <1>1, <2>1 DEF roll
    <3> QED BY <1>2, <3>1, Opens DEF D
  <2>3. 0 \in D => n = 1
    <3> DEFINE x == IF appender.volume_index + 1 <= n THEN appender.volume_index + 1 ELSE n
    <3>1. x \in Nat
      BY <1>3
    <3> HIDE DEF x
    <3>2. x = IF appender.volume_index + 1 <= n THEN appender.volume_index + 1 ELSE n
      BY DEF x
    <3> QED BY <1>1, <1>3, <1>7, <3>1, <3>2, AfterOpen DEF op
  <2>4. \A f \in DOMAIN disk \ {n - 1} : f # 0
    BY <2>3 DEF D
  <2>5. \A f \in DOMAIN disk \ {n - 1} : \E g \in DOMAIN disk' : disk'[g] = disk[f]
    BY <2>2, <2>4 DEF created
  <2> QED BY <2>5, HoldsFile DEF n
<1> QED BY <1>3, <1>4, <1>5, <1>6, <1>7, OpsApart DEF n

LEMMA AppendHolds == ASSUME LoggerOK, InnerAppend PROVE Holds(disk, disk', volume_count)
<1> DEFINE x == numbered(Head(queue)[2])
<1>1. /\ queue # <<>> /\ Head(queue)[1] = "append" /\ rolling = <<>> /\ volume_count > 0
      /\ disk' = extended(disk, appender.file, x)
  BY DEF InnerAppend, Idle, write, extended
<1>2. x \in Entry
  <2>1. queue \in Seq(Task)
    BY DEF LoggerOK, LogTypeOK
  <2>2. Head(queue)[2] \in Line
    BY <1>1, <2>1, LogPop
  <2> QED BY <2>2, NumberedIsEntry DEF LoggerOK
<1> HIDE DEF x
<1>3. appender.file = 0 /\ 0 \in DOMAIN disk /\ disk \in [DOMAIN disk -> Seq(Entry)]
  BY <1>1, FirstInQueue DEF Ready, Rolls, LoggerOK, LogTypeOK, Files
<1>4. /\ DOMAIN disk' = DOMAIN disk /\ disk'[0] = Append(disk[0], x)
      /\ \A j \in DOMAIN disk \ {0} : disk'[j] = disk[j]
  <2>1. disk' = extended(disk, 0, x)
    BY <1>1, <1>3
  <2>2. /\ DOMAIN extended(disk, 0, x) = DOMAIN disk
        /\ extended(disk, 0, x)[0] = Append(disk[0], x)
        /\ \A j \in DOMAIN disk \ {0} : extended(disk, 0, x)[j] = disk[j]
    BY <1>2, <1>3, ExtendedFiles
  <2> QED BY <2>1, <2>2
<1> SUFFICES ASSUME NEW f \in DOMAIN disk, NEW i \in DOMAIN disk[f]
             PROVE  disk[f][i] \in Range(disk'[f])
  BY <1>4 DEF Holds
<1>5. CASE f = 0
  <2>1. disk[0] \in Seq(Entry)
    BY <1>3
  <2>2. /\ disk'[0] \in Seq(Entry) /\ Len(disk[0]) \in Nat /\ Len(disk'[0]) = Len(disk[0]) + 1
        /\ \A j \in 1 .. Len(disk[0]) : disk'[0][j] = disk[0][j]
    BY <1>2, <1>4, <2>1, Pushed
  <2>3. i \in 1 .. Len(disk[0])
    BY <1>5, <2>1, LenProperties
  <2>4. DOMAIN disk'[0] = 1 .. Len(disk[0]) + 1
    BY <2>2, LenProperties
  <2>5. i \in DOMAIN disk'[0] /\ disk'[0][i] = disk[0][i]
    BY <2>2, <2>3, <2>4
  <2> QED BY <1>5, <2>5 DEF Range
<1>6. CASE f # 0
  BY <1>4, <1>6 DEF Range
<1> QED BY <1>5, <1>6

\* Nothing but the oldest of log_volume_count volumes is ever removed, for any
\* threads, sizes and number of volumes (LogAppenderFile::RollingVolumes).
THEOREM OldestIsLost == LoggerSpec => OnlyOldestLost
<1>1. LoggerOK /\ [LoggerNext]_logVars =>
        [volume_count > 0 =>
            \A f \in DOMAIN disk \ {volume_count - 1} : \A i \in DOMAIN disk[f] :
                \E g \in DOMAIN disk' : disk[f][i] \in Range(disk'[g])]_logVars
  <2> SUFFICES ASSUME LoggerOK, LoggerNext, volume_count > 0 PROVE Holds(disk, disk', volume_count)
    BY DEF Holds
  <2>1. CASE UNCHANGED disk
    BY <2>1, HoldsFile
  <2>2. CASE Roll \/ InnerAppend
    BY <2>2, RollHolds, AppendHolds
  <2>3. CASE InnerOpen
    <3>1. disk \in [DOMAIN disk -> Seq(Entry)]
      BY DEF LoggerOK, LogTypeOK, Files
    <3>2. disk' = file_open(disk, 0, TRUE)
      BY <2>3 DEF InnerOpen
    <3>3. disk' = IF 0 \in DOMAIN disk THEN disk ELSE created(disk, 0)
      BY <3>1, <3>2, Opens
    <3>4. \A f \in DOMAIN disk : \E g \in DOMAIN disk' : disk'[g] = disk[f]
      BY <3>3 DEF created
    <3> QED BY <3>4, HoldsFile
  <2>4. CASE Append_by_lines
    BY <2>4 DEF Append_by_lines
  <2>5. ASSUME NEW w \in Writer, NEW level \in Levels, Debug(w, level) \/ DT(w, level) \/ Log(w, level)
        PROVE  UNCHANGED disk
    BY <2>5 DEF Debug, DT, Log, format
  <2>6. ASSUME NEW w \in Writer, Append_post(w) PROVE UNCHANGED disk
    BY <2>6 DEF Append_post
  <2>7. CASE Open \/ Close \/ InnerClose \/ Append_full \/ Tick \/ Crash
    BY <2>1, <2>7 DEF Open, Close, InnerClose, Append_full, Tick, Crash
  <2> QED BY <2>1, <2>2, <2>3, <2>4, <2>5, <2>6, <2>7 DEF LoggerNext
<1> QED BY <1>1, LoggerKept, PTL DEF LoggerSpec, OnlyOldestLost
=============================================================================
