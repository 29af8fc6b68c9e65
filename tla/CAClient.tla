------------------------------ MODULE CAClient ------------------------------
(***************************************************************************)
(* Fetching the core script from the CA server: CAClient of                *)
(* src/src/server/ca/ca_client.cpp, a ten-state machine over one           *)
(* connection, and the part of BeeEntrance that starts one client per      *)
(* period of lua_update_timer_, waits for the first answer in start and    *)
(* keeps the script, its md5 and the key.  It is the start of a build      *)
(* without FORCE_LOCAL_LUA.                                                *)
(*                                                                         *)
(* A client is not stopped when the timer replaces it: its states hold it  *)
(* through their routers, so it lives on, and its answer is as good as     *)
(* that of the current client.  Scripts are the versions the server has    *)
(* published; a version stands for its md5 too.                            *)
(***************************************************************************)
EXTENDS Integers, Sequences, FiniteSetsExt, SequencesExt

CONSTANTS
    Client,            \* the clients of successive periods, 1 .. n
    MaxVersion,        \* versions the server publishes
    Bits,              \* characters of a public key a signature picks from
    BackupCount        \* kBackupCAIpCount

ASSUME CAAssumption ==
    /\ Client = 1 .. Cardinality(Client) /\ MaxVersion \in Nat /\ MaxVersion >= 2
    /\ Bits \in Nat /\ BackupCount \in Nat \ {0}

VARIABLES
    client,                           \* every CAClient
    ca_client,                        \* ca_client_, 0 for NULL
    last_connected_backup_ca_index,
    lua, lua_md5, gslb_key,           \* what BeeEntrance holds
    svc,                              \* state of BeeEntrance
    timer,                            \* lua_update_timer_ runs
    init_promise,                     \* init_promise_ is not NULL
    promise,                          \* the BeeInitPromise of start
    app,                              \* where the thread in start is
    io,                               \* what the io thread has still to do in this handler
    tasks,                            \* handlers posted to the io thread
    published                         \* the newest script of the server

caVars == <<client, ca_client, last_connected_backup_ca_index, lua, lua_md5, gslb_key, svc,
            timer, init_promise, promise, app, io, tasks, published>>
entranceVars == <<lua, lua_md5, gslb_key, svc, timer, init_promise, promise, io, tasks>>

NoLua == 0
LocalLua == 1

-----------------------------------------------------------------------------
(* Signatures.                                                             *)

\* Two bytes at a time, carried into sixteen bits and complemented.
check_sum(bytes) ==
    LET words == [i \in 1 .. Len(bytes) \div 2 |-> 256 * bytes[2 * i - 1] + bytes[2 * i]]
        sum == FoldLeft(LAMBDA x, y : x + y, 0, words)
        folded == (sum \div 65536) + (sum % 65536)
    IN 65535 - ((folded + folded \div 65536) % 65536)

\* The characters of the key at the positions whose bit of r is set.
picked(key, r) ==
    LET before(p) == Cardinality({q \in r : q <= p})
    IN [i \in 1 .. Cardinality(r) |-> key[CHOOSE p \in r : before(p) = i]]

\* The hash is taken for its argument; like r it has a fixed length, here Bits.
summed(hash) == check_sum([i \in 1 .. Bits |-> IF i <= Len(hash) THEN hash[i] ELSE 0])

create_signature(key, r) == [r |-> r, hash |-> picked(key, r), sum |-> summed(picked(key, r))]

check_signature(s, key) ==
    /\ Len(key) >= Bits
    /\ s.sum = summed(s.hash)
    /\ s.hash = picked(key, s.r)

-----------------------------------------------------------------------------
(* The protocol.                                                           *)

CAStates == {"Resolve", "ConnectCA", "SendPubKey", "RcvPubKey", "SendSignature", "RcvSignature",
             "RequestShareKey", "RcvShareKey", "RequestLua", "RcvLua"}
Sends == {"SendPubKey", "SendSignature", "RequestShareKey", "RequestLua"}
Receives == {"RcvPubKey", "RcvSignature", "RcvShareKey", "RcvLua"}

\* SWITCH_TO of every state.
switch_to == [Resolve |-> "ConnectCA", ConnectCA |-> "SendPubKey", SendPubKey |-> "RcvPubKey",
              RcvPubKey |-> "SendSignature", SendSignature |-> "RcvSignature",
              RcvSignature |-> "RequestShareKey", RequestShareKey |-> "RcvShareKey",
              RcvShareKey |-> "RequestLua", RequestLua |-> "RcvLua"]

\* The code each receive state accepts.
code == [RcvPubKey |-> "CA_CLIENT_PUBLIC_KEY", RcvSignature |-> "CA_CLIENT_SIGNATURE",
         RcvShareKey |-> "CA_REPLY_ENCRYPT_MD5", RcvLua |-> "CA_REPLY_ENCRYPT_BIGLUA"]

\* pc: the state; posted: its execute is posted; pending: its operation is
\* under way; late: a failed connect whose check timer still runs.
NewClient == [pc |-> "none", posted |-> FALSE, pending |-> FALSE, late |-> FALSE,
              connected |-> FALSE, backup |-> FALSE, server_public_key |-> <<>>,
              md5 |-> NoLua]

ServerKey == [i \in 1 .. Bits |-> i % 2]

\* What may come in for an expected code: the answer of the server, the same
\* with something wrong in it, or another message.
Body(pc) ==
    CASE pc = "RcvPubKey" -> {ServerKey}
      [] pc = "RcvSignature" ->
            LET s == create_signature(ServerKey, 1 .. Bits)
            IN {s, [s EXCEPT !.sum = (@ + 1) % 65536], [s EXCEPT !.r = {}]}
      [] pc = "RcvShareKey" -> {published}
      [] pc = "RcvLua" -> {published}

Replies(pc) ==
    [mark : {TRUE}, code : {code[pc]}, opens : {TRUE}, body : Body(pc)]
        \cup [mark : {TRUE}, code : {"CA_CLIENT_ERROR", code[pc]}, opens : {FALSE}, body : {0}]
        \cup [mark : {FALSE}, code : {code[pc]}, opens : {TRUE}, body : {0}]

checked_header(pc, m) ==
    CASE ~m.mark -> "Invalid_Protocol_Mark"
      [] m.mark /\ m.code # code[pc] -> "Invalid_Message"
      [] OTHER -> "Success"

\* What a handler of the machine decides: ec1 and the next state.
to(c) == [ec |-> "Success", next |-> switch_to[client[c].pc]]
stop_with(ec) == [ec |-> ec, next |-> "Invalid"]

\* A failed resolve goes on with the backup addresses.
handle_Resolve(c, ok) == to(c)

handle_ConnectCA(c, outcome) ==
    CASE outcome = "fail" -> stop_with("Connect_Fail")
      [] outcome = "no_key" -> stop_with("Crypto_Error")
      [] OTHER -> to(c)

\* Before the router is asked, a send that failed has its output event not
\* set up, and the error is reported as it is.
handle_Sent(c, ok) == IF ok THEN to(c) ELSE stop_with("Write_Fail")

\* opens: the key parses.
process_server_rsa_key(m) == m.opens

handle_RcvPubKey(c, m) ==
    IF ~process_server_rsa_key(m) THEN stop_with("Crypto_Error") ELSE to(c)

\* What the next state sends is encrypted with the server's key; fits: the
\* library does it.
Transform_RcvPubKey_To_SendSignature(d, fits) ==
    IF d.next = "SendSignature" /\ ~fits THEN stop_with("Crypto_Error") ELSE d

Transform_RcvSignature_To_RequestShareKey(d, fits) ==
    IF d.next = "RequestShareKey" /\ ~fits THEN stop_with("Crypto_Error") ELSE d

handle_RcvSignature(c, m) ==
    CASE ~m.opens -> stop_with("Crypto_Error")
      [] m.opens /\ ~check_signature(m.body, client[c].server_public_key) ->
            stop_with("Signature_Error")
      [] OTHER -> to(c)

\* The md5 BeeEntrance holds ends the exchange.
handle_RcvShareKey(c, m) ==
    CASE ~m.opens -> stop_with("Crypto_Error")
      [] m.opens /\ m.body = lua_md5 -> [ec |-> "State_Machine_Finished", next |-> "Finished"]
      [] OTHER -> to(c)

handle_RcvLua(c, m) ==
    IF ~m.opens THEN stop_with("Decompress_Error")
    ELSE [ec |-> "State_Machine_Finished", next |-> "Finished"]

handle_Rcv(c, m) ==
    LET pc == client[c].pc
        ec == checked_header(pc, m)
    IN IF ec # "Success" THEN stop_with(ec)
       ELSE CASE pc = "RcvPubKey" -> handle_RcvPubKey(c, m)
              [] pc = "RcvSignature" -> handle_RcvSignature(c, m)
              [] pc = "RcvShareKey" -> handle_RcvShareKey(c, m)
              [] pc = "RcvLua" -> handle_RcvLua(c, m)

-----------------------------------------------------------------------------
(* BeeEntrance: the answers.                                               *)

\* switch_state(kBeeSvcInput_Got_Core).
got_core == svc' = IF svc \in {"Getting_Core", "Ready"} THEN "Ready" ELSE svc

\* honor in two steps: the value wakes start before honored_ is set.
honor(ec) ==
    promise' = IF promise.honored \/ promise.set THEN promise
               ELSE [promise EXCEPT !.set = TRUE, !.ec = ec]

honor_init_promise(ec) ==
    IF init_promise THEN honor(ec) /\ io' = "resetting" /\ UNCHANGED init_promise
    ELSE UNCHANGED <<promise, io, init_promise>>

post_close == tasks' = Append(tasks, <<"close_ca_client", 0>>)

\* Faulty variant: a failed load is reported as a success.
handle_ca_data_failed_blind(ec, found) ==
    /\ IF lua # NoLua THEN UNCHANGED <<lua, svc, timer>>
       ELSE IF found THEN lua' = LocalLua /\ got_core /\ UNCHANGED timer
       ELSE svc' = "Idle" /\ timer' = FALSE /\ UNCHANGED lua
    /\ honor_init_promise("Success")
    /\ post_close
    /\ UNCHANGED <<lua_md5, gslb_key>>

\* handle_ca_data with an error; found: load_default_lua finds its file.
handle_ca_data_failed(ec, found) ==
    /\ IF lua # NoLua THEN UNCHANGED <<lua, svc, timer>>
       ELSE IF found THEN lua' = LocalLua /\ got_core /\ UNCHANGED timer
       ELSE svc' = "Idle" /\ timer' = FALSE /\ UNCHANGED lua
    /\ honor_init_promise(IF lua = NoLua /\ found THEN "Success" ELSE ec)
    /\ post_close
    /\ UNCHANGED <<lua_md5, gslb_key>>

handle_ca_data(script, md5) ==
    /\ got_core
    /\ lua' = script /\ lua_md5' = md5 /\ gslb_key' = md5
    /\ honor_init_promise("Success")
    /\ post_close
    /\ UNCHANGED timer

\* Faulty variant: the md5 of the server is kept as soon as it is known.
check_lua_md5_kept(md5) ==
    IF md5 = lua_md5 THEN got_core /\ honor_init_promise("Success") /\ post_close
                          /\ UNCHANGED <<lua, lua_md5, gslb_key, timer>>
    ELSE /\ lua_md5' = md5
         /\ UNCHANGED <<lua, gslb_key, svc, timer, init_promise, promise, io, tasks>>

check_lua_md5(md5) ==
    IF md5 = lua_md5 THEN got_core /\ honor_init_promise("Success") /\ post_close
                          /\ UNCHANGED <<lua, lua_md5, gslb_key, timer>>
    ELSE UNCHANGED entranceVars

\* CAClient::output: errors only.
output(ec) ==
    IF ec \in {"Success", "State_Machine_Finished"} THEN UNCHANGED entranceVars
    ELSE \E found \in BOOLEAN : handle_ca_data_failed(ec, found)

-----------------------------------------------------------------------------
(* The io thread.                                                          *)

\* initialize stops the io thread after a start that failed.
Free == io = "free" /\ app \notin {"stopped", "crashed"}

\* handle_lua_update_timeout: a new client takes the place of the current one.
handle_lua_update_timeout(c) ==
    /\ Free /\ timer
    /\ client[c].pc = "none" /\ \A d \in Client : d < c => client[d].pc # "none"
    /\ ca_client' = c
    /\ client' = [client EXCEPT ![c].pc = "created"]
    /\ tasks' = Append(tasks, <<"request_core", c>>)
    /\ UNCHANGED <<last_connected_backup_ca_index, lua, lua_md5, gslb_key, svc, timer,
                   init_promise, promise, app, io, published>>

\* request_core: the machine is set up and its first state posted.
request_core ==
    /\ Free /\ tasks # <<>> /\ Head(tasks)[1] = "request_core"
    /\ client' = [client EXCEPT ![Head(tasks)[2]] = [@ EXCEPT !.pc = "Resolve", !.posted = TRUE]]
    /\ tasks' = Tail(tasks)
    /\ UNCHANGED <<ca_client, last_connected_backup_ca_index, lua, lua_md5, gslb_key, svc, timer,
                   init_promise, promise, app, io, published>>

\* TcpStateMachine::stop does nothing to a client that is not connected; one that is loses
\* its routers, and nothing but what is posted is heard of it again.
stop_client(c) ==
    client' = IF ~client[c].connected THEN client
              ELSE [client EXCEPT ![c] = [@ EXCEPT !.connected = FALSE, !.pending = FALSE]]

close_ca_client ==
    /\ Free /\ tasks # <<>> /\ Head(tasks)[1] = "close_ca_client"
    /\ IF ca_client # 0 THEN stop_client(ca_client) ELSE UNCHANGED client
    /\ ca_client' = 0 /\ tasks' = Tail(tasks)
    /\ UNCHANGED <<last_connected_backup_ca_index, lua, lua_md5, gslb_key, svc, timer,
                   init_promise, promise, app, io, published>>

\* execute_state: every state after the connect asks for the connection.
execute_state(c) ==
    /\ Free /\ client[c].posted
    /\ IF client[c].pc \in {"Resolve", "ConnectCA"} \/ client[c].connected
       THEN /\ client' = [client EXCEPT ![c] = [@ EXCEPT !.posted = FALSE, !.pending = TRUE]]
            /\ UNCHANGED entranceVars
       ELSE /\ client' = [client EXCEPT ![c].posted = FALSE]
            /\ output("Not_Connected")
    /\ UNCHANGED <<ca_client, last_connected_backup_ca_index, app, published>>

\* switch_to_next with the decision d of the router: the transform, the next
\* state posted, or the end and its report; upd is what the handlers keep.
switch_to_next(c, d, upd) ==
    client' = [client EXCEPT ![c] =
        IF d.next \in CAStates THEN [upd EXCEPT !.pc = d.next, !.pending = FALSE, !.posted = TRUE]
        ELSE [upd EXCEPT !.pc = d.next, !.pending = FALSE]]

Pending(c, states) == Free /\ client[c].pending /\ client[c].pc \in states

\* Transform_Resolve_To_ConnectCA takes the backup endpoints, and the one
\* that last answered first.
resolved(c) ==
    \E ok \in BOOLEAN :
        /\ Pending(c, {"Resolve"})
        /\ switch_to_next(c, handle_Resolve(c, ok), [client[c] EXCEPT !.backup = ~ok])
        /\ UNCHANGED entranceVars
        /\ UNCHANGED <<ca_client, last_connected_backup_ca_index, app, published>>

\* The connect state reports; at is the endpoint it has reached.
connected(c) ==
    \E outcome \in {"ok", "fail", "no_key"}, at \in 0 .. BackupCount - 1 :
        /\ Pending(c, {"ConnectCA"})
        /\ LET d == handle_ConnectCA(c, outcome)
           IN /\ switch_to_next(c, d, [client[c] EXCEPT !.connected = (outcome # "fail"),
                                                        !.late = (outcome = "fail")])
              /\ output(d.ec)
        /\ last_connected_backup_ca_index' =
               IF outcome = "ok" /\ client[c].backup THEN at ELSE last_connected_backup_ca_index
        /\ UNCHANGED <<ca_client, app, published>>

\* The check timer of a connect that has failed reports a second time.
ca_connect_timeout(c) ==
    /\ Free /\ client[c].late
    /\ client' = [client EXCEPT ![c].late = FALSE]
    /\ output("Timeout")
    /\ UNCHANGED <<ca_client, last_connected_backup_ca_index, app, published>>

sent(c) ==
    \E ok \in BOOLEAN :
        /\ Pending(c, Sends)
        /\ LET d == handle_Sent(c, ok)
           IN switch_to_next(c, d, client[c]) /\ output(d.ec)
        /\ UNCHANGED <<ca_client, last_connected_backup_ca_index, app, published>>

\* A message has been read, by its length; nothing limits how long that takes.
received(c) ==
    /\ Pending(c, Receives)
    /\ \E m \in Replies(client[c].pc), fits \in BOOLEAN :
        LET pc == client[c].pc
            d == Transform_RcvPubKey_To_SendSignature(
                     Transform_RcvSignature_To_RequestShareKey(handle_Rcv(c, m), fits), fits)
        IN /\ switch_to_next(c, d, [client[c] EXCEPT
                 !.server_public_key = IF pc = "RcvPubKey" /\ d.next # "Invalid" THEN m.body ELSE @,
                 !.md5 = IF pc = "RcvShareKey" /\ d.next # "Invalid" THEN m.body ELSE @])
           /\ CASE pc = "RcvShareKey" /\ d.next # "Invalid" -> check_lua_md5(m.body)
                [] pc = "RcvLua" /\ d.next = "Finished" -> handle_ca_data(m.body, client[c].md5)
                [] OTHER -> output(d.ec)
    /\ UNCHANGED <<ca_client, last_connected_backup_ca_index, app, published>>

receive_failed(c) ==
    /\ Pending(c, Receives)
    /\ switch_to_next(c, stop_with("Read_Fail"), client[c])
    /\ output("Read_Fail")
    /\ UNCHANGED <<ca_client, last_connected_backup_ca_index, app, published>>

\* Faulty variant: the timer ends and honors nothing.
handle_timeout_lost ==
    /\ Free /\ promise.armed /\ ~promise.honored
    /\ promise' = [promise EXCEPT !.armed = FALSE]
    /\ UNCHANGED <<client, ca_client, last_connected_backup_ca_index, lua, lua_md5, gslb_key, svc,
                   timer, init_promise, app, io, tasks, published>>

\* The timer of the promise.
handle_timeout ==
    /\ Free /\ promise.armed /\ ~promise.honored
    /\ honor("Timeout") /\ io' = "honoring"
    /\ UNCHANGED <<client, ca_client, last_connected_backup_ca_index, lua, lua_md5, gslb_key, svc,
                   timer, init_promise, app, tasks, published>>

\* The rest of honor, and of the handler that called it.
honored ==
    /\ io # "free" /\ app # "crashed"
    /\ promise' = [promise EXCEPT !.honored = TRUE, !.armed = FALSE]
    /\ init_promise' = (init_promise /\ io = "honoring")
    /\ io' = "free"
    /\ UNCHANGED <<client, ca_client, last_connected_backup_ca_index, lua, lua_md5, gslb_key, svc,
                   timer, app, tasks, published>>

-----------------------------------------------------------------------------
(* The thread in start.                                                    *)

\* The promise is armed and the timer started, which fires at once.
start ==
    /\ app = "idle"
    /\ timer' = TRUE /\ init_promise' = TRUE
    /\ promise' = [promise EXCEPT !.armed = TRUE]
    /\ app' = "started"
    /\ UNCHANGED <<client, ca_client, last_connected_backup_ca_index, lua, lua_md5, gslb_key, svc,
                   io, tasks, published>>

get_core ==
    /\ app = "started"
    /\ svc' = IF svc = "Initialized" THEN "Getting_Core" ELSE svc
    /\ app' = IF svc = "Initialized" THEN "waiting" ELSE "failed"
    /\ UNCHANGED <<client, ca_client, last_connected_backup_ca_index, lua, lua_md5, gslb_key,
                   timer, init_promise, promise, io, tasks, published>>

start_returns ==
    /\ app = "waiting" /\ promise.set
    /\ app' = IF promise.ec = "Success" THEN "running" ELSE "failed"
    /\ UNCHANGED <<client, ca_client, last_connected_backup_ca_index>>
    /\ UNCHANGED entranceVars
    /\ UNCHANGED published

\* A start that fails honors the promise too.  When the io thread is between
\* the value and honored_, the value is set twice and
\* std::promise throws.
start_failed ==
    /\ app = "failed"
    /\ app' = IF init_promise /\ ~promise.honored /\ promise.set THEN "crashed" ELSE "stopped"
    /\ promise' = IF init_promise THEN [promise EXCEPT !.honored = TRUE, !.armed = FALSE,
                                                       !.set = TRUE] ELSE promise
    /\ init_promise' = FALSE /\ timer' = FALSE
    /\ UNCHANGED <<client, ca_client, last_connected_backup_ca_index, lua, lua_md5, gslb_key, svc,
                   io, tasks, published>>

publish ==
    /\ published < MaxVersion /\ published' = published + 1
    /\ UNCHANGED <<client, ca_client, last_connected_backup_ca_index, app>>
    /\ UNCHANGED entranceVars

CAInit ==
    /\ client = [c \in Client |-> NewClient] /\ ca_client = 0
    /\ last_connected_backup_ca_index = 0
    /\ lua = NoLua /\ lua_md5 = NoLua /\ gslb_key = NoLua
    /\ svc = "Initialized" /\ timer = FALSE /\ init_promise = FALSE
    /\ promise = [armed |-> FALSE, set |-> FALSE, ec |-> "Success", honored |-> FALSE]
    /\ app = "idle" /\ io = "free" /\ tasks = <<>>
    /\ published = 2

ClientStep(c) ==
    \/ handle_lua_update_timeout(c) \/ execute_state(c) \/ resolved(c) \/ connected(c)
    \/ ca_connect_timeout(c) \/ sent(c) \/ received(c) \/ receive_failed(c)

IoStep == request_core \/ close_ca_client \/ handle_timeout \/ honored
AppStep == start \/ get_core \/ start_returns \/ start_failed

CANext == (\E c \in Client : ClientStep(c)) \/ IoStep \/ AppStep \/ publish

\* The io thread runs what is posted, its timers fire, and the application's
\* thread goes on.  The network owes nothing.
CAFairness ==
    /\ WF_caVars(request_core \/ close_ca_client) /\ WF_caVars(honored) /\ WF_caVars(handle_timeout)
    /\ WF_caVars(AppStep)

CASpec == CAInit /\ [][CANext]_caVars /\ CAFairness

-----------------------------------------------------------------------------
(* Properties.                                                             *)

\* The script BeeEntrance runs is at least as new as the md5 it compares the
\* server's with, whichever client answered last and whatever is published
\* between the md5 and the download: an old script is never taken for
\* current, so that the next update replaces it.
ScriptNotBehindMd5 == lua_md5 <= lua /\ gslb_key = lua_md5

\* start returns Success only with a script to run.
StartHasScript == app = "running" => lua # NoLua

\* start returns, in whatever state the server or the network leaves a
\* client, or the value of the promise is set twice.
StartReturns == (app = "waiting") ~> (app \in {"running", "stopped", "crashed"})
=============================================================================
