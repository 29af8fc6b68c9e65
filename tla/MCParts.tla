------------------------------ MODULE MCParts -------------------------------
(***************************************************************************)
(* The parts of the SDK that share nothing with the others on small        *)
(* instances: the white board, the video room, the video cache, the        *)
(* buffers of the iobuffer module, the logger, the service thread, the Lua *)
(* engine and the Android decoder.  A behaviour explores one of them,      *)
(* named by part, while the others stay where they start.                  *)
(***************************************************************************)
EXTENDS WhiteBoard, BeeVideoRoom, ScriptBuffers, Logger, ServiceThread, LuaEngine,
        MediaCodecDecoder

VARIABLE part

Parts == {"board", "room", "cache", "buffer", "log", "thread", "engine", "decoder"}

partsVars == <<part, boardVars, roomVars, c, o, logVars, threadVars, engineVars, decVars>>

\* What is configured of a part is chosen when the part is explored.
Init ==
    /\ part \in Parts
    /\ part # "room" => platform = "ios"
    /\ part # "log" => volume_count = 0
    /\ part # "thread" => delayed = FALSE
    /\ part # "engine" => script = CHOOSE s \in Scripts : TRUE
    /\ part # "decoder" => dec = new_decoder("VP8", FALSE)
    /\ board_init /\ room_init /\ c = cache_init /\ o = obj_init
    /\ LoggerInit /\ ThreadInit /\ EngineInit /\ DecoderInit

\* The step is one of the part p: nothing else changes.
Alone(p) ==
    /\ part = p /\ UNCHANGED part
    /\ p # "board" => UNCHANGED boardVars
    /\ p # "room" => UNCHANGED roomVars
    /\ p # "cache" => UNCHANGED c
    /\ p # "buffer" => UNCHANGED o
    /\ p # "log" => UNCHANGED logVars
    /\ p # "thread" => UNCHANGED threadVars
    /\ p # "engine" => UNCHANGED engineVars
    /\ p # "decoder" => UNCHANGED decVars

Next ==
    \/ part = "board" /\ BoardNext /\ Alone("board")
    \/ part = "room" /\ RoomNext /\ Alone("room")
    \/ part = "cache" /\ CacheNext /\ Alone("cache")
    \/ part = "buffer" /\ BufferNext /\ Alone("buffer")
    \/ part = "log" /\ LoggerNext /\ Alone("log")
    \/ part = "thread" /\ ThreadNext /\ Alone("thread")
    \/ part = "engine" /\ EngineNext /\ Alone("engine")
    \/ part = "decoder" /\ DecoderNext /\ Alone("decoder")

Spec == Init /\ [][Next]_partsVars

-----------------------------------------------------------------------------
(* The white board: a page that was drawn on and a blank one.              *)

Blank == [past |-> <<>>, future |-> <<>>]
Drawn == [past |-> <<"pen">>, future |-> <<"pen">>]
MCInfos == {[pages |-> <<Drawn, Blank>>, url |-> TRUE, index |-> 0]}

(* The cache: no coroutine reads again when its promise is given up.       *)

NoReads == {NoRead}

(* The engine: what a script's table may hold.                             *)

pairOf(key, val) == [key |-> key, val |-> val]

tableOf(pairs) == [table |-> TRUE, pairs |-> pairs]
noTable == [table |-> FALSE, pairs |-> <<>>]
service == tableOf(<<pairOf("svc", 1), pairOf("desc", 1)>>)

\* An entry beside one that is in order: keys in any order and more than one
\* that begins alike, a code or a description missing, the code -1, values
\* and keys of a wrong type, a number for a key before and after them.
MCOthers == {noTable, tableOf(<<>>)} \cup {tableOf(ps) : ps \in {
    <<pairOf("desc", 1), pairOf("other", 0), pairOf("svc", 2)>>,
    <<pairOf("svc", 2), pairOf("desc", 1), pairOf("svc", 3)>>,
    <<pairOf("desc", 1), pairOf("svc", 2), pairOf("desc", 0)>>,
    <<pairOf("svc", 2)>>, <<pairOf("desc", 1)>>,
    <<pairOf("svc", -1), pairOf("desc", 1)>>,
    <<pairOf("svc", NotInt), pairOf("desc", 1)>>,
    <<pairOf("svc", 2), pairOf("desc", NotString)>>,
    <<pairOf("svc", 2), pairOf("desc", 1), pairOf("invalid", 0), pairOf("index", 1)>>,
    <<pairOf("svc", 2), pairOf("index", 1), pairOf("invalid", 0)>> }}

MCEntries == {<<>>} \cup UNION {{<<e>>, <<service, e>>, <<e, service>>} : e \in MCOthers}

MCScripts ==
    [loads : BOOLEAN, early : BOOLEAN, sysinfo : {"absent", "fails", "works"},
     capability : [kind : {"table"}, entries : MCEntries]
                  \cup [kind : {"absent", "fails"}, entries : {<<>>}]]

(* The decoder: frames that may wait in it, fewer for H.264 than the code. *)

MCPending == [t \in {"VP8", "VP9", "H264"} |-> IF t = "H264" THEN 4 ELSE 1]
=============================================================================
