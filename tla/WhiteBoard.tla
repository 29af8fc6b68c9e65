----------------------------- MODULE WhiteBoard -----------------------------
(***************************************************************************)
(* The iOS white board service: BeeWhiteBoard over BeeSDKService, with its *)
(* view (src/src/api/bee/ios).                                             *)
(*                                                                         *)
(* Blocks run on two serial queues: `sdk' (the queue of BeeSDK) and `main' *)
(* (touches and the view).  The io thread only dispatches what arrives,    *)
(* members to the one, drawings to the other; a block of the main queue    *)
(* dispatches to the main queue again.  The room's server is external.     *)
(***************************************************************************)
EXTENDS WhiteBoardView

CONSTANTS
    Teacher,     \* the member whose board info is asked for
    RemoteTools, \* the drawing modes of what arrives
    LocalModes,  \* the drawing modes of the application
    Infos,       \* the boards the teacher may answer with
    MaxLayers, MaxBlocks, MaxPages,
    MaxInputs    \* bound on the calls, messages and touches of a behaviour

Info == [pages : Seq([past : Seq(Tool), future : Seq(Tool)]), url : BOOLEAN, index : Int]

ASSUME BoardAssumption ==
    /\ Teacher \in User
    /\ RemoteTools \subseteq Tool /\ LocalModes \subseteq Tool /\ Infos \subseteq Info
    /\ MaxLayers \in Nat /\ MaxBlocks \in Nat /\ MaxPages \in Nat /\ MaxInputs \in Nat

VARIABLES
    v,        \* the view
    board,    \* _registered, _sink and the last message sent of a line
    users,    \* _userTable: whether a member's next point begins a new line
    sdk, main,\* the queues
    finger,   \* a finger is down
    members,  \* the members that are in the room, as the server knows it
    quit,     \* members that left in the middle of a line
    lost,     \* layers of the lines whose touch the system cancelled
    late,     \* the last page was asked for before an earlier one had come
    inputs

boardVars == <<v, board, users, sdk, main, finger, members, quit, lost, late, inputs>>

Gone == "gone"
task(op, by, arg) == [op |-> op, by |-> by, arg |-> arg]
simple(op) == task(op, "local", "none")

board_init ==
    /\ v = new_view
    /\ board = [registered |-> FALSE, sink |-> TRUE, sent |-> "none"]
    /\ users = [u \in User |-> Gone]
    /\ sdk = <<>> /\ main = <<>> /\ finger = FALSE /\ members = {} /\ quit = {}
    /\ lost = {} /\ late = FALSE /\ inputs = 0

Room(q) == Len(q) < MaxBlocks
Fits == Len(v.layers) < MaxLayers

-----------------------------------------------------------------------------
(* The application's calls dispatch to the queue of BeeSDK, or through the *)
(* view to the main queue.                                                 *)

on_sdk(b) ==
    Room(sdk) /\ sdk' = Append(sdk, b) /\ UNCHANGED <<v, board, users, main, finger, members, quit, lost, late>>
on_main(b) ==
    Room(main) /\ main' = Append(main, b) /\ UNCHANGED <<v, board, users, sdk, finger, members, quit, lost, late>>

app_join == on_sdk(simple("join"))
app_leave == on_sdk(simple("leave"))
app_clearAll == on_sdk(simple("clear"))
app_undo == on_sdk(simple("undo"))
app_redo == on_sdk(simple("redo"))
app_setDrawingMode(mode) == on_main(task("mode", "local", mode))
app_lockDrawing == on_main(simple("lock"))
app_unlockDrawing == on_main(simple("unlock"))

\* A board that is not registered sends nothing; a message that is not made or
\* not sent is reported nowhere.
sendDataInternal(b, what, ok) ==
    IF b.registered /\ what # "other" THEN [b EXCEPT !.sent = IF ok THEN what ELSE "failed"] ELSE b

\* Register and execute may fail; the service stays registered.
board_joinInternal(b, ok) ==
    IF b.registered THEN b
    ELSE IF ok THEN [b EXCEPT !.registered = TRUE, !.sent = "none"] ELSE b

board_leaveInternal(b) == [b EXCEPT !.registered = FALSE, !.sink = FALSE]

-----------------------------------------------------------------------------
(* handleData on the io thread.                                            *)

dispatch_sdk(b) ==
    Room(sdk) /\ sdk' = Append(sdk, b) /\ UNCHANGED <<v, board, users, main, finger, quit, lost, late>>

handleRemoteMemberJoined(u) ==
    /\ u \notin members /\ members' = members \cup {u}
    /\ dispatch_sdk(task("joined", u, "none"))

handleRemoteMemberLeaved(u) ==
    /\ u \in members /\ members' = members \ {u}
    /\ dispatch_sdk(task("left", u, "none"))

handleMessage(u, cmd, arg) ==
    /\ board.registered /\ u \in members
    /\ cmd = "info" => Len(v.page) + Len(arg.pages) <= MaxPages
    /\ on_main(task(cmd, u, arg))

-----------------------------------------------------------------------------
(* Blocks of the queue of BeeSDK.                                          *)

view_call(op) ==
    CASE op = "clear" -> "view_clear" [] op = "undo" -> "view_undo" [] op = "redo" -> "view_redo"

handled(b, ok) ==
    /\ board' = CASE b.op = "join" -> board_joinInternal(board, ok)
                  [] b.op = "leave" -> board_leaveInternal(board)
                  [] b.op = "send" -> sendDataInternal(board, b.arg, ok)
                  [] OTHER -> sendDataInternal(board, "other", ok)
    /\ users' = CASE b.op = "joined" -> [users EXCEPT ![b.by] = "new"]
                  [] b.op = "left" -> [users EXCEPT ![b.by] = Gone]
                  [] OTHER -> users
    /\ quit' = IF b.op = "left" /\ users[b.by] = "drawing" THEN quit \cup {b.by} ELSE quit
    /\ main' = IF b.op \in {"clear", "undo", "redo"} THEN Append(main, simple(view_call(b.op))) ELSE main

run_sdk(ok) ==
    /\ sdk # <<>> /\ Room(main)
    /\ handled(Head(sdk), ok)
    /\ sdk' = Tail(sdk)
    /\ UNCHANGED <<v, finger, members, lost, late>>

-----------------------------------------------------------------------------
(* Blocks of the main queue.                                               *)

\* The first point of a line begins it.
handleDrawing(b, line) ==
    IF b.arg = "text" THEN <<task("text", b.by, "text")>>
    ELSE IF line = "new" THEN <<task("begin", b.by, b.arg), task("move", b.by, b.arg)>>
    ELSE <<task("move", b.by, b.arg)>>

handleSaveData(b) == <<task("end", b.by, "none")>>

cacheWhiteBoardItems(from, info) ==
    [i \in 1 .. Len(info.pages) |->
        new_page(from, info.url, cached("undo", info.pages[i].past), cached("redo", info.pages[i].future))]

handleBoardInfo(b) ==
    <<task("setinfo", b.by, [pages |-> cacheWhiteBoardItems(b.by, b.arg), index |-> b.arg.index])>>

newLine(b, line) ==
    IF b.op = "savedata" THEN "new"
    ELSE IF b.op = "drawing" /\ b.arg \in {"pen", "eraser"} THEN "drawing"
    ELSE line

\* What comes from a member that is not in the table is dropped.
handleWhiteBoardMessage(b) ==
    IF users[b.by] = Gone THEN <<>>
    ELSE CASE b.op = "drawing" -> handleDrawing(b, users[b.by])
           [] b.op = "savedata" -> handleSaveData(b)
           [] b.op = "info" -> handleBoardInfo(b)
           [] b.op = "clear" -> <<simple("view_clear")>>
           [] b.op = "undo" -> <<simple("view_undo")>>
           [] b.op = "redo" -> <<simple("view_redo")>>
           [] b.op = "nextpage" -> <<simple("next")>>
           [] b.op = "prepage" -> <<simple("prev")>>

Messages == {"drawing", "savedata", "info", "clear", "undo", "redo", "nextpage", "prepage"}

run_message ==
    /\ main # <<>> /\ Head(main).op \in Messages
    /\ LET b == Head(main) IN
        /\ main' = Tail(main) \o handleWhiteBoardMessage(b)
        /\ users' = IF users[b.by] = Gone THEN users ELSE [users EXCEPT ![b.by] = newLine(b, @)]
    /\ UNCHANGED <<v, board, sdk, finger, members, quit, lost, late>>

viewed(b) ==
    CASE b.op = "begin" -> onLineBegin(v, b.arg, b.by)
      [] b.op = "move" -> onLineMove(v, b.arg, b.by)
      [] b.op = "end" -> onLineEnd(v, b.by)
      [] b.op = "text" -> drawText(v, b.by)
      [] b.op = "view_clear" -> clearScreen(v)
      [] b.op = "view_undo" -> undo(v)
      [] b.op = "view_redo" -> redo(v)
      [] b.op = "setinfo" -> setBoardInfo(v, b.arg.pages, b.arg.index)
      [] b.op = "next" -> nextPage(v)
      [] b.op = "prev" -> prePage(v)
      [] b.op = "loaded" -> docLoaded(v, b.arg.page, b.arg.ok)
      [] b.op = "mode" -> setDrawingMode(v, b.arg)
      [] b.op = "lock" -> lockDrawing(v)
      [] b.op = "unlock" -> unlockDrawing(v)

\* A page was asked for, or fetched, and is not shown yet.
page_pending == v.loads # <<>> \/ \E i \in 1 .. Len(main) : main[i].op = "loaded"

\* Block b made the view go to another page.
asks(b) == \/ b.op = "setinfo"
           \/ b.op \in {"next", "prev"} /\ v'.index # v.index

run_view ==
    /\ main # <<>> /\ Head(main).op \notin Messages
    /\ Len(viewed(Head(main)).layers) <= MaxLayers
    /\ v' = viewed(Head(main))
    /\ main' = Tail(main)
    /\ late' = IF asks(Head(main)) THEN page_pending ELSE late
    /\ UNCHANGED <<board, users, sdk, finger, members, quit, lost>>

\* SDWebImage completes a load (external), in any order.
doc_fetched(ok) ==
    \E i \in 1 .. Len(v.loads) :
        /\ main' = Append(main, task("loaded", "local", [page |-> v.loads[i], ok |-> ok]))
        /\ v' = [v EXCEPT !.loads = RemoveAt(@, i)]
        /\ UNCHANGED <<board, users, sdk, finger, members, quit, lost, late>>

-----------------------------------------------------------------------------
(* Touches, on the main thread; what is drawn is told to the board.        *)

onDrawingLine(q) == Append(q, task("send", "local", "drawing"))
onDrawLineEnd(q) == Append(q, task("send", "local", "savedata"))

touchesBegan ==
    /\ ~finger /\ finger' = TRUE
    /\ Fits \/ v.lock
    /\ v' = IF v.lock THEN v ELSE onLineBegin(v, v.mode, "local")
    /\ UNCHANGED <<board, users, sdk, main, members, quit, lost, late>>

touchesMoved ==
    /\ finger /\ Room(sdk) /\ ~v.lock
    /\ v' = [onLineMove(v, v.mode, "local") EXCEPT !.drawing = TRUE]
    /\ sdk' = onDrawingLine(sdk)
    /\ UNCHANGED <<board, users, main, finger, members, quit, lost, late>>

end_local(x, q) ==
    IF x.drawing THEN [v |-> [onLineEnd(x, "local") EXCEPT !.drawing = FALSE], q |-> onDrawLineEnd(q)]
    ELSE [v |-> x, q |-> q]

touchesEnded ==
    /\ finger /\ finger' = FALSE /\ Len(sdk) + 1 < MaxBlocks
    /\ LET r == IF v.lock THEN end_local(v, sdk)
                ELSE end_local([onLineMove(v, v.mode, "local") EXCEPT !.drawing = TRUE], onDrawingLine(sdk))
       IN  v' = r.v /\ sdk' = r.q
    /\ UNCHANGED <<board, users, main, members, quit, lost, late>>

\* onPinchAction and onPanAction: the touches of the view are over.
onPinchAction ==
    /\ finger /\ finger' = FALSE /\ Room(sdk)
    /\ v' = end_local(v, sdk).v /\ sdk' = end_local(v, sdk).q
    /\ UNCHANGED <<board, users, main, members, quit, lost, late>>

\* The system takes the touch away (a call, an alert): the view handles no
\* touchesCancelled, and nothing ends the line.
touchesCancelled ==
    /\ finger /\ finger' = FALSE
    /\ lost' = lost \cup ({v.page[v.cur].local} \ {NoLayer})
    /\ UNCHANGED <<v, board, users, sdk, main, members, quit, late>>

-----------------------------------------------------------------------------

Application ==
    \/ app_join \/ app_leave \/ app_clearAll \/ app_undo \/ app_redo
    \/ \E mode \in LocalModes : app_setDrawingMode(mode)
    \/ app_lockDrawing \/ app_unlockDrawing

Server ==
    \E u \in User :
        \/ handleRemoteMemberJoined(u) \/ handleRemoteMemberLeaved(u)
        \/ \E cmd \in {"savedata", "clear", "undo", "redo"} : handleMessage(u, cmd, "none")
        \/ \E mode \in RemoteTools : handleMessage(u, "drawing", mode)
        \/ u = Teacher /\ \E cmd \in {"nextpage", "prepage"} : handleMessage(u, cmd, "none")
        \/ u = Teacher /\ \E info \in Infos : handleMessage(u, "info", info)

Touches == touchesBegan \/ touchesMoved \/ touchesEnded \/ touchesCancelled \/ onPinchAction

BoardNext ==
    \/ /\ inputs < MaxInputs /\ inputs' = inputs + 1
       /\ Application \/ Server \/ Touches
    \/ /\ UNCHANGED inputs
       /\ run_message \/ run_view \/ \E ok \in BOOLEAN : run_sdk(ok) \/ doc_fetched(ok)

-----------------------------------------------------------------------------
(* Properties.                                                             *)

\* Whatever can be seen belongs to the page that is shown and can be undone: a
\* layer of the screen is of the current page, unless redo brought it back (its
\* page does not know it is shown, and leaves it there when another is turned
\* to); and one that shows something is on the undo stack of its page or still
\* being drawn, unless its drawer left the room, or the system took the touch
\* away, in the middle of it.
Undoable ==
    \A l \in v.screen :
        /\ v.layers[l].page = v.cur \/ l \in v.stray
        /\ v.layers[l].seg /\ v.layers[l].mode \in {"pen", "eraser", "text"}
           => \/ l \in ToSet(v.page[v.layers[l].page].undo)
              \/ l = v.page[v.cur].local \/ \E u \in User : l = v.page[v.cur].remote[u]
              \/ v.layers[l].by \in quit \/ l \in lost

\* The page that is shown is the page the view says it is on, once nothing is
\* being loaded, unless that page was asked for while another was on its way:
\* the load that ends last is shown, not the one that was asked for last.
PageShown ==
    /\ ~late /\ v.loads = <<>> /\ \A i \in 1 .. Len(main) : main[i].op # "loaded"
    /\ v.index \in 0 .. Len(v.pages) - 1
    => v.cur = v.pages[v.index + 1]

\* The last the room is given of a line is its end (the receivers would join the
\* next line to it), unless giving it failed, however the drawing of it was
\* interrupted: a line whose touch the system cancelled stays open for the view
\* and is ended with the next touch.
SentWhole ==
    sdk = <<>> /\ ~v.drawing /\ board.registered => board.sent # "drawing"

\* What is on the screen is the page the view is on, and can be undone; and what
\* the room was sent is whole.
BoardInv == Undoable /\ PageShown /\ SentWhole
=============================================================================
