--------------------------- MODULE WhiteBoardView ---------------------------
(***************************************************************************)
(* The drawing surface of the iOS white board: BeeWhiteBoardView and       *)
(* BeeWhiteBoardPage (src/src/api/bee/ios), as operators on the record v   *)
(* of what the main thread keeps.  A layer is the number of a CALayer in   *)
(* v.layers; colours, widths and coordinates are left out.  v.stray is     *)
(* history: the layers that redo showed and no list of the view holds.     *)
(***************************************************************************)
EXTENDS Integers, Sequences, SequencesExt

CONSTANTS
    User,       \* uids of the remote members
    NoLayer     \* no layer is referenced

ASSUME ViewAssumption == NoLayer \notin Nat \ {0} /\ User \cap {"local", "none"} = {}

Tool == {"pen", "eraser", "text", "laser"}

\* A page object; 0 is the page the view is created with.
new_page(src, url, past, future) ==
    [undo |-> <<>>, redo |-> <<>>, local |-> NoLayer, remote |-> [u \in User |-> NoLayer],
     past |-> past, future |-> future, src |-> src, url |-> url, loaded |-> FALSE]

new_view ==
    [layers |-> <<>>, page |-> <<new_page("none", FALSE, <<>>, <<>>)>>, cur |-> 1,
     lines |-> {}, screen |-> {}, stray |-> {}, pages |-> <<>>, index |-> -1, loads |-> <<>>,
     mode |-> "pen", drawing |-> FALSE, lock |-> FALSE, laser |-> FALSE]

new_layer(v, by, mode, seg) ==
    [v EXCEPT !.layers = Append(@, [page |-> v.cur, by |-> by, mode |-> mode, seg |-> seg])]
newest(v) == Len(v.layers)

-----------------------------------------------------------------------------
(* BeeWhiteBoardPage.                                                      *)

pushUndo(v, l) == [v EXCEPT !.page[v.cur].undo = Append(@, l)]
pushRedo(v, l) == [v EXCEPT !.page[v.cur].redo = Append(@, l)]
popUndo(v) == [v EXCEPT !.page[v.cur].undo = Front(@)]
popRedo(v) == [v EXCEPT !.page[v.cur].redo = Front(@)]

clearUndoStack(v) ==
    [v EXCEPT !.screen = @ \ ToSet(v.page[v.cur].undo), !.page[v.cur].undo = <<>>]
clearRedoStack(v) ==
    [v EXCEPT !.screen = @ \ ToSet(v.page[v.cur].redo), !.page[v.cur].redo = <<>>]

refLayer(v, by, l) ==
    IF by = "local" THEN [v EXCEPT !.page[v.cur].local = l]
    ELSE IF by \in User THEN [v EXCEPT !.page[v.cur].remote[by] = l] ELSE v
getLayer(v, by) == IF by = "local" THEN v.page[v.cur].local ELSE v.page[v.cur].remote[by]
unrefLayer(v, by) == refLayer(v, by, NoLayer)

\* past is kept in order, future is inserted at the front.
cacheItem(stack, item, items) == IF stack = "undo" THEN Append(items, item) ELSE <<item>> \o items
cached(stack, items) == FoldLeft(LAMBDA acc, m : cacheItem(stack, m, acc), <<>>, items)

\* A line of the laser is not loaded.
loadLineToStack(v, o, mode, stack) ==
    IF mode = "laser" THEN v
    ELSE LET w == [v EXCEPT !.layers = Append(@, [page |-> o, by |-> v.page[o].src, mode |-> mode, seg |-> TRUE])] IN
         IF stack = "undo" THEN [w EXCEPT !.page[o].undo = Append(@, newest(w))]
         ELSE [w EXCEPT !.page[o].redo = Append(@, newest(w))]

loadTextToStack(v, o, stack) == loadLineToStack(v, o, "text", stack)

loadItemToStack(v, o, item, stack) ==
    IF item = "text" THEN loadTextToStack(v, o, stack) ELSE loadLineToStack(v, o, item, stack)

loadStack(v, o, items, stack) == FoldLeft(LAMBDA w, m : loadItemToStack(w, o, m, stack), v, items)

loadItems(v, o) ==
    LET undone == loadStack(v, o, v.page[o].past, "undo")
        redone == loadStack(undone, o, v.page[o].future, "redo")
    IN  [redone EXCEPT !.page[o].loaded = TRUE]

-----------------------------------------------------------------------------
(* BeeWhiteBoardView: drawing.                                             *)

onLineBegin(v, mode, by) ==
    IF mode = "laser" THEN v
    ELSE LET w == new_layer(v, by, mode, FALSE)
             l == newest(w)
         IN  refLayer(clearRedoStack([w EXCEPT !.screen = @ \cup {l}, !.lines = @ \cup {l}]), by, l)

onLineMove(v, mode, by) ==
    IF mode = "laser" THEN [v EXCEPT !.laser = TRUE]
    ELSE IF getLayer(v, by) = NoLayer THEN v
    ELSE [v EXCEPT !.layers[getLayer(v, by)].seg = TRUE]

onLineEnd(v, by) ==
    LET l == getLayer(v, by) IN
    unrefLayer([(IF l = NoLayer THEN v ELSE pushUndo(v, l)) EXCEPT !.laser = FALSE], by)

drawText(v, by) ==
    LET w == new_layer(v, by, "text", TRUE)
        l == newest(w)
    IN  pushUndo(clearRedoStack([w EXCEPT !.screen = @ \cup {l}, !.lines = @ \cup {l}]), l)

innerClearScreen(v, context) ==
    LET w == [v EXCEPT !.screen = @ \ v.lines, !.lines = {}] IN
    IF context THEN clearRedoStack(clearUndoStack(w)) ELSE w

clearScreen(v) == innerClearScreen(v, TRUE)

undo(v) ==
    IF v.page[v.cur].undo = <<>> THEN v
    ELSE LET l == Last(v.page[v.cur].undo) IN
         pushRedo([popUndo(v) EXCEPT !.screen = @ \ {l}], l)

\* The layer goes back to the screen, not to _lines.
redo(v) ==
    IF v.page[v.cur].redo = <<>> THEN v
    ELSE LET l == Last(v.page[v.cur].redo) IN
         pushUndo([popRedo(v) EXCEPT !.screen = @ \cup {l}, !.stray = @ \cup ({l} \ v.lines)], l)

-----------------------------------------------------------------------------
(* Pages.                                                                  *)

\* loadHandler: the page becomes the current one, its layers are shown and the
\* last of them is referenced for the member the board came from.
loadHandler(v, o) ==
    LET w == [innerClearScreen(v, FALSE) EXCEPT !.cur = o]
        shown == v.page[o].undo
        x == [w EXCEPT !.screen = @ \cup ToSet(shown), !.lines = @ \cup ToSet(shown),
                       !.stray = @ \ ToSet(shown)]
    IN  IF shown = <<>> THEN x ELSE refLayer(x, v.page[o].src, Last(shown))

loadWithoutDoc(v, o) == loadHandler(loadItems(v, o), o)

\* The image is fetched; its completion is posted to the main queue.
loadWithDoc(v, o) == [v EXCEPT !.loads = Append(@, o)]
docLoaded(v, o, ok) == loadHandler(IF ok THEN loadItems(v, o) ELSE v, o)

load(v, o) ==
    IF v.page[o].loaded THEN loadHandler(v, o)
    ELSE IF ~v.page[o].url THEN loadWithoutDoc(v, o)
    ELSE loadWithDoc(v, o)

loadFromPage(v, index) ==
    IF index < 0 \/ index >= Len(v.pages) THEN v ELSE load(v, v.pages[index + 1])

setBoardInfo(v, pages, index) ==
    LET w == [v EXCEPT !.page = @ \o pages,
                       !.pages = [i \in 1 .. Len(pages) |-> Len(v.page) + i],
                       !.index = index]
    IN  IF index >= Len(pages) THEN w ELSE loadFromPage(w, index)

nextPage(v) ==
    IF v.index + 1 < Len(v.pages) THEN loadFromPage([v EXCEPT !.index = @ + 1], v.index + 1) ELSE v

\* Faulty variant: the page number changes, the page does not.
prePage_unloaded(v) == IF v.index - 1 >= 0 THEN [v EXCEPT !.index = @ - 1] ELSE v

prePage(v) ==
    IF v.pages # <<>> /\ v.index - 1 >= 0
    THEN loadFromPage([v EXCEPT !.index = @ - 1], v.index - 1) ELSE v

-----------------------------------------------------------------------------
(* Settings.                                                               *)

setDrawingMode(v, mode) == [v EXCEPT !.mode = mode, !.laser = FALSE]
lockDrawing(v) == [v EXCEPT !.lock = TRUE]
unlockDrawing(v) == [v EXCEPT !.lock = FALSE]
=============================================================================
