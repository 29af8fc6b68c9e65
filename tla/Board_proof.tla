---------------------------- MODULE Board_proof -----------------------------
(***************************************************************************)
(* Proofs about the white board, for any members, boards and drawing       *)
(* modes, and any bounds: what is seen of a page can be undone, what the   *)
(* room was sent of a line is ended, and the page that is shown is the one *)
(* that was asked for, with what the code does not take care of stated: a  *)
(* touch the system cancelled, a layer that redo brought back, a page that *)
(* was asked for before another had come.                                  *)
(***************************************************************************)
EXTENDS WhiteBoard, DataLemmas

-----------------------------------------------------------------------------
(* The view.                                                               *)

Names == User \cup {"local"}

LayerRec == [page : Nat, by : Names \cup {"none"}, mode : Tool \ {"laser"}, seg : BOOLEAN]
PageRec == [undo : Seq(Nat), redo : Seq(Nat), local : Nat \cup {NoLayer},
            remote : [User -> Nat \cup {NoLayer}], past : Seq(Tool), future : Seq(Tool),
            src : Names \cup {"none"}, url : BOOLEAN, loaded : BOOLEAN]
ViewRec == [layers : Seq(LayerRec), page : Seq(PageRec), cur : Nat,
            lines : SUBSET Nat, screen : SUBSET Nat, stray : SUBSET Nat, pages : Seq(Nat), index : Int,
            loads : Seq(Nat), mode : Tool, drawing : BOOLEAN, lock : BOOLEAN, laser : BOOLEAN]

\* Layer l is one of page o.
LayerOf(w, l, o) == l \in DOMAIN w.layers /\ w.layers[l].page = o

\* A page's stacks and references hold layers of that page.
PageScoped(w, o) ==
    /\ \A i \in DOMAIN w.page[o].undo : LayerOf(w, w.page[o].undo[i], o)
    /\ \A i \in DOMAIN w.page[o].redo : LayerOf(w, w.page[o].redo[i], o)
    /\ w.page[o].local # NoLayer => LayerOf(w, w.page[o].local, o)
    /\ \A u \in User : w.page[o].remote[u] # NoLayer => LayerOf(w, w.page[o].remote[u], o)

Scoped(w) ==
    /\ w.cur \in DOMAIN w.page
    /\ \A i \in DOMAIN w.pages : w.pages[i] \in DOMAIN w.page
    /\ \A i \in DOMAIN w.loads : w.loads[i] \in DOMAIN w.page
    /\ w.screen \subseteq DOMAIN w.layers /\ w.lines \subseteq DOMAIN w.layers
    /\ \A l \in DOMAIN w.layers : w.layers[l].page \in DOMAIN w.page
    /\ \A o \in DOMAIN w.page : PageScoped(w, o)

Typed(w) == w \in ViewRec /\ Scoped(w)

\* The layers on the screen that are not on the undo stack of their page.
Stacked(w, l) == \E i \in DOMAIN w.page[w.layers[l].page].undo : w.page[w.layers[l].page].undo[i] = l
Open(w) == {l \in w.screen : ~Stacked(w, l)}

\* A layer on the screen is in a list of the view, or redo brought it back.
Held(w) == w.screen \subseteq w.lines \cup w.stray

\* They are lines of the current page, and the one a member draws is its own.
Drawn(w) ==
    /\ Held(w)
    /\ \A l \in Open(w) : l \in w.lines /\ w.layers[l].by \in Names
    /\ \A l \in w.lines : w.layers[l].page = w.cur
    /\ \A l \in Open(w), x \in Names : getLayer(w, x) = l => w.layers[l].by = x
    /\ \A l \in Open(w) : w.layers[l].mode = "text" => w.layers[l].by = "local"

\* Those that show something are still drawn, or their drawer left, or the system
\* took the touch away; Q tells who left, which were lost, and if a finger is down.
Kept(w, Q) ==
    \A l \in Open(w) :
        w.layers[l].seg => \/ getLayer(w, w.layers[l].by) = l
                           \/ w.layers[l].by \in Q.quit \/ l \in Q.lost

\* What the local user draws is known to the view, while the finger is down.
Touched(w, Q) ==
    \A l \in Open(w) : w.layers[l].by = "local" /\ w.layers[l].seg
                           => (Q.finger /\ w.drawing) \/ l \in Q.lost

Sound(w, Q) == Typed(w) /\ Drawn(w) /\ Kept(w, Q)
Good(w, Q) == Sound(w, Q) /\ Touched(w, Q)

-----------------------------------------------------------------------------
(* Steps of the view that leave no more open than there was.               *)

Within(w, x) ==
    /\ x.cur = w.cur /\ x.drawing = w.drawing /\ DOMAIN x.page = DOMAIN w.page
    /\ x.pages = w.pages /\ x.index = w.index /\ x.loads = w.loads
    /\ Open(x) \subseteq Open(w) /\ Open(x) \cap w.lines \subseteq x.lines
    /\ \A l \in x.lines : l \in w.lines \/ x.layers[l].page = w.cur
    /\ \A l \in DOMAIN w.layers : l \in DOMAIN x.layers /\ x.layers[l] = w.layers[l]
    /\ \A y \in Names : getLayer(x, y) = getLayer(w, y)
    /\ Held(w) => Held(x)

LEMMA WithinGood ==
    ASSUME NEW w, NEW x, NEW Q, Typed(x), Within(w, x)
    PROVE  Sound(w, Q) => Sound(x, Q) /\ (Touched(w, Q) => Touched(x, Q))
<1> SUFFICES ASSUME Sound(w, Q) PROVE Sound(x, Q) /\ (Touched(w, Q) => Touched(x, Q))
  OBVIOUS
<1>1. \A l \in Open(x) : l \in Open(w) /\ l \in DOMAIN w.layers /\ x.layers[l] = w.layers[l]
  BY DEF Sound, Typed, Scoped, Within, Open
<1>2. Drawn(x)
  <2>1. \A l \in x.lines : x.layers[l].page = x.cur
    BY DEF Sound, Drawn, Within, Typed, Scoped
  <2> QED BY <1>1, <2>1 DEF Sound, Drawn, Within
<1>3. Kept(x, Q)
  BY <1>1 DEF Sound, Drawn, Kept, Within
<1>4. Touched(w, Q) => Touched(x, Q)
  BY <1>1 DEF Touched, Within
<1> QED BY <1>2, <1>3, <1>4 DEF Sound

LEMMA WithinTransitive ==
    ASSUME NEW w, NEW x, Typed(x), NEW y, Within(w, x), Within(x, y)
    PROVE  Within(w, y)
<1>1. \A l \in y.lines : l \in w.lines \/ y.layers[l].page = w.cur
  BY DEF Within, Typed, Scoped
<1> QED BY <1>1 DEF Within

\* From w to x nothing changed but the current page's stacks and the screen.
Restacked(w, x, U, R, S) ==
    /\ x \in ViewRec /\ x.layers = w.layers /\ x.cur = w.cur /\ x.lines = w.lines /\ x.screen = S
    /\ x.pages = w.pages /\ x.index = w.index /\ x.loads = w.loads /\ x.drawing = w.drawing
    /\ w.stray \subseteq x.stray /\ DOMAIN x.page = DOMAIN w.page
    /\ x.page[w.cur].undo = U /\ x.page[w.cur].redo = R
    /\ x.page[w.cur].local = w.page[w.cur].local /\ x.page[w.cur].remote = w.page[w.cur].remote
    /\ \A o \in DOMAIN w.page : o # w.cur => x.page[o] = w.page[o]

LEMMA RestackedTwice ==
    ASSUME NEW w, NEW x, NEW y, NEW U, NEW R, NEW S, NEW U2, NEW R2, NEW S2,
           Restacked(w, x, U, R, S), Restacked(x, y, U2, R2, S2)
    PROVE  Restacked(w, y, U2, R2, S2)
BY DEF Restacked

LEMMA SetStacks ==
    ASSUME NEW w \in ViewRec, w.cur \in DOMAIN w.page, NEW s \in Seq(Nat), NEW S \in SUBSET Nat
    PROVE  /\ Restacked(w, [w EXCEPT !.page[w.cur].undo = s], s, w.page[w.cur].redo, w.screen)
           /\ Restacked(w, [w EXCEPT !.page[w.cur].redo = s], w.page[w.cur].undo, s, w.screen)
           /\ Restacked(w, [w EXCEPT !.screen = S], w.page[w.cur].undo, w.page[w.cur].redo, S)
<1>1. w.page[w.cur] \in PageRec /\ w.page \in Seq(PageRec)
  BY ElementOfSeq DEF ViewRec
<1>2. [w EXCEPT !.page[w.cur].undo = s] \in ViewRec
  <2>1. [w.page[w.cur] EXCEPT !.undo = s] \in PageRec
    BY <1>1 DEF PageRec
  <2>2. [w.page EXCEPT ![w.cur] = [@ EXCEPT !.undo = s]] \in Seq(PageRec)
    BY <1>1, <2>1, ExceptSeq
  <2> QED BY <2>2 DEF ViewRec
<1>3. [w EXCEPT !.page[w.cur].redo = s] \in ViewRec
  <2>1. [w.page[w.cur] EXCEPT !.redo = s] \in PageRec
    BY <1>1 DEF PageRec
  <2>2. [w.page EXCEPT ![w.cur] = [@ EXCEPT !.redo = s]] \in Seq(PageRec)
    BY <1>1, <2>1, ExceptSeq
  <2> QED BY <2>2 DEF ViewRec
<1>4. Restacked(w, [w EXCEPT !.page[w.cur].undo = s], s, w.page[w.cur].redo, w.screen)
  BY <1>1, <1>2 DEF Restacked, ViewRec, PageRec
<1>5. Restacked(w, [w EXCEPT !.page[w.cur].redo = s], w.page[w.cur].undo, s, w.screen)
  BY <1>1, <1>3 DEF Restacked, ViewRec, PageRec
<1>6. Restacked(w, [w EXCEPT !.screen = S], w.page[w.cur].undo, w.page[w.cur].redo, S)
  BY <1>1 DEF Restacked, ViewRec
<1> QED BY <1>4, <1>5, <1>6

\* Where the current page's stacks and the screen change, and no more opens.
LEMMA StacksChange ==
    ASSUME NEW w, Typed(w), NEW x, NEW U \in Seq(Nat), NEW R \in Seq(Nat), NEW S \in SUBSET Nat,
           Restacked(w, x, U, R, S),
           \A i \in DOMAIN U : LayerOf(w, U[i], w.cur),
           \A i \in DOMAIN R : LayerOf(w, R[i], w.cur),
           \A l \in S : l \in DOMAIN w.layers /\ (l \in w.screen \/ l \in w.lines \cup x.stray),
           \A l \in S : \/ l \in Open(w)
                        \/ w.layers[l].page = w.cur /\ \E i \in DOMAIN U : U[i] = l
                        \/ w.layers[l].page # w.cur /\ Stacked(w, l)
    PROVE  Typed(x) /\ Within(w, x)
<1>1. \A l, o : LayerOf(w, l, o) <=> LayerOf(x, l, o)
  BY DEF LayerOf, Restacked
<1>2. ASSUME NEW o \in DOMAIN x.page PROVE PageScoped(x, o)
  <2>1. CASE o = w.cur
    BY <1>1, <2>1 DEF Typed, Scoped, PageScoped, Restacked
  <2>2. CASE o # w.cur
    <3>1. PageScoped(w, o) /\ x.page[o] = w.page[o]
      BY <2>2 DEF Typed, Scoped, Restacked
    <3> QED BY <1>1, <3>1 DEF PageScoped
  <2> QED BY <2>1, <2>2
<1>3. Scoped(x)
  BY <1>2 DEF Typed, Scoped, Restacked
<1>4. \A y \in Names : getLayer(x, y) = getLayer(w, y)
  BY DEF getLayer, Restacked
<1>5. ASSUME NEW l \in Open(x) PROVE l \in Open(w)
  <2>1. l \in S /\ x.layers[l] = w.layers[l] /\ w.layers[l].page \in DOMAIN w.page
    BY DEF Open, Restacked, Typed, Scoped
  <2>2. ~Stacked(x, l) /\ x.layers[l].page = w.layers[l].page
    BY <2>1 DEF Open
  <2>3. CASE w.layers[l].page = w.cur /\ \E i \in DOMAIN U : U[i] = l
    BY <2>2, <2>3 DEF Stacked, Restacked
  <2>4. CASE w.layers[l].page # w.cur /\ Stacked(w, l)
    <3>1. x.page[w.layers[l].page] = w.page[w.layers[l].page]
      BY <2>1, <2>4 DEF Restacked
    <3> QED BY <2>2, <2>4, <3>1 DEF Stacked
  <2> QED BY <2>1, <2>3, <2>4
<1>6. Held(w) => Held(x)
  BY DEF Held, Restacked
<1> QED BY <1>3, <1>4, <1>5, <1>6 DEF Typed, Within, Restacked

\* What the stacks of the current page hold.
StackTyped(w) ==
    /\ w \in ViewRec /\ w.cur \in DOMAIN w.page /\ w.cur \in Nat
    /\ w.page[w.cur] \in PageRec
    /\ w.page[w.cur].undo \in Seq(Nat) /\ w.page[w.cur].redo \in Seq(Nat)
    /\ \A i \in DOMAIN w.page[w.cur].undo : LayerOf(w, w.page[w.cur].undo[i], w.cur)
    /\ \A i \in DOMAIN w.page[w.cur].redo : LayerOf(w, w.page[w.cur].redo[i], w.cur)
    /\ w.screen \in SUBSET Nat /\ \A l \in w.screen : l \in DOMAIN w.layers
    /\ \A l \in w.screen : \/ l \in Open(w)
                           \/ w.layers[l].page # w.cur /\ Stacked(w, l)
                           \/ /\ w.layers[l].page = w.cur
                              /\ \E i \in DOMAIN w.page[w.cur].undo : w.page[w.cur].undo[i] = l

LEMMA StackTypes == ASSUME NEW w, Typed(w) PROVE StackTyped(w)
<1>1. w \in ViewRec /\ w.cur \in DOMAIN w.page /\ PageScoped(w, w.cur)
  BY DEF Typed, Scoped
<1>2. w.page[w.cur] \in PageRec
  BY <1>1, ElementOfSeq DEF ViewRec
<1>3. \A l \in w.screen : l \in Open(w) \/ Stacked(w, l)
  BY DEF Open
<1>4. \A l \in w.screen : l \in DOMAIN w.layers
  BY DEF Typed, Scoped
<1>5. \A l \in w.screen : Stacked(w, l) /\ w.layers[l].page = w.cur
          => \E i \in DOMAIN w.page[w.cur].undo : w.page[w.cur].undo[i] = l
  BY DEF Stacked
<1>6. w.page[w.cur].undo \in Seq(Nat) /\ w.page[w.cur].redo \in Seq(Nat)
  BY <1>2 DEF PageRec
<1>7. w.screen \in SUBSET Nat /\ w.cur \in Nat
  BY <1>1 DEF ViewRec
<1> QED BY <1>1, <1>2, <1>3, <1>4, <1>5, <1>6, <1>7 DEF PageScoped, StackTyped

\* The same as StacksChange, of stacks that are named.
LEMMA StacksLose ==
    ASSUME NEW w, Typed(w), NEW x, NEW U \in Seq(Nat), NEW R \in Seq(Nat), NEW S \in SUBSET Nat,
           Restacked(w, x, U, R, S), S \subseteq w.screen,
           \A i \in DOMAIN U : LayerOf(w, U[i], w.cur),
           \A i \in DOMAIN R : LayerOf(w, R[i], w.cur),
           \A i \in DOMAIN w.page[w.cur].undo :
               w.page[w.cur].undo[i] \in S => \E j \in DOMAIN U : U[j] = w.page[w.cur].undo[i]
    PROVE  Typed(x) /\ Within(w, x)
<1>1. StackTyped(w)
  BY StackTypes
<1>2. \A l \in S : l \in DOMAIN w.layers /\ (l \in w.screen \/ l \in w.lines \cup x.stray)
  BY <1>1 DEF StackTyped
<1>3. \A l \in S : \/ l \in Open(w)
                   \/ w.layers[l].page = w.cur /\ \E i \in DOMAIN U : U[i] = l
                   \/ w.layers[l].page # w.cur /\ Stacked(w, l)
  BY <1>1 DEF StackTyped
<1> QED BY <1>2, <1>3, StacksChange

LEMMA AppendedAt ==
    ASSUME NEW s \in Seq(Nat), NEW l \in Nat
    PROVE  /\ Append(s, l) \in Seq(Nat) /\ Len(s) \in Nat
           /\ DOMAIN s = 1 .. Len(s) /\ DOMAIN Append(s, l) = 1 .. Len(s) + 1
           /\ Append(s, l)[Len(s) + 1] = l
           /\ \A i \in 1 .. Len(s) : i \in DOMAIN Append(s, l) /\ Append(s, l)[i] = s[i]
BY AppendProperties

LEMMA PushesUndo ==
    ASSUME NEW w, Typed(w), NEW l, LayerOf(w, l, w.cur)
    PROVE  /\ Restacked(w, pushUndo(w, l), Append(w.page[w.cur].undo, l), w.page[w.cur].redo, w.screen)
           /\ Typed(pushUndo(w, l)) /\ Within(w, pushUndo(w, l))
           /\ l \notin Open(pushUndo(w, l))
<1> DEFINE U == w.page[w.cur].undo
           R == w.page[w.cur].redo
           x == pushUndo(w, l)
<1>0. StackTyped(w)
  BY StackTypes
<1>1. U \in Seq(Nat) /\ R \in Seq(Nat) /\ w.screen \in SUBSET Nat /\ l \in Nat
  BY <1>0 DEF LayerOf, StackTyped, ViewRec
<1>2. /\ Append(U, l) \in Seq(Nat) /\ Len(U) \in Nat
      /\ DOMAIN U = 1 .. Len(U) /\ DOMAIN Append(U, l) = 1 .. Len(U) + 1
      /\ Append(U, l)[Len(U) + 1] = l
      /\ \A i \in 1 .. Len(U) : i \in DOMAIN Append(U, l) /\ Append(U, l)[i] = U[i]
  <2> HIDE DEF U
  <2> QED BY <1>1, AppendedAt
<1>3. Restacked(w, x, Append(U, l), R, w.screen)
  <2>1. x = [w EXCEPT !.page[w.cur].undo = Append(U, l)]
    BY DEF pushUndo
  <2>2. w \in ViewRec /\ w.cur \in DOMAIN w.page
    BY <1>0 DEF StackTyped
  <2> HIDE DEF x, U
  <2> QED BY <1>1, <1>2, <2>1, <2>2, SetStacks
<1>4. \A i \in DOMAIN Append(U, l) : LayerOf(w, Append(U, l)[i], w.cur)
  <2>1. ASSUME NEW i \in 1 .. Len(U) PROVE LayerOf(w, Append(U, l)[i], w.cur)
    BY <1>0, <1>2 DEF StackTyped
  <2>2. \A i \in 1 .. Len(U) + 1 : i \in 1 .. Len(U) \/ i = Len(U) + 1
    BY <1>2
  <2> QED BY <1>2, <2>1, <2>2
<1>5. \A i \in DOMAIN U : U[i] \in w.screen => \E j \in DOMAIN Append(U, l) : Append(U, l)[j] = U[i]
  BY <1>2
<1>6. Typed(x) /\ Within(w, x)
  <2>1. \A i \in DOMAIN R : LayerOf(w, R[i], w.cur)
    BY <1>0 DEF StackTyped
  <2> HIDE DEF R, x
  <2> QED BY <1>1, <1>2, <1>3, <1>4, <1>5, <2>1, StacksLose
<1>7. l \notin Open(x)
  <2>1. x.layers = w.layers /\ x.page[w.cur].undo = Append(U, l) /\ w.layers[l].page = w.cur
    BY <1>3 DEF Restacked, LayerOf
  <2>2. Len(U) + 1 \in DOMAIN Append(U, l)
    BY <1>2
  <2> QED BY <1>2, <2>1, <2>2 DEF Open, Stacked
<1> QED BY <1>3, <1>6, <1>7

LEMMA RestackedOn ==
    ASSUME NEW w, w.cur \in DOMAIN w.page, NEW x, NEW U, NEW R, NEW S, Restacked(w, x, U, R, S),
           NEW s \in Seq(Nat), NEW T \in SUBSET Nat
    PROVE  /\ Restacked(w, [x EXCEPT !.page[x.cur].undo = s], s, R, S)
           /\ Restacked(w, [x EXCEPT !.page[x.cur].redo = s], U, s, S)
           /\ Restacked(w, [x EXCEPT !.screen = T], U, R, T)
<1>1. x \in ViewRec /\ x.cur \in DOMAIN x.page /\ x.page[x.cur].undo = U /\ x.page[x.cur].redo = R /\ x.screen = S
  BY DEF Restacked
<1>2. /\ Restacked(x, [x EXCEPT !.page[x.cur].undo = s], s, R, S)
      /\ Restacked(x, [x EXCEPT !.page[x.cur].redo = s], U, s, S)
      /\ Restacked(x, [x EXCEPT !.screen = T], U, R, T)
  BY <1>1, SetStacks
<1> QED BY <1>2, RestackedTwice

LEMMA FrontAt ==
    ASSUME NEW s \in Seq(Nat), s # <<>>
    PROVE  /\ Front(s) \in Seq(Nat) /\ Len(s) \in Nat \ {0} /\ DOMAIN s = 1 .. Len(s)
           /\ DOMAIN Front(s) = 1 .. Len(s) - 1 /\ Last(s) = s[Len(s)] /\ Last(s) \in Nat
           /\ Len(s) \in DOMAIN s
           /\ \A i \in 1 .. Len(s) - 1 : i \in DOMAIN s /\ Front(s)[i] = s[i]
<1>1. Len(s) \in Nat \ {0} /\ DOMAIN s = 1 .. Len(s) /\ \A i \in 1 .. Len(s) : s[i] \in Nat
  BY EmptySeq, LenProperties, ElementOfSeq
<1>2. /\ Front(s) \in Seq(Nat) /\ DOMAIN Front(s) = 1 .. Len(s) - 1
      /\ \A i \in 1 .. Len(s) - 1 : Front(s)[i] = s[i]
  BY <1>1 DEF Front
<1> QED BY <1>1, <1>2 DEF Last

\* The current page loses its redo stack, or its undo stack.
LEMMA ClearsRedo ==
    ASSUME NEW w, Typed(w)
    PROVE  /\ Typed(clearRedoStack(w)) /\ Within(w, clearRedoStack(w))
           /\ Restacked(w, clearRedoStack(w), w.page[w.cur].undo, <<>>, w.screen \ ToSet(w.page[w.cur].redo))
<1> DEFINE U == w.page[w.cur].undo
           S == w.screen \ ToSet(w.page[w.cur].redo)
           x == clearRedoStack(w)
<1>0. StackTyped(w)
  BY StackTypes
<1>1. U \in Seq(Nat) /\ S \in SUBSET Nat /\ S \subseteq w.screen /\ <<>> \in Seq(Nat)
  BY <1>0 DEF StackTyped
<1>2. Restacked(w, x, U, <<>>, S)
  <2>1. Restacked(w, [w EXCEPT !.screen = S], U, w.page[w.cur].redo, S)
    BY <1>0, <1>1, SetStacks DEF StackTyped
  <2> DEFINE y == [w EXCEPT !.screen = S]
  <2>2. x = [y EXCEPT !.page[y.cur].redo = <<>>]
    BY <2>1 DEF clearRedoStack, Restacked
  <2>3. w.cur \in DOMAIN w.page
    BY <1>0 DEF StackTyped
  <2> HIDE DEF x, y, U, S
  <2> QED BY <1>1, <2>1, <2>2, <2>3, RestackedOn DEF y
<1>3. \A i \in DOMAIN U : LayerOf(w, U[i], w.cur)
  BY <1>0 DEF StackTyped
<1>4. Typed(x) /\ Within(w, x)
  <2>1. \A i \in DOMAIN <<>> : LayerOf(w, <<>>[i], w.cur)
    OBVIOUS
  <2>2. \A i \in DOMAIN w.page[w.cur].undo :
               w.page[w.cur].undo[i] \in S => \E j \in DOMAIN U : U[j] = w.page[w.cur].undo[i]
    OBVIOUS
  <2> HIDE DEF x, U, S
  <2> QED BY <1>1, <1>2, <1>3, <2>1, <2>2, StacksLose
<1> QED BY <1>2, <1>4

LEMMA ClearsUndo ==
    ASSUME NEW w, Typed(w)
    PROVE  Typed(clearUndoStack(w)) /\ Within(w, clearUndoStack(w))
<1> DEFINE R == w.page[w.cur].redo
           S == w.screen \ ToSet(w.page[w.cur].undo)
           x == clearUndoStack(w)
<1>0. StackTyped(w)
  BY StackTypes
<1>1. R \in Seq(Nat) /\ S \in SUBSET Nat /\ S \subseteq w.screen /\ <<>> \in Seq(Nat)
  BY <1>0 DEF StackTyped
<1>2. Restacked(w, x, <<>>, R, S)
  <2>1. Restacked(w, [w EXCEPT !.screen = S], w.page[w.cur].undo, R, S)
    BY <1>0, <1>1, SetStacks DEF StackTyped
  <2> DEFINE y == [w EXCEPT !.screen = S]
  <2>2. x = [y EXCEPT !.page[y.cur].undo = <<>>]
    BY <2>1 DEF clearUndoStack, Restacked
  <2>3. w.cur \in DOMAIN w.page
    BY <1>0 DEF StackTyped
  <2> HIDE DEF x, y, R, S
  <2> QED BY <1>1, <2>1, <2>2, <2>3, RestackedOn DEF y
<1>3. \A i \in DOMAIN R : LayerOf(w, R[i], w.cur)
  BY <1>0 DEF StackTyped
<1>4. Typed(x) /\ Within(w, x)
  <2>1. \A i \in DOMAIN <<>> : LayerOf(w, <<>>[i], w.cur)
    OBVIOUS
  <2>2. \A i \in DOMAIN w.page[w.cur].undo : w.page[w.cur].undo[i] \notin S
    BY DEF ToSet
  <2> HIDE DEF x, R, S
  <2> QED BY <1>1, <1>2, <1>3, <2>1, <2>2, StacksLose
<1> QED BY <1>4

LEMMA Undoes ==
    ASSUME NEW w, Typed(w)
    PROVE  Typed(undo(w)) /\ Within(w, undo(w))
<1> DEFINE U == w.page[w.cur].undo
           R == w.page[w.cur].redo
           l == Last(U)
           S == w.screen \ {l}
           x == undo(w)
<1>0. StackTyped(w) /\ Within(w, w)
  BY StackTypes DEF Within
<1>1. CASE U = <<>>
  BY <1>0, <1>1 DEF undo
<1>2. CASE U # <<>>
  <2>1. U \in Seq(Nat) /\ R \in Seq(Nat) /\ S \in SUBSET Nat /\ S \subseteq w.screen /\ w.cur \in DOMAIN w.page
    BY <1>0 DEF StackTyped
  <2>2. /\ Front(U) \in Seq(Nat) /\ Len(U) \in Nat \ {0} /\ DOMAIN U = 1 .. Len(U)
        /\ DOMAIN Front(U) = 1 .. Len(U) - 1 /\ l = U[Len(U)] /\ l \in Nat /\ Len(U) \in DOMAIN U
        /\ \A i \in 1 .. Len(U) - 1 : i \in DOMAIN U /\ Front(U)[i] = U[i]
    <3> HIDE DEF U
    <3> QED BY <1>2, <2>1, FrontAt
  <2>3. /\ Append(R, l) \in Seq(Nat) /\ Len(R) \in Nat
        /\ DOMAIN R = 1 .. Len(R) /\ DOMAIN Append(R, l) = 1 .. Len(R) + 1
        /\ Append(R, l)[Len(R) + 1] = l
        /\ \A i \in 1 .. Len(R) : i \in DOMAIN Append(R, l) /\ Append(R, l)[i] = R[i]
    <3> HIDE DEF R, l
    <3> QED BY <2>1, <2>2, AppendedAt
  <2>4. Restacked(w, popUndo(w), Front(U), R, w.screen)
    <3>1. popUndo(w) = [w EXCEPT !.page[w.cur].undo = Front(U)]
      BY DEF popUndo
    <3>2. w \in ViewRec
      BY <1>0 DEF StackTyped
    <3> HIDE DEF U
    <3> QED BY <2>1, <2>2, <3>1, <3>2, SetStacks
  <2> DEFINE y == [popUndo(w) EXCEPT !.screen = @ \ {l}]
  <2>5. Restacked(w, y, Front(U), R, S)
    <3>1. y = [popUndo(w) EXCEPT !.screen = S]
      BY <2>4 DEF Restacked
    <3> HIDE DEF y, S, R, U, l
    <3> QED BY <2>1, <2>4, <3>1, RestackedOn
  <2>6. x = pushRedo(y, l)
    BY <1>2 DEF undo
  <2>7. Restacked(w, x, Front(U), Append(R, l), S)
    <3>1. x = [y EXCEPT !.page[y.cur].redo = Append(R, l)]
      BY <2>5, <2>6 DEF pushRedo, Restacked
    <3> HIDE DEF x, y, S, R, U, l
    <3> QED BY <2>1, <2>3, <2>5, <3>1, RestackedOn
  <2>8. \A i \in DOMAIN Front(U) : LayerOf(w, Front(U)[i], w.cur)
    BY <1>0, <2>2 DEF StackTyped
  <2>9. \A i \in DOMAIN Append(R, l) : LayerOf(w, Append(R, l)[i], w.cur)
    <3>1. LayerOf(w, l, w.cur) /\ \A i \in 1 .. Len(R) : LayerOf(w, R[i], w.cur)
      BY <1>0, <2>2, <2>3 DEF StackTyped
    <3>2. \A i \in 1 .. Len(R) + 1 : i \in 1 .. Len(R) \/ i = Len(R) + 1
      BY <2>3
    <3> HIDE DEF R, l
    <3> QED BY <2>3, <3>1, <3>2
  <2>10. \A i \in DOMAIN U : U[i] \in S => \E j \in DOMAIN Front(U) : Front(U)[j] = U[i]
    <3> SUFFICES ASSUME NEW i \in DOMAIN U, U[i] \in S PROVE \E j \in DOMAIN Front(U) : Front(U)[j] = U[i]
      OBVIOUS
    <3>1. U[i] # l
      OBVIOUS
    <3>2. i \in 1 .. Len(U) - 1
      <4> HIDE DEF U, l
      <4> QED BY <2>2, <3>1
    <3> QED BY <2>2, <3>2
  <2> HIDE DEF x, U, R, S, l
  <2>11. Typed(x) /\ Within(w, x)
    BY <2>1, <2>2, <2>3, <2>7, <2>8, <2>9, <2>10, StacksLose DEF U
  <2> QED BY <2>11 DEF x
<1> QED BY <1>1, <1>2

LEMMA Redoes ==
    ASSUME NEW w, Typed(w)
    PROVE  Typed(redo(w)) /\ Within(w, redo(w))
<1> DEFINE U == w.page[w.cur].undo
           R == w.page[w.cur].redo
           l == Last(R)
           S == w.screen \cup {l}
           x == redo(w)
<1>0. StackTyped(w) /\ Within(w, w)
  BY StackTypes DEF Within
<1>1. CASE R = <<>>
  BY <1>0, <1>1 DEF redo
<1>2. CASE R # <<>>
  <2>1. U \in Seq(Nat) /\ R \in Seq(Nat) /\ w.cur \in DOMAIN w.page
    BY <1>0 DEF StackTyped
  <2>2. /\ Front(R) \in Seq(Nat) /\ Len(R) \in Nat \ {0} /\ DOMAIN R = 1 .. Len(R)
        /\ DOMAIN Front(R) = 1 .. Len(R) - 1 /\ l = R[Len(R)] /\ l \in Nat /\ Len(R) \in DOMAIN R
        /\ \A i \in 1 .. Len(R) - 1 : i \in DOMAIN R /\ Front(R)[i] = R[i]
    <3> HIDE DEF R
    <3> QED BY <1>2, <2>1, FrontAt
  <2>3. /\ Append(U, l) \in Seq(Nat) /\ Len(U) \in Nat
        /\ DOMAIN U = 1 .. Len(U) /\ DOMAIN Append(U, l) = 1 .. Len(U) + 1
        /\ Append(U, l)[Len(U) + 1] = l
        /\ \A i \in 1 .. Len(U) : i \in DOMAIN Append(U, l) /\ Append(U, l)[i] = U[i]
    <3> HIDE DEF U, l
    <3> QED BY <2>1, <2>2, AppendedAt
  <2>4. Restacked(w, popRedo(w), U, Front(R), w.screen)
    <3>1. popRedo(w) = [w EXCEPT !.page[w.cur].redo = Front(R)]
      BY DEF popRedo
    <3>2. w \in ViewRec
      BY <1>0 DEF StackTyped
    <3> HIDE DEF R
    <3> QED BY <2>1, <2>2, <3>1, <3>2, SetStacks
  <2> DEFINE y == [popRedo(w) EXCEPT !.screen = @ \cup {l}, !.stray = @ \cup ({l} \ w.lines)]
             z == [popRedo(w) EXCEPT !.screen = S]
             T == z.stray \cup ({l} \ w.lines)
  <2>5. S \in SUBSET Nat
    BY <1>0, <2>2 DEF StackTyped
  <2>6. Restacked(w, y, U, Front(R), S) /\ l \in w.lines \cup y.stray
    <3>1. popRedo(w) \in ViewRec /\ popRedo(w).screen = w.screen
      BY <2>4 DEF Restacked
    <3>2. y = [z EXCEPT !.stray = T]
      <4> HIDE DEF R, U, l
      <4> QED BY <3>1 DEF ViewRec
    <3>3. Restacked(w, z, U, Front(R), S)
      <4> HIDE DEF S, R, U, l
      <4> QED BY <2>1, <2>4, <2>5, RestackedOn
    <3> HIDE DEF S, R, U, l, y, z
    <3>4. z \in ViewRec /\ T \in SUBSET Nat
      BY <2>2, <3>3 DEF Restacked, ViewRec
    <3>5. l \in w.lines \/ l \in T
      OBVIOUS
    <3> HIDE DEF T
    <3>6. y \in ViewRec /\ y.stray = T
      BY <3>2, <3>4 DEF ViewRec
    <3>7. z.stray \subseteq T
      BY DEF T
    <3>8. Restacked(w, y, U, Front(R), S)
      BY <3>2, <3>3, <3>4, <3>6, <3>7 DEF Restacked, ViewRec
    <3> QED BY <3>5, <3>6, <3>8
  <2>7. x = pushUndo(y, l)
    BY <1>2 DEF redo
  <2>8. Restacked(w, x, Append(U, l), Front(R), S) /\ l \in w.lines \cup x.stray
    <3>1. x = [y EXCEPT !.page[y.cur].undo = Append(U, l)]
      BY <2>6, <2>7 DEF pushUndo, Restacked
    <3> HIDE DEF x, y, S, R, U, l
    <3>2. Restacked(w, x, Append(U, l), Front(R), S)
      BY <2>1, <2>3, <2>5, <2>6, <3>1, RestackedOn
    <3>3. y \in ViewRec /\ y.cur \in DOMAIN y.page
      BY <2>1, <2>6 DEF Restacked
    <3>4. Restacked(y, x, Append(U, l), y.page[y.cur].redo, y.screen)
      BY <2>3, <2>5, <3>1, <3>3, SetStacks
    <3> QED BY <2>6, <3>2, <3>4 DEF Restacked
  <2>9. \A i \in DOMAIN Front(R) : LayerOf(w, Front(R)[i], w.cur)
    BY <1>0, <2>2 DEF StackTyped
  <2>10. LayerOf(w, l, w.cur)
    BY <1>0, <2>2 DEF StackTyped
  <2>11. \A i \in DOMAIN Append(U, l) : LayerOf(w, Append(U, l)[i], w.cur)
    <3>1. \A i \in 1 .. Len(U) : LayerOf(w, U[i], w.cur)
      BY <1>0, <2>3 DEF StackTyped
    <3>2. \A i \in 1 .. Len(U) + 1 : i \in 1 .. Len(U) \/ i = Len(U) + 1
      BY <2>3
    <3> HIDE DEF U, l
    <3> QED BY <2>3, <2>10, <3>1, <3>2
  <2>12. \A k \in S : k \in DOMAIN w.layers /\ (k \in w.screen \/ k \in w.lines \cup x.stray)
    <3> HIDE DEF x, R, U, l
    <3> QED BY <1>0, <2>8, <2>10 DEF StackTyped, LayerOf
  <2>13. ASSUME NEW k \in S
         PROVE  \/ k \in Open(w)
                \/ w.layers[k].page = w.cur /\ \E i \in DOMAIN Append(U, l) : Append(U, l)[i] = k
                \/ w.layers[k].page # w.cur /\ Stacked(w, k)
    <3>1. CASE k = l
      <4>1. Len(U) + 1 \in DOMAIN Append(U, l)
        BY <2>3
      <4> QED BY <2>3, <2>10, <3>1, <4>1 DEF LayerOf
    <3>2. CASE k \in w.screen
      BY <1>0, <2>3, <3>2 DEF StackTyped
    <3> QED BY <3>1, <3>2
  <2> HIDE DEF x, U, R, S, l
  <2>14. Typed(x) /\ Within(w, x)
    BY <2>2, <2>3, <2>5, <2>8, <2>9, <2>11, <2>12, <2>13, StacksChange
  <2> QED BY <2>14 DEF x
<1> QED BY <1>1, <1>2

\* The lines are taken from the screen.
Unlined(w) == [w EXCEPT !.screen = @ \ w.lines, !.lines = {}]

LEMMA ClearsLines ==
    ASSUME NEW w, Typed(w), Drawn(w)
    PROVE  /\ Typed(Unlined(w)) /\ Within(w, Unlined(w)) /\ Open(Unlined(w)) = {}
           /\ Unlined(w).lines = {} /\ Unlined(w).page = w.page
<1> DEFINE x == Unlined(w)
<1>1. /\ x.layers = w.layers /\ x.page = w.page /\ x.cur = w.cur /\ x.lines = {}
      /\ x.screen = w.screen \ w.lines /\ x.pages = w.pages /\ x.index = w.index
      /\ x.loads = w.loads /\ x.drawing = w.drawing /\ x \in ViewRec /\ x.stray = w.stray
  BY DEF Typed, ViewRec, Unlined
<1> HIDE DEF x
<1>2. Scoped(x)
  BY <1>1 DEF Typed, Scoped, PageScoped, LayerOf
<1>3. \A l : Stacked(x, l) <=> Stacked(w, l)
  BY <1>1 DEF Stacked
<1>4. Open(x) = {}
  BY <1>1, <1>3 DEF Drawn, Open
<1>5. \A y \in Names : getLayer(x, y) = getLayer(w, y)
  BY <1>1 DEF getLayer
<1>6. Typed(x) /\ Within(w, x)
  BY <1>1, <1>2, <1>4, <1>5 DEF Typed, Within, Held
<1> QED BY <1>1, <1>4, <1>6 DEF x

LEMMA ClearsScreen ==
    ASSUME NEW w, Typed(w), Drawn(w)
    PROVE  Typed(clearScreen(w)) /\ Within(w, clearScreen(w))
<1> DEFINE x == Unlined(w)
           y == clearUndoStack(x)
           z == clearRedoStack(y)
<1>1. z = clearScreen(w)
  BY DEF clearScreen, innerClearScreen, Unlined
<1>2. Typed(x) /\ Within(w, x)
  BY ClearsLines
<1>3. Typed(y) /\ Within(x, y)
  BY <1>2, ClearsUndo
<1>4. Typed(z) /\ Within(y, z)
  BY <1>3, ClearsRedo
<1>5. Within(w, y)
  BY <1>2, <1>3, WithinTransitive
<1>6. Within(w, z)
  BY <1>3, <1>4, <1>5, WithinTransitive
<1> QED BY <1>1, <1>4, <1>6

-----------------------------------------------------------------------------
(* Drawing.                                                                *)

\* A layer is added to the current page, its screen and its lines.
Added(w, by, mode, seg) ==
    LET x == new_layer(w, by, mode, seg)
        l == newest(x)
    IN  [x EXCEPT !.screen = @ \cup {l}, !.lines = @ \cup {l}]

\* What the new layer l changes.
Adds(w, x, l, by, mode, seg) ==
    /\ x.cur = w.cur /\ x.page = w.page /\ x.drawing = w.drawing
    /\ x.pages = w.pages /\ x.index = w.index /\ x.loads = w.loads
    /\ l \notin DOMAIN w.layers /\ LayerOf(x, l, w.cur)
    /\ x.layers[l].by = by /\ x.layers[l].mode = mode /\ x.layers[l].seg = seg
    /\ x.lines = w.lines \cup {l} /\ Open(x) = Open(w) \cup {l}
    /\ \A k \in DOMAIN w.layers : k \in DOMAIN x.layers /\ x.layers[k] = w.layers[k]
    /\ \A y \in Names : getLayer(x, y) = getLayer(w, y) /\ getLayer(x, y) # l
    /\ Held(w) => Held(x)

LEMMA AddsLayer ==
    ASSUME NEW w, Typed(w), NEW by \in Names, NEW mode \in Tool \ {"laser"}, NEW seg \in BOOLEAN
    PROVE  /\ Typed(Added(w, by, mode, seg))
           /\ Adds(w, Added(w, by, mode, seg), newest(new_layer(w, by, mode, seg)), by, mode, seg)
<1> DEFINE x == Added(w, by, mode, seg)
           rec == [page |-> w.cur, by |-> by, mode |-> mode, seg |-> seg]
           l == Len(w.layers) + 1
<1>1. /\ w \in ViewRec /\ w.layers \in Seq(LayerRec) /\ w.cur \in Nat /\ rec \in LayerRec
      /\ w.cur \in DOMAIN w.page
  BY DEF Typed, Scoped, ViewRec, LayerRec
<1>2. /\ Append(w.layers, rec) \in Seq(LayerRec) /\ Len(w.layers) \in Nat /\ l \in Nat \ {0}
      /\ DOMAIN w.layers = 1 .. Len(w.layers) /\ DOMAIN Append(w.layers, rec) = 1 .. l
      /\ Append(w.layers, rec)[l] = rec /\ Len(Append(w.layers, rec)) = l
      /\ \A i \in 1 .. Len(w.layers) : i \in 1 .. l /\ Append(w.layers, rec)[i] = w.layers[i]
  <2> HIDE DEF rec
  <2> QED BY <1>1, AppendProperties
<1>3. newest(new_layer(w, by, mode, seg)) = l
  BY <1>1, <1>2 DEF newest, new_layer, ViewRec
<1>4. /\ x \in ViewRec /\ x.layers = Append(w.layers, rec) /\ x.page = w.page /\ x.cur = w.cur
      /\ x.screen = w.screen \cup {l} /\ x.lines = w.lines \cup {l} /\ x.drawing = w.drawing
      /\ x.pages = w.pages /\ x.index = w.index /\ x.loads = w.loads /\ x.stray = w.stray
  <2>1. x = [w EXCEPT !.layers = Append(w.layers, rec), !.screen = w.screen \cup {l},
                      !.lines = w.lines \cup {l}]
    BY <1>1, <1>3 DEF Added, new_layer, ViewRec
  <2> HIDE DEF x, rec
  <2> QED BY <1>1, <1>2, <2>1 DEF ViewRec
<1>5. /\ l \notin DOMAIN w.layers /\ LayerOf(x, l, w.cur) /\ x.layers[l].page = w.cur
      /\ x.layers[l].by = by /\ x.layers[l].mode = mode /\ x.layers[l].seg = seg
  BY <1>2, <1>4 DEF LayerOf
<1>6. \A k \in DOMAIN w.layers : k \in DOMAIN x.layers /\ x.layers[k] = w.layers[k]
  BY <1>2, <1>4
<1> HIDE DEF x, rec, l
<1>7. \A k, o : LayerOf(w, k, o) => LayerOf(x, k, o)
  BY <1>6 DEF LayerOf
<1>8. Scoped(x)
  <2>1. \A o \in DOMAIN w.page : PageScoped(x, o)
    BY <1>4, <1>7 DEF Typed, Scoped, PageScoped
  <2>2. \A k \in DOMAIN x.layers : k \in DOMAIN w.layers \/ k = l
    BY <1>2, <1>4 DEF l
  <2>3. \A k \in DOMAIN x.layers : x.layers[k].page \in DOMAIN x.page
    BY <1>1, <1>4, <1>5, <1>6, <2>2 DEF Typed, Scoped
  <2>4. l \in DOMAIN x.layers
    BY <1>5 DEF LayerOf
  <2> QED BY <1>4, <1>6, <2>1, <2>3, <2>4 DEF Typed, Scoped
<1>9. Open(x) = Open(w) \cup {l}
  <2>1. ASSUME NEW k \in w.screen PROVE Stacked(x, k) <=> Stacked(w, k)
    BY <1>4, <1>6 DEF Stacked, Typed, Scoped
  <2>2. ~Stacked(x, l)
    <3>1. x.layers[l].page = w.cur /\ x.page = w.page
      BY <1>4, <1>5
    <3>2. \A i \in DOMAIN w.page[w.cur].undo : w.page[w.cur].undo[i] \in DOMAIN w.layers
      BY <1>1 DEF Typed, Scoped, PageScoped, LayerOf
    <3> QED BY <1>5, <3>1, <3>2 DEF Stacked
  <2> QED BY <1>4, <2>1, <2>2 DEF Open
<1>10. ASSUME NEW y \in Names PROVE getLayer(x, y) = getLayer(w, y) /\ getLayer(x, y) # l
  <2>1. getLayer(x, y) = getLayer(w, y)
    BY <1>4 DEF getLayer
  <2>2. getLayer(w, y) = NoLayer \/ getLayer(w, y) \in DOMAIN w.layers
    BY <1>1 DEF getLayer, Names, Typed, Scoped, PageScoped, LayerOf
  <2>3. l # NoLayer
    BY <1>2, ViewAssumption
  <2> QED BY <1>5, <2>1, <2>2, <2>3
<1>11. Typed(x) /\ Adds(w, x, l, by, mode, seg)
  BY <1>4, <1>5, <1>6, <1>8, <1>9, <1>10 DEF Typed, Adds, Held
<1> QED BY <1>3, <1>11 DEF x

\* An empty line leaves the view as good as it was.
LEMMA AddsSound ==
    ASSUME NEW w, NEW x, NEW l, NEW by \in Names, NEW mode, NEW Q, Sound(w, Q), Typed(x),
           Adds(w, x, l, by, mode, FALSE), mode = "text" => by = "local"
    PROVE  Sound(x, Q) /\ (Touched(w, Q) => Touched(x, Q))
<1>1. \A k \in Open(w) : k \in DOMAIN w.layers /\ k # l /\ x.layers[k] = w.layers[k]
  BY DEF Adds, Sound, Typed, Scoped, Open
<1>2. \A k \in w.lines : k \in DOMAIN w.layers /\ x.layers[k] = w.layers[k]
  BY DEF Adds, Sound, Typed, Scoped
<1>3. Drawn(x)
  BY <1>1, <1>2 DEF Sound, Drawn, Adds, LayerOf
<1>4. Kept(x, Q)
  BY <1>1 DEF Sound, Drawn, Kept, Adds
<1>5. Touched(w, Q) => Touched(x, Q)
  BY <1>1 DEF Touched, Adds
<1> QED BY <1>3, <1>4, <1>5 DEF Sound

\* The layer that member `by' draws on the current page is l.
Refers(w, x, by, l) ==
    /\ x \in ViewRec /\ x.layers = w.layers /\ x.cur = w.cur /\ x.drawing = w.drawing
    /\ x.lines = w.lines /\ x.screen = w.screen /\ x.stray = w.stray
    /\ x.pages = w.pages /\ x.index = w.index /\ x.loads = w.loads
    /\ DOMAIN x.page = DOMAIN w.page
    /\ \A o \in DOMAIN w.page : x.page[o].undo = w.page[o].undo /\ x.page[o].redo = w.page[o].redo
    /\ \A o \in DOMAIN w.page : o # w.cur => x.page[o] = w.page[o]
    /\ getLayer(x, by) = l
    /\ \A y \in Names : y # by => getLayer(x, y) = getLayer(w, y)

LEMMA RefersTo ==
    ASSUME NEW w, Typed(w), NEW by \in Names, NEW l, l = NoLayer \/ LayerOf(w, l, w.cur)
    PROVE  Refers(w, refLayer(w, by, l), by, l)
<1> DEFINE x == refLayer(w, by, l)
           p == w.page[w.cur]
<1>0. StackTyped(w)
  BY StackTypes
<1>1. w \in ViewRec /\ w.cur \in DOMAIN w.page /\ p \in PageRec
  BY <1>0 DEF StackTyped
<1>2. l \in Nat \cup {NoLayer} /\ w.page \in Seq(PageRec) /\ "local" \notin User
  <2>1. "local" \notin User
    BY ViewAssumption
  <2>2. w.layers \in Seq(LayerRec) /\ w.page \in Seq(PageRec)
    BY <1>1 DEF ViewRec
  <2>3. l \in DOMAIN w.layers => l \in Nat
    BY <2>2
  <2> QED BY <2>1, <2>2, <2>3 DEF LayerOf
<1> DEFINE q == IF by = "local" THEN [p EXCEPT !.local = l] ELSE [p EXCEPT !.remote[by] = l]
<1>3. q \in PageRec /\ q.undo = p.undo /\ q.redo = p.redo
  BY <1>1, <1>2 DEF PageRec
<1>4. /\ by = "local" => q.local = l /\ q.remote = p.remote
      /\ by # "local" => q.local = p.local /\ q.remote = [p.remote EXCEPT ![by] = l]
      /\ p.remote \in [User -> Nat \cup {NoLayer}]
  BY <1>1, <1>2 DEF PageRec
<1>5. x = [w EXCEPT !.page = [w.page EXCEPT ![w.cur] = q]]
  BY <1>1 DEF refLayer, Names, ViewRec
<1> DEFINE s == [w.page EXCEPT ![w.cur] = q]
<1> HIDE DEF q, x
<1>6. s \in Seq(PageRec) /\ DOMAIN s = DOMAIN w.page /\ s[w.cur] = q
      /\ \A o \in DOMAIN w.page : o # w.cur => s[o] = w.page[o]
  BY <1>1, <1>2, <1>3, ExceptSeq
<1> HIDE DEF s
<1>7. /\ x \in ViewRec /\ x.page = s /\ x.layers = w.layers /\ x.cur = w.cur /\ x.drawing = w.drawing
      /\ x.lines = w.lines /\ x.screen = w.screen /\ x.stray = w.stray
      /\ x.pages = w.pages /\ x.index = w.index /\ x.loads = w.loads
  <2>1. x = [w EXCEPT !.page = s]
    BY <1>5 DEF s
  <2> QED BY <2>1, <1>1, <1>6 DEF ViewRec
<1>8. \A o \in DOMAIN w.page : s[o].undo = w.page[o].undo /\ s[o].redo = w.page[o].redo
  BY <1>3, <1>6
<1>9. getLayer(x, by) = l /\ \A y \in Names : y # by => getLayer(x, y) = getLayer(w, y)
  <2>1. \A y : getLayer(x, y) = IF y = "local" THEN q.local ELSE q.remote[y]
    BY <1>6, <1>7 DEF getLayer
  <2>2. \A y : getLayer(w, y) = IF y = "local" THEN p.local ELSE p.remote[y]
    BY DEF getLayer
  <2> HIDE DEF p
  <2> QED BY <1>2, <1>4, <2>1, <2>2 DEF Names
<1>10. Refers(w, x, by, l)
  BY <1>6, <1>7, <1>8, <1>9 DEF Refers
<1> QED BY <1>10 DEF x

LEMMA RefersTyped ==
    ASSUME NEW w, Typed(w), NEW x, NEW by \in Names, NEW l, l = NoLayer \/ LayerOf(w, l, w.cur),
           Refers(w, x, by, l)
    PROVE  Typed(x) /\ Open(x) = Open(w)
<1>1. \A k, o : LayerOf(w, k, o) <=> LayerOf(x, k, o)
  BY DEF LayerOf, Refers
<1>2. ASSUME NEW o \in DOMAIN x.page PROVE PageScoped(x, o)
  <2>0. PageScoped(w, o) /\ "local" \notin User
    BY ViewAssumption DEF Refers, Typed, Scoped
  <2>1. CASE o # w.cur
    BY <1>1, <2>0, <2>1 DEF PageScoped, Refers
  <2>2. CASE o = w.cur
    <3>1. \A y \in Names : getLayer(w, y) = NoLayer \/ LayerOf(w, getLayer(w, y), w.cur)
      BY <2>0, <2>2 DEF PageScoped, Names, getLayer
    <3>2. \A y \in Names : getLayer(x, y) = NoLayer \/ LayerOf(x, getLayer(x, y), w.cur)
      BY <1>1, <3>1 DEF Refers
    <3>3. getLayer(x, "local") = x.page[o].local /\ \A u \in User : getLayer(x, u) = x.page[o].remote[u]
      BY <2>0, <2>2 DEF getLayer, Refers
    <3>4. x.page[o].local # NoLayer => LayerOf(x, x.page[o].local, o)
      BY <2>2, <3>2, <3>3 DEF Names
    <3>5. \A u \in User : x.page[o].remote[u] # NoLayer => LayerOf(x, x.page[o].remote[u], o)
      BY <2>2, <3>2, <3>3 DEF Names
    <3> QED BY <1>1, <2>0, <3>4, <3>5 DEF PageScoped, Refers
  <2> QED BY <2>1, <2>2
<1>3. Scoped(x)
  BY <1>2 DEF Typed, Scoped, Refers
<1>4. ASSUME NEW k \in w.screen PROVE Stacked(x, k) <=> Stacked(w, k)
  BY DEF Stacked, Refers, Typed, Scoped
<1>5. Open(x) = Open(w)
  BY <1>4 DEF Open, Refers
<1> QED BY <1>3, <1>5 DEF Typed, Refers

\* The line the member drew before, if it is open, is given up.
Gives(w, Q, by, l) ==
    /\ l = NoLayer \/ LayerOf(w, l, w.cur)
    /\ l \in Open(w) => w.layers[l].by = by
    /\ \A k \in Open(w) : w.layers[k].by = by /\ w.layers[k].seg => k = l \/ by \in Q.quit \/ k \in Q.lost

LEMMA RefersSound ==
    ASSUME NEW w, NEW Q, NEW x, NEW by \in Names, NEW l,
           Gives(w, Q, by, l), Refers(w, x, by, l), Sound(w, Q)
    PROVE  Sound(x, Q) /\ (Touched(w, Q) => Touched(x, Q))
<1> USE DEF Gives
<1>0. Typed(w)
  BY DEF Sound
<1>1. Typed(x) /\ Open(x) = Open(w)
  BY <1>0, RefersTyped
<1>2. Drawn(x)
  BY <1>1 DEF Sound, Drawn, Refers, Held
<1>3. Kept(x, Q)
  <2> SUFFICES ASSUME NEW k \in Open(x), x.layers[k].seg
               PROVE  getLayer(x, x.layers[k].by) = k \/ x.layers[k].by \in Q.quit \/ k \in Q.lost
    BY DEF Kept
  <2>1. k \in Open(w) /\ x.layers[k] = w.layers[k] /\ w.layers[k].by \in Names
    BY <1>1 DEF Refers, Sound, Drawn
  <2>2. CASE w.layers[k].by = by
    BY <2>1, <2>2 DEF Refers
  <2>3. CASE w.layers[k].by # by
    BY <2>1, <2>3 DEF Refers, Sound, Kept
  <2> QED BY <2>2, <2>3
<1>4. Touched(w, Q) => Touched(x, Q)
  BY <1>1 DEF Touched, Refers
<1> QED BY <1>1, <1>2, <1>3, <1>4 DEF Sound

-----------------------------------------------------------------------------
(* The operations of the view, by what they leave of it.                   *)

\* Member y draws a line.
Line(w, y) == getLayer(w, y) \in Open(w)

\* Nothing that is seen changed.
Shown(w, x) ==
    /\ x.layers = w.layers /\ x.page = w.page /\ x.cur = w.cur
    /\ x.screen = w.screen /\ x.lines = w.lines /\ x.stray = w.stray

LEMMA ShownSound ==
    ASSUME NEW w, NEW x, NEW Q, Shown(w, x), x \in ViewRec, Sound(w, Q),
           \A i \in DOMAIN x.pages : x.pages[i] \in DOMAIN w.page,
           \A i \in DOMAIN x.loads : x.loads[i] \in DOMAIN w.page
    PROVE  /\ Sound(x, Q) /\ Open(x) = Open(w)
           /\ \A y \in Names : getLayer(x, y) = getLayer(w, y) /\ (Line(x, y) <=> Line(w, y))
<1>1. \A o, k : (PageScoped(x, o) <=> PageScoped(w, o)) /\ (Stacked(x, k) <=> Stacked(w, k))
  BY DEF Shown, PageScoped, LayerOf, Stacked
<1>2. Typed(x)
  BY <1>1 DEF Shown, Sound, Typed, Scoped
<1>3. Open(x) = Open(w) /\ \A y \in Names : getLayer(x, y) = getLayer(w, y)
  BY <1>1 DEF Shown, Open, getLayer
<1>4. Drawn(x) /\ Kept(x, Q)
  BY <1>3 DEF Shown, Sound, Drawn, Kept, Held
<1> QED BY <1>2, <1>3, <1>4 DEF Sound, Line

\* From w to x only member `by' may have begun a line.
Draws(w, x, Q, by) ==
    /\ Sound(x, Q)
    /\ x.cur = w.cur /\ x.drawing = w.drawing /\ DOMAIN x.page = DOMAIN w.page
    /\ x.pages = w.pages /\ x.index = w.index /\ x.loads = w.loads
    /\ \A y \in Names : y # by /\ Line(x, y) => Line(w, y)

LEMMA BeginsLine ==
    ASSUME NEW w, NEW Q, Sound(w, Q), NEW mode \in Tool \ {"laser"}, NEW by \in Names,
           mode = "text" => by = "local",
           \A k \in Open(w) : w.layers[k].by = by /\ w.layers[k].seg => by \in Q.quit \/ k \in Q.lost
    PROVE  /\ Draws(w, onLineBegin(w, mode, by), Q, by)
           /\ Touched(w, Q) => Touched(onLineBegin(w, mode, by), Q)
<1> DEFINE x == Added(w, by, mode, FALSE)
           l == newest(new_layer(w, by, mode, FALSE))
           y == clearRedoStack(x)
           z == refLayer(y, by, l)
<1>0. Typed(w)
  BY DEF Sound
<1>1. Typed(x) /\ Adds(w, x, l, by, mode, FALSE)
  BY <1>0, AddsLayer
<1>2. z = onLineBegin(w, mode, by)
  BY DEF onLineBegin, Added
<1> HIDE DEF l, x
<1>3. Sound(x, Q) /\ (Touched(w, Q) => Touched(x, Q))
  BY <1>1, AddsSound
<1>4. Typed(y) /\ Within(x, y) /\ DOMAIN y.page = DOMAIN x.page
  BY <1>1, ClearsRedo DEF Restacked
<1> HIDE DEF y
<1>5. Sound(y, Q) /\ (Touched(x, Q) => Touched(y, Q))
  BY <1>3, <1>4, WithinGood
<1>6. LayerOf(y, l, y.cur) /\ y.layers[l].by = by
  BY <1>1, <1>4 DEF Within, Adds, LayerOf
<1>7. Refers(y, z, by, l)
  BY <1>4, <1>6, RefersTo
<1>8. ASSUME NEW k \in Open(y), y.layers[k].by = by, y.layers[k].seg
      PROVE  k = l \/ by \in Q.quit \/ k \in Q.lost
  <2>1. k \in Open(x)
    BY <1>4 DEF Within
  <2>2. k = l \/ (k \in Open(w) /\ k \in DOMAIN w.layers)
    BY <1>0, <1>1, <2>1 DEF Adds, Open, Typed, Scoped
  <2>3. CASE k \in Open(w) /\ k \in DOMAIN w.layers
    BY <1>1, <1>4, <1>8, <2>3 DEF Adds, Within
  <2> QED BY <2>2, <2>3
<1> HIDE DEF z
<1>9. Sound(z, Q) /\ (Touched(y, Q) => Touched(z, Q))
  <2>1. Sound(y, Q)
    BY <1>3, <1>5
  <2>3. l = NoLayer \/ LayerOf(y, l, y.cur)
    BY <1>6
  <2>4. l \in Open(y) => y.layers[l].by = by
    BY <1>6
  <2>2. \A k \in Open(y) : y.layers[k].by = by /\ y.layers[k].seg => k = l \/ by \in Q.quit \/ k \in Q.lost
    BY <1>8
  <2>5. Gives(y, Q, by, l)
    BY <2>2, <2>3, <2>4 DEF Gives
  <2> QED BY <1>7, <2>1, <2>5, RefersSound
<1>10. Open(z) = Open(y)
  BY <1>4, <1>6, <1>7, RefersTyped
<1>11. ASSUME NEW u \in Names, u # by, Line(z, u) PROVE Line(w, u)
  <2>1. getLayer(z, u) = getLayer(w, u) /\ getLayer(w, u) # l
    BY <1>1, <1>4, <1>7, <1>11 DEF Refers, Within, Adds
  <2>2. getLayer(w, u) \in Open(x)
    BY <1>4, <1>10, <1>11, <2>1 DEF Line, Within
  <2> QED BY <1>1, <2>1, <2>2 DEF Adds, Line
<1>12. Draws(w, z, Q, by)
  BY <1>1, <1>4, <1>7, <1>9, <1>11 DEF Draws, Within, Refers, Adds
<1> QED BY <1>2, <1>3, <1>5, <1>9, <1>12

\* The layer a member draws shows something.
LEMMA MovesLine ==
    ASSUME NEW w, NEW Q, Sound(w, Q), NEW mode, NEW by \in Names
    PROVE  /\ Draws(w, onLineMove(w, mode, by), Q, "none")
           /\ by # "local" /\ Touched(w, Q) => Touched(onLineMove(w, mode, by), Q)
<1> DEFINE x == onLineMove(w, mode, by)
           l == getLayer(w, by)
<1>0. /\ w \in ViewRec /\ Scoped(w) /\ w.layers \in Seq(LayerRec)
      /\ \A i \in DOMAIN w.pages : w.pages[i] \in DOMAIN w.page
      /\ \A i \in DOMAIN w.loads : w.loads[i] \in DOMAIN w.page
  BY DEF Sound, Typed, Scoped, ViewRec
<1>1. CASE mode = "laser"
  <2>1. x = [w EXCEPT !.laser = TRUE]
    BY <1>1 DEF onLineMove
  <2>2. x \in ViewRec /\ Shown(w, x) /\ x.pages = w.pages /\ x.loads = w.loads /\ x.index = w.index
        /\ x.drawing = w.drawing
    BY <1>0, <2>1 DEF ViewRec, Shown
  <2> HIDE DEF x
  <2>3. Sound(x, Q) /\ Open(x) = Open(w) /\ \A y \in Names : Line(x, y) <=> Line(w, y)
    BY <1>0, <2>2, ShownSound
  <2>4. Touched(w, Q) => Touched(x, Q)
    BY <2>2, <2>3 DEF Touched, Shown
  <2> QED BY <2>2, <2>3, <2>4 DEF Draws, Shown, x
<1>2. CASE mode # "laser" /\ l = NoLayer
  BY <1>2 DEF onLineMove, Draws
<1>3. CASE mode # "laser" /\ l # NoLayer
  <2>1. LayerOf(w, l, w.cur)
    BY <1>0, <1>3 DEF Scoped, PageScoped, getLayer, Names
  <2>2. x = [w EXCEPT !.layers = [w.layers EXCEPT ![l] = [w.layers[l] EXCEPT !.seg = TRUE]]]
    BY <1>0, <1>3 DEF onLineMove, ViewRec
  <2> DEFINE s == [w.layers EXCEPT ![l] = [w.layers[l] EXCEPT !.seg = TRUE]]
  <2>3. [w.layers[l] EXCEPT !.seg = TRUE] \in LayerRec /\ l \in DOMAIN w.layers
    <3>1. l \in DOMAIN w.layers /\ w.layers[l] \in LayerRec
      BY <1>0, <2>1, ElementOfSeq DEF LayerOf
    <3> QED BY <3>1 DEF LayerRec
  <2>4. s \in Seq(LayerRec) /\ DOMAIN s = DOMAIN w.layers
    BY <1>0, <2>3, ExceptSeq
  <2>5. \A k \in DOMAIN w.layers : /\ s[k].page = w.layers[k].page /\ s[k].by = w.layers[k].by
                                   /\ s[k].mode = w.layers[k].mode
                                   /\ k # l => s[k].seg = w.layers[k].seg
    <3>1. \A k \in DOMAIN w.layers : w.layers[k] \in LayerRec
      BY <1>0, ElementOfSeq
    <3> QED BY <2>3, <3>1 DEF LayerRec
  <2> HIDE DEF s
  <2>6. /\ x \in ViewRec /\ x.layers = s /\ x.page = w.page /\ x.cur = w.cur /\ x.drawing = w.drawing
        /\ x.lines = w.lines /\ x.screen = w.screen /\ x.stray = w.stray
        /\ x.pages = w.pages /\ x.index = w.index /\ x.loads = w.loads
    <3>1. x = [w EXCEPT !.layers = s]
      BY <2>2 DEF s
    <3> QED BY <1>0, <2>4, <3>1 DEF ViewRec
  <2> HIDE DEF x
  <2>7. \A k, o : LayerOf(x, k, o) <=> LayerOf(w, k, o)
    BY <2>4, <2>5, <2>6 DEF LayerOf
  <2>8. Typed(x)
    <3>1. \A o : PageScoped(x, o) <=> PageScoped(w, o)
      BY <2>6, <2>7 DEF PageScoped
    <3> QED BY <1>0, <2>4, <2>5, <2>6, <3>1 DEF Typed, Scoped
  <2>9. Open(x) = Open(w) /\ \A k \in Open(w) : k \in DOMAIN w.layers
    <3>1. \A k \in w.screen : k \in DOMAIN w.layers /\ (Stacked(x, k) <=> Stacked(w, k))
      BY <1>0, <2>5, <2>6 DEF Stacked, Scoped
    <3> QED BY <2>6, <3>1 DEF Open
  <2>10. \A y \in Names : getLayer(x, y) = getLayer(w, y)
    BY <2>6 DEF getLayer
  <2>11. Drawn(x)
    <3>1. \A k \in w.lines : k \in DOMAIN w.layers
      BY <1>0 DEF Scoped
    <3> QED BY <2>5, <2>6, <2>9, <2>10, <3>1 DEF Sound, Drawn, Held
  <2>12. Kept(x, Q)
    <3>1. ASSUME NEW k \in Open(w), x.layers[k].seg
          PROVE  getLayer(x, x.layers[k].by) = k \/ x.layers[k].by \in Q.quit \/ k \in Q.lost
      <4>1. k \in DOMAIN w.layers /\ x.layers[k].by = w.layers[k].by /\ w.layers[k].by \in Names
        BY <2>5, <2>6, <2>9 DEF Sound, Drawn
      <4>2. CASE k = l
        BY <2>10, <4>1, <4>2 DEF Sound, Drawn
      <4>3. CASE k # l
        BY <2>5, <2>6, <2>10, <3>1, <4>1, <4>3 DEF Sound, Kept
      <4> QED BY <4>2, <4>3
    <3> QED BY <2>9, <3>1 DEF Kept
  <2>13. ASSUME by # "local", Touched(w, Q) PROVE Touched(x, Q)
    <3> SUFFICES ASSUME NEW k \in Open(w), x.layers[k].by = "local", x.layers[k].seg
                 PROVE  (Q.finger /\ w.drawing) \/ k \in Q.lost
      BY <2>6, <2>9 DEF Touched
    <3>1. k # l
      BY <2>5, <2>6, <2>9, <2>13 DEF Sound, Drawn
    <3> QED BY <2>5, <2>6, <2>9, <2>13, <3>1 DEF Touched
  <2> QED BY <2>6, <2>8, <2>9, <2>10, <2>11, <2>12, <2>13 DEF Draws, Sound, Line, x
<1> QED BY <1>1, <1>2, <1>3

\* The line a member draws can be undone, and it draws none.
LEMMA EndsLine ==
    ASSUME NEW w, NEW Q, Sound(w, Q), NEW by \in Names
    PROVE  /\ Draws(w, onLineEnd(w, by), Q, "none") /\ ~Line(onLineEnd(w, by), by)
           /\ Touched(w, Q) => Touched(onLineEnd(w, by), Q)
           /\ by \notin Q.quit =>
                  \A k \in Open(onLineEnd(w, by)) :
                      onLineEnd(w, by).layers[k].by = by /\ onLineEnd(w, by).layers[k].seg => k \in Q.lost
<1> DEFINE l == getLayer(w, by)
           x == IF l = NoLayer THEN w ELSE pushUndo(w, l)
           y == [x EXCEPT !.laser = FALSE]
           z == unrefLayer(y, by)
<1>0. z = onLineEnd(w, by)
  BY DEF onLineEnd
<1>1. w.cur \in DOMAIN w.page /\ Typed(w) /\ Within(w, w) /\ (l # NoLayer => LayerOf(w, l, w.cur))
      /\ NoLayer \notin Open(w)
  <2>1. \A k \in Open(w) : k \in Nat \ {0}
    BY DEF Sound, Typed, Scoped, Open, ViewRec
  <2> QED BY <2>1, ViewAssumption DEF Sound, Typed, Scoped, PageScoped, getLayer, Names, Within
<1>2. Typed(x) /\ Within(w, x) /\ l \notin Open(x) /\ DOMAIN x.page = DOMAIN w.page
  BY <1>1, PushesUndo DEF Restacked
<1> HIDE DEF x
<1>3. Sound(x, Q) /\ (Touched(w, Q) => Touched(x, Q))
  BY <1>2, WithinGood
<1>4. Shown(x, y) /\ y \in ViewRec /\ y.pages = x.pages /\ y.loads = x.loads /\ y.index = x.index
      /\ y.drawing = x.drawing
  BY <1>2 DEF Typed, ViewRec, Shown
<1> HIDE DEF y
<1>5. Sound(y, Q) /\ Open(y) = Open(x) /\ \A u \in Names : getLayer(y, u) = getLayer(x, u)
  BY <1>2, <1>3, <1>4, ShownSound DEF Typed, Scoped
<1>6. Touched(x, Q) => Touched(y, Q)
  BY <1>4, <1>5 DEF Touched, Shown
<1>7. Typed(y) /\ l \notin Open(y) /\ NoLayer \notin Open(y) /\ getLayer(y, by) = l
  BY <1>1, <1>2, <1>5 DEF Sound, Within
<1>8. Refers(y, z, by, NoLayer)
  BY <1>7, RefersTo DEF unrefLayer
<1> HIDE DEF z, l
<1>9. \A k \in Open(y) :
          y.layers[k].by = by /\ y.layers[k].seg => k = NoLayer \/ by \in Q.quit \/ k \in Q.lost
  BY <1>5, <1>7 DEF Sound, Kept
<1>10. Sound(z, Q) /\ (Touched(y, Q) => Touched(z, Q))
  <2>1. Gives(y, Q, by, NoLayer)
    BY <1>7, <1>9 DEF Gives
  <2> QED BY <1>5, <1>8, <2>1, RefersSound
<1>11. Open(z) = Open(y)
  BY <1>7, <1>8, RefersTyped
<1>12. \A u \in Names : Line(z, u) => Line(w, u)
  BY <1>2, <1>5, <1>7, <1>8, <1>11 DEF Line, Refers, Within
<1>13. ~Line(z, by)
  BY <1>7, <1>8, <1>11 DEF Line, Refers
<1>14. \A k \in Open(z) : z.layers[k].by = by /\ z.layers[k].seg => by \in Q.quit \/ k \in Q.lost
  BY <1>7, <1>8, <1>9, <1>11 DEF Refers
<1>15. Draws(w, z, Q, "none")
  BY <1>2, <1>4, <1>8, <1>10, <1>12 DEF Draws, Within, Shown, Refers
<1> QED BY <1>0, <1>3, <1>6, <1>10, <1>13, <1>14, <1>15

\* A text is on the undo stack at once.
LEMMA DrawsText ==
    ASSUME NEW w, NEW Q, Sound(w, Q), NEW by \in Names
    PROVE  Draws(w, drawText(w, by), Q, "none") /\ (Touched(w, Q) => Touched(drawText(w, by), Q))
<1> DEFINE x == Added(w, by, "text", TRUE)
           l == newest(new_layer(w, by, "text", TRUE))
           y == clearRedoStack(x)
           z == pushUndo(y, l)
<1>0. Typed(w) /\ "text" \in Tool \ {"laser"}
  BY DEF Sound, Tool
<1>1. Typed(x) /\ Adds(w, x, l, by, "text", TRUE)
  BY <1>0, AddsLayer
<1>2. z = drawText(w, by)
  BY DEF drawText, Added
<1> HIDE DEF l, x
<1>3. Typed(y) /\ Within(x, y) /\ y.lines = x.lines /\ DOMAIN y.page = DOMAIN x.page
  BY <1>1, ClearsRedo DEF Restacked
<1> HIDE DEF y
<1>4. LayerOf(y, l, y.cur)
  BY <1>1, <1>3 DEF Within, Adds, LayerOf
<1>5. Typed(z) /\ Within(y, z) /\ l \notin Open(z) /\ z.lines = y.lines /\ DOMAIN z.page = DOMAIN y.page
  BY <1>3, <1>4, PushesUndo DEF Restacked
<1> HIDE DEF z
<1>6. Within(x, z) /\ z.lines = w.lines \cup {l}
  BY <1>1, <1>3, <1>5, WithinTransitive DEF Adds
<1>7. \A k \in z.lines : k \in w.lines \/ z.layers[k].page = w.cur
  BY <1>1, <1>6 DEF Within, Adds, LayerOf
<1>8. Within(w, z)
  <2>1. Open(z) \subseteq Open(w)
    BY <1>1, <1>5, <1>6 DEF Within, Adds
  <2>2. \A k \in DOMAIN w.layers : k \in DOMAIN z.layers /\ z.layers[k] = w.layers[k]
    BY <1>1, <1>6 DEF Within, Adds
  <2> QED BY <1>1, <1>6, <1>7, <2>1, <2>2 DEF Within, Adds
<1>9. Sound(z, Q) /\ (Touched(w, Q) => Touched(z, Q))
  BY <1>5, <1>8, WithinGood
<1>10. Draws(w, z, Q, "none")
  BY <1>1, <1>3, <1>5, <1>8, <1>9 DEF Draws, Within, Line, Adds
<1> QED BY <1>2, <1>9, <1>10

\* The rest of the drawing leaves no more open than there was.
LEMMA WithinDraws ==
    ASSUME NEW w, NEW Q, Sound(w, Q), NEW x, Typed(x), Within(w, x)
    PROVE  Draws(w, x, Q, "none") /\ (Touched(w, Q) => Touched(x, Q))
<1>1. Sound(x, Q) /\ (Touched(w, Q) => Touched(x, Q))
  BY WithinGood
<1> QED BY <1>1 DEF Draws, Within, Line

LEMMA SettingsDraw ==
    ASSUME NEW w, NEW Q, Sound(w, Q), NEW x \in ViewRec, Shown(w, x), x.pages = w.pages,
           x.loads = w.loads, x.index = w.index, x.drawing = w.drawing
    PROVE  Draws(w, x, Q, "none") /\ (Touched(w, Q) => Touched(x, Q))
<1>1. Sound(x, Q) /\ Open(x) = Open(w) /\ \A y \in Names : Line(x, y) => Line(w, y)
  BY ShownSound DEF Sound, Typed, Scoped
<1>2. Touched(w, Q) => Touched(x, Q)
  BY <1>1 DEF Touched, Shown
<1> QED BY <1>1, <1>2 DEF Draws, Shown

\* Undo, redo, clear and the settings.
LEMMA ChangesDraw ==
    ASSUME NEW w, NEW Q, Sound(w, Q), NEW mode \in Tool,
           NEW x \in {undo(w), redo(w), clearScreen(w), setDrawingMode(w, mode), lockDrawing(w), unlockDrawing(w)}
    PROVE  Draws(w, x, Q, "none") /\ (Touched(w, Q) => Touched(x, Q))
<1>0. Typed(w) /\ Drawn(w) /\ w \in ViewRec
  BY DEF Sound, Typed
<1>1. CASE x = undo(w)
  BY <1>0, <1>1, Undoes, WithinDraws
<1>2. CASE x = redo(w)
  BY <1>0, <1>2, Redoes, WithinDraws
<1>3. CASE x = clearScreen(w)
  BY <1>0, <1>3, ClearsScreen, WithinDraws
<1>4. CASE x \in {setDrawingMode(w, mode), lockDrawing(w), unlockDrawing(w)}
  <2>1. /\ x \in ViewRec /\ Shown(w, x) /\ x.pages = w.pages
        /\ x.loads = w.loads /\ x.index = w.index /\ x.drawing = w.drawing
    BY <1>0, <1>4 DEF ViewRec, Shown, setDrawingMode, lockDrawing, unlockDrawing
  <2> QED BY <2>1, SettingsDraw
<1> QED BY <1>1, <1>2, <1>3, <1>4

-----------------------------------------------------------------------------
(* Pages.                                                                  *)

\* A loaded item is a new layer on a stack of its page.
LEMMA LoadsLine ==
    ASSUME NEW w, Typed(w), NEW o \in DOMAIN w.page, NEW mode \in Tool, NEW stack
    PROVE  Typed(loadLineToStack(w, o, mode, stack)) /\ Within(w, loadLineToStack(w, o, mode, stack))
<1> DEFINE z == loadLineToStack(w, o, mode, stack)
           p == w.page[o]
           rec == [page |-> o, by |-> p.src, mode |-> mode, seg |-> TRUE]
           l == Len(w.layers) + 1
           q == IF stack = "undo" THEN [p EXCEPT !.undo = Append(p.undo, l)]
                ELSE [p EXCEPT !.redo = Append(p.redo, l)]
           s == [w.page EXCEPT ![o] = q]
           ls == Append(w.layers, rec)
<1>1. CASE mode = "laser"
  BY <1>1 DEF loadLineToStack, Within
<1>2. CASE mode # "laser"
  <2>1. w \in ViewRec /\ w.page \in Seq(PageRec) /\ w.layers \in Seq(LayerRec) /\ Scoped(w)
    BY DEF Typed, ViewRec
  <2>2. p \in PageRec /\ o \in Nat
    BY <2>1, ElementOfSeq
  <2>3. rec \in LayerRec
    BY <1>2, <2>2 DEF LayerRec, PageRec
  <2>4. /\ ls \in Seq(LayerRec) /\ Len(w.layers) \in Nat /\ l \in Nat \ {0}
        /\ DOMAIN w.layers = 1 .. Len(w.layers) /\ DOMAIN ls = 1 .. l
        /\ ls[l] = rec /\ Len(ls) = l
        /\ \A i \in 1 .. Len(w.layers) : i \in 1 .. l /\ ls[i] = w.layers[i]
    <3> HIDE DEF rec
    <3> QED BY <2>1, <2>3, AppendProperties
  <2> DEFINE y == [w EXCEPT !.layers = ls]
  <2>5. z = [w EXCEPT !.layers = ls, !.page = s]
    <3>1. newest(y) = l /\ y.page = w.page
      BY <2>1, <2>4 DEF newest, ViewRec
    <3>2. z = IF stack = "undo" THEN [y EXCEPT !.page[o].undo = Append(@, newest(y))]
              ELSE [y EXCEPT !.page[o].redo = Append(@, newest(y))]
      BY <1>2 DEF loadLineToStack
    <3>3. z = IF stack = "undo" THEN [y EXCEPT !.page = [w.page EXCEPT ![o] = [p EXCEPT !.undo = Append(p.undo, l)]]]
              ELSE [y EXCEPT !.page = [w.page EXCEPT ![o] = [p EXCEPT !.redo = Append(p.redo, l)]]]
      <4> HIDE DEF y, l, z
      <4> QED BY <3>1, <3>2
    <3>4. z = [y EXCEPT !.page = s]
      <4> HIDE DEF y, l, z
      <4> QED BY <3>3
    <3> HIDE DEF s, ls, z
    <3> QED BY <2>1, <3>4 DEF ViewRec
  <2> HIDE DEF z
  <2>6. /\ Append(p.undo, l) \in Seq(Nat) /\ DOMAIN p.undo = 1 .. Len(p.undo) /\ Len(p.undo) \in Nat
        /\ DOMAIN Append(p.undo, l) = 1 .. Len(p.undo) + 1 /\ Append(p.undo, l)[Len(p.undo) + 1] = l
        /\ \A i \in 1 .. Len(p.undo) : i \in DOMAIN Append(p.undo, l) /\ Append(p.undo, l)[i] = p.undo[i]
    <3>1. p.undo \in Seq(Nat)
      BY <2>2 DEF PageRec
    <3> HIDE DEF p, l
    <3> QED BY <2>4, <3>1, AppendedAt
  <2>7. /\ Append(p.redo, l) \in Seq(Nat) /\ DOMAIN p.redo = 1 .. Len(p.redo) /\ Len(p.redo) \in Nat
        /\ DOMAIN Append(p.redo, l) = 1 .. Len(p.redo) + 1 /\ Append(p.redo, l)[Len(p.redo) + 1] = l
        /\ \A i \in 1 .. Len(p.redo) : i \in DOMAIN Append(p.redo, l) /\ Append(p.redo, l)[i] = p.redo[i]
    <3>1. p.redo \in Seq(Nat)
      BY <2>2 DEF PageRec
    <3> HIDE DEF p, l
    <3> QED BY <2>4, <3>1, AppendedAt
  <2>8. /\ q \in PageRec /\ q.local = p.local /\ q.remote = p.remote
        /\ (q.undo = p.undo \/ q.undo = Append(p.undo, l))
        /\ (q.redo = p.redo \/ q.redo = Append(p.redo, l))
    <3> HIDE DEF p, l
    <3> QED BY <2>2, <2>6, <2>7 DEF PageRec
  <2> HIDE DEF q
  <2>9. s \in Seq(PageRec) /\ DOMAIN s = DOMAIN w.page /\ s[o] = q
        /\ \A k \in DOMAIN w.page : k # o => s[k] = w.page[k]
    BY <2>1, <2>8, ExceptSeq
  <2> HIDE DEF s, p, ls
  <2>10. /\ z \in ViewRec /\ z.layers = ls /\ z.page = s /\ z.cur = w.cur /\ z.drawing = w.drawing
         /\ z.pages = w.pages /\ z.index = w.index /\ z.loads = w.loads
         /\ z.screen = w.screen /\ z.lines = w.lines /\ z.stray = w.stray
    BY <2>1, <2>4, <2>5, <2>9 DEF ViewRec
  <2> HIDE DEF l, rec
  <2>11. \A k \in DOMAIN w.layers : k \in DOMAIN z.layers /\ z.layers[k] = w.layers[k]
    BY <2>4, <2>10
  <2>12. LayerOf(z, l, o) /\ \A k, m : LayerOf(w, k, m) => LayerOf(z, k, m)
    <3>1. l \in 1 .. l /\ rec.page = o
      BY <2>4 DEF rec
    <3> QED BY <2>4, <2>10, <2>11, <3>1 DEF LayerOf
  <2>13. ASSUME NEW m \in DOMAIN w.page PROVE PageScoped(z, m)
    <3>1. PageScoped(w, m)
      BY <2>1 DEF Scoped
    <3>2. CASE m # o
      BY <2>9, <2>10, <2>12, <3>1, <3>2 DEF PageScoped
    <3>3. CASE m = o
      <4>1. \A i \in DOMAIN q.undo : LayerOf(z, q.undo[i], o)
        <5>1. \A i \in 1 .. Len(p.undo) + 1 : i \in 1 .. Len(p.undo) \/ i = Len(p.undo) + 1
          BY <2>6
        <5>2. \A i \in DOMAIN p.undo : LayerOf(z, p.undo[i], o)
          BY <2>12, <3>1, <3>3 DEF PageScoped, p
        <5> QED BY <2>6, <2>8, <2>12, <5>1, <5>2
      <4>2. \A i \in DOMAIN q.redo : LayerOf(z, q.redo[i], o)
        <5>1. \A i \in 1 .. Len(p.redo) + 1 : i \in 1 .. Len(p.redo) \/ i = Len(p.redo) + 1
          BY <2>7
        <5>2. \A i \in DOMAIN p.redo : LayerOf(z, p.redo[i], o)
          BY <2>12, <3>1, <3>3 DEF PageScoped, p
        <5> QED BY <2>7, <2>8, <2>12, <5>1, <5>2
      <4>3. /\ p.local # NoLayer => LayerOf(z, p.local, o)
            /\ \A u \in User : p.remote[u] # NoLayer => LayerOf(z, p.remote[u], o)
        BY <2>12, <3>1, <3>3 DEF PageScoped, p
      <4> QED BY <2>8, <2>9, <2>10, <3>3, <4>1, <4>2, <4>3 DEF PageScoped
    <3> QED BY <3>2, <3>3
  <2>14. Typed(z)
    <3>1. \A k \in DOMAIN z.layers : k \in DOMAIN w.layers \/ k = l
      BY <2>4, <2>10 DEF l
    <3>2. \A k \in DOMAIN z.layers : z.layers[k].page \in DOMAIN z.page
      BY <2>1, <2>9, <2>10, <2>11, <2>12, <3>1 DEF LayerOf, Scoped
    <3> QED BY <2>1, <2>9, <2>10, <2>11, <2>13, <3>2 DEF Typed, Scoped
  <2>15. ASSUME NEW k \in w.screen, Stacked(w, k) PROVE Stacked(z, k)
    <3>1. z.layers[k].page = w.layers[k].page /\ w.layers[k].page \in DOMAIN w.page
      BY <2>1, <2>11 DEF Scoped
    <3>2. CASE w.layers[k].page # o
      BY <2>9, <2>10, <2>15, <3>1, <3>2 DEF Stacked
    <3>3. CASE w.layers[k].page = o
      <4>1. PICK i \in DOMAIN p.undo : p.undo[i] = k
        BY <2>15, <3>3 DEF Stacked, p
      <4>2. i \in DOMAIN q.undo /\ q.undo[i] = k
        BY <2>6, <2>8, <4>1
      <4> QED BY <2>9, <2>10, <3>1, <3>3, <4>2 DEF Stacked
    <3> QED BY <3>2, <3>3
  <2>16. Open(z) \subseteq Open(w) /\ Open(z) \cap w.lines \subseteq z.lines
    BY <2>10, <2>15 DEF Open
  <2>17. \A nm \in Names : getLayer(z, nm) = getLayer(w, nm)
    <3>1. s[w.cur].local = w.page[w.cur].local /\ s[w.cur].remote = w.page[w.cur].remote
      BY <2>1, <2>8, <2>9 DEF Scoped, p
    <3> QED BY <2>10, <3>1 DEF getLayer
  <2>18. Within(w, z)
    BY <2>9, <2>10, <2>11, <2>16, <2>17 DEF Within, Held
  <2> QED BY <2>14, <2>18 DEF z
<1> QED BY <1>1, <1>2

\* The states that w can be loaded into.
LoadedFrom(w) == {x \in ViewRec : Typed(x) /\ Within(w, x)}

LEMMA LoadsItem ==
    ASSUME NEW w, NEW o \in DOMAIN w.page, NEW x \in LoadedFrom(w), NEW item \in Tool, NEW stack
    PROVE  loadItemToStack(x, o, item, stack) \in LoadedFrom(w)
<1>1. loadItemToStack(x, o, item, stack) = loadLineToStack(x, o, item, stack)
  BY DEF loadItemToStack, loadTextToStack
<1>2. Typed(x) /\ o \in DOMAIN x.page /\ Within(w, x)
  BY DEF LoadedFrom, Within
<1> DEFINE y == loadLineToStack(x, o, item, stack)
<1>3. Typed(y) /\ Within(x, y)
  BY <1>2, LoadsLine
<1> HIDE DEF y
<1>4. Within(w, y) /\ y \in ViewRec
  BY <1>2, <1>3, WithinTransitive DEF Typed
<1> QED BY <1>1, <1>3, <1>4 DEF LoadedFrom, y

\* The items of a page are loaded one after the other.
LEMMA LoadsStack ==
    ASSUME NEW w, NEW o \in DOMAIN w.page, NEW x \in LoadedFrom(w), NEW items \in Seq(Tool), NEW stack
    PROVE  loadStack(x, o, items, stack) \in LoadedFrom(w)
<1> DEFINE V == LoadedFrom(w)
           n == Len(items)
           F(g) == [t \in SUBSET (DOMAIN items) |-> IF t = {} THEN x
                        ELSE loadItemToStack(g[t \ {Max(t)}], o, items[Max(t)], stack)]
           fold == CHOOSE g : g = F(g)
           step == [p \in (1 .. n) \X V |-> loadItemToStack(p[2], o, items[p[1]], stack)]
<1>0. n \in Nat /\ DOMAIN items = 1 .. n /\ (\A i \in 1 .. n : items[i] \in Tool) /\ x \in V
  BY LenProperties, ElementOfSeq
<1>1. loadStack(x, o, items, stack) = fold[DOMAIN items]
  BY DEF loadStack, FoldLeft, MapThenFoldSet
<1>2. step \in [(1 .. n) \X V -> V]
  <2>1. \A i \in 1 .. n, y \in V : loadItemToStack(y, o, items[i], stack) \in V
    BY <1>0, LoadsItem
  <2> HIDE DEF V, n
  <2> QED BY <2>1
<1> HIDE DEF V
<1>3. \E g : g = F(g)
  <2>1. PICK g \in [SUBSET (1 .. n) -> V] : Recursive(n, x, step, g)
    <3> HIDE DEF n, step
    <3> QED BY <1>0, <1>2, RecursionExists
  <2>2. ASSUME NEW t \in SUBSET (1 .. n), t # {}
        PROVE  step[<<Max(t), g[t \ {Max(t)}]>>] = loadItemToStack(g[t \ {Max(t)}], o, items[Max(t)], stack)
    <3>1. Max(t) \in 1 .. n
      BY <1>0, <2>2, MaxUpTo
    <3>2. g[t \ {Max(t)}] \in V
      OBVIOUS
    <3> QED BY <3>1, <3>2
  <2>3. g = F(g)
    <3> HIDE DEF n, step
    <3> QED BY <1>0, <2>1, <2>2 DEF Recursive
  <2> QED BY <2>3
<1>4. PICK f : f = F(f) /\ loadStack(x, o, items, stack) = f[DOMAIN items]
  <2> HIDE DEF F
  <2> QED BY <1>1, <1>3
<1>5. f[{}] = x /\ \A t \in SUBSET (1 .. n) : t # {} =>
         f[t] = loadItemToStack(f[t \ {Max(t)}], o, items[Max(t)], stack)
  BY <1>0, <1>4
<1>6. ASSUME NEW t \in SUBSET (1 .. n), t # {}, f[t \ {Max(t)}] \in V
      PROVE  f[t] = step[<<Max(t), f[t \ {Max(t)}]>>]
  <2>1. Max(t) \in 1 .. n
    BY <1>0, <1>6, MaxUpTo
  <2> QED BY <2>1, <1>5, <1>6
<1>7. Unfolds(n, V, x, step, f)
  <2> HIDE DEF step
  <2> QED BY <1>5, <1>6 DEF Unfolds
<1>8. Computes(n, V, x, step, f)
  <2> HIDE DEF n, step
  <2> QED BY <1>0, <1>2, <1>7, RecursionSteps
<1>9. PICK r : OneByOne(n, V, x, step, r) /\ r[n] = f[1 .. n]
  BY <1>8 DEF Computes
<1> HIDE DEF n, F, step
<1> QED BY <1>0, <1>4, <1>9 DEF OneByOne, V

LEMMA LoadsItems ==
    ASSUME NEW w, Typed(w), NEW o \in DOMAIN w.page
    PROVE  Typed(loadItems(w, o)) /\ Within(w, loadItems(w, o))
<1> DEFINE p == w.page[o]
           x == loadStack(w, o, p.past, "undo")
           y2 == loadStack(x, o, p.future, "redo")
<1>1. w \in LoadedFrom(w) /\ w.page \in Seq(PageRec)
  BY DEF LoadedFrom, Typed, Within, ViewRec
<1>2. p.past \in Seq(Tool) /\ p.future \in Seq(Tool)
  <2>1. p \in PageRec
    BY <1>1, ElementOfSeq
  <2> QED BY <2>1 DEF PageRec
<1>3. x \in LoadedFrom(w)
  <2> HIDE DEF p
  <2> QED BY <1>1, <1>2, LoadsStack
<1>4. y2 \in LoadedFrom(w)
  <2> HIDE DEF p, x
  <2> QED BY <1>2, <1>3, LoadsStack
<1> DEFINE z == [y2 EXCEPT !.page[o].loaded = TRUE]
<1>5. z = loadItems(w, o)
  BY DEF loadItems
<1> HIDE DEF y2
<1>6. Typed(y2) /\ Within(w, y2) /\ o \in DOMAIN y2.page /\ y2 \in ViewRec /\ y2.page \in Seq(PageRec)
  BY <1>4 DEF LoadedFrom, Within, ViewRec
<1>7. y2.page[o] \in PageRec
  BY <1>6, ElementOfSeq
<1> DEFINE q == [y2.page[o] EXCEPT !.loaded = TRUE]
           s == [y2.page EXCEPT ![o] = q]
<1>8. /\ q \in PageRec /\ q.undo = y2.page[o].undo /\ q.redo = y2.page[o].redo
      /\ q.local = y2.page[o].local /\ q.remote = y2.page[o].remote
  BY <1>7 DEF PageRec
<1>9. z = [y2 EXCEPT !.page = s]
  OBVIOUS
<1> HIDE DEF q
<1>10. s \in Seq(PageRec) /\ DOMAIN s = DOMAIN y2.page /\ s[o] = q
       /\ \A k \in DOMAIN y2.page : k # o => s[k] = y2.page[k]
  BY <1>6, <1>8, ExceptSeq
<1> HIDE DEF s, z
<1>11. /\ z \in ViewRec /\ z.layers = y2.layers /\ z.page = s /\ z.cur = y2.cur /\ z.drawing = y2.drawing
       /\ z.pages = y2.pages /\ z.index = y2.index /\ z.loads = y2.loads
       /\ z.screen = y2.screen /\ z.lines = y2.lines /\ z.stray = y2.stray
  BY <1>6, <1>9, <1>10 DEF ViewRec
<1>12. \A k \in DOMAIN y2.page : /\ s[k].undo = y2.page[k].undo /\ s[k].redo = y2.page[k].redo
                                 /\ s[k].local = y2.page[k].local /\ s[k].remote = y2.page[k].remote
  BY <1>8, <1>10
<1>13. \A k, m : LayerOf(z, k, m) <=> LayerOf(y2, k, m)
  BY <1>11 DEF LayerOf
<1>14. \A k \in DOMAIN y2.page : PageScoped(z, k)
  BY <1>6, <1>11, <1>12, <1>13 DEF PageScoped, Typed, Scoped
<1>15. Typed(z)
  BY <1>6, <1>10, <1>11, <1>14 DEF Typed, Scoped
<1>16. \A k \in y2.screen : Stacked(z, k) <=> Stacked(y2, k)
  BY <1>6, <1>11, <1>12 DEF Stacked, Typed, Scoped
<1>17. Open(z) = Open(y2)
  BY <1>11, <1>16 DEF Open
<1>18. \A k \in Names : getLayer(z, k) = getLayer(y2, k)
  BY <1>6, <1>11, <1>12 DEF getLayer, Typed, Scoped
<1>19. Within(w, z)
  BY <1>6, <1>10, <1>11, <1>17, <1>18 DEF Within, Held
<1> QED BY <1>5, <1>15, <1>19

\* x shows page o: nothing of it is open.
Turned(w, x, o) ==
    /\ Typed(x) /\ Open(x) = {} /\ Held(x) /\ \A l \in x.lines : x.layers[l].page = o
    /\ x.cur = o /\ DOMAIN x.page = DOMAIN w.page /\ x.drawing = w.drawing
    /\ x.pages = w.pages /\ x.index = w.index /\ x.loads = w.loads

LEMMA TurnedSound ==
    ASSUME NEW w, NEW x, NEW o, Turned(w, x, o), NEW Q
    PROVE  Sound(x, Q) /\ Touched(x, Q) /\ \A y \in Names : ~Line(x, y)
BY DEF Turned, Sound, Drawn, Kept, Touched, Line

LEMMA HandlesLoad ==
    ASSUME NEW w, Typed(w), Drawn(w), NEW o \in DOMAIN w.page
    PROVE  Turned(w, loadHandler(w, o), o)
<1> DEFINE c == Unlined(w)
           shown == w.page[o].undo
           x == [c EXCEPT !.cur = o, !.screen = c.screen \cup ToSet(shown), !.lines = ToSet(shown),
                            !.stray = c.stray \ ToSet(shown)]
           z == loadHandler(w, o)
<1>1. Typed(c) /\ Within(w, c) /\ Open(c) = {} /\ c.lines = {} /\ c.page = w.page /\ Held(c)
  BY ClearsLines DEF Within, Drawn
<1>2. /\ w.page[o] \in PageRec /\ shown \in Seq(Nat) /\ o \in Nat /\ PageScoped(w, o)
  <2>1. w.page \in Seq(PageRec) /\ PageScoped(w, o)
    BY DEF Typed, ViewRec, Scoped
  <2>2. w.page[o] \in PageRec /\ o \in Nat
    BY <2>1, ElementOfSeq
  <2> QED BY <2>1, <2>2 DEF PageRec
<1>3. z = IF shown = <<>> THEN x ELSE refLayer(x, w.page[o].src, Last(shown))
  <2>1. c = innerClearScreen(w, FALSE)
    BY DEF innerClearScreen, Unlined
  <2>2. [[c EXCEPT !.cur = o] EXCEPT !.screen = @ \cup ToSet(shown), !.lines = @ \cup ToSet(shown),
                                     !.stray = @ \ ToSet(shown)] = x
    BY <1>1 DEF Typed, ViewRec
  <2> QED BY <2>1, <2>2 DEF loadHandler
<1> HIDE DEF c
<1>4. /\ ToSet(shown) \in SUBSET Nat /\ ToSet(shown) \subseteq DOMAIN c.layers
      /\ \A k \in ToSet(shown) : c.layers[k].page = o /\ \E i \in DOMAIN shown : shown[i] = k
  <2>1. \A k \in ToSet(shown) : k \in Nat /\ \E i \in DOMAIN shown : shown[i] = k
    BY <1>2, ElementOfSeq DEF ToSet
  <2>2. \A i \in DOMAIN shown : shown[i] \in DOMAIN c.layers /\ c.layers[shown[i]].page = o
    BY <1>1, <1>2 DEF PageScoped, LayerOf, Within
  <2> HIDE DEF shown
  <2> QED BY <2>1, <2>2
<1>5. /\ x \in ViewRec /\ x.layers = c.layers /\ x.page = w.page /\ x.cur = o /\ x.drawing = c.drawing
      /\ x.pages = c.pages /\ x.index = c.index /\ x.loads = c.loads
      /\ x.screen = c.screen \cup ToSet(shown) /\ x.lines = ToSet(shown)
      /\ x.stray = c.stray \ ToSet(shown)
  <2> HIDE DEF shown
  <2> QED BY <1>1, <1>2, <1>4 DEF Typed, ViewRec
<1> HIDE DEF x
<1>6. Typed(x)
  <2>1. \A k : PageScoped(x, k) <=> PageScoped(c, k)
    BY <1>1, <1>5 DEF PageScoped, LayerOf
  <2> HIDE DEF shown
  <2> QED BY <1>1, <1>4, <1>5, <2>1 DEF Typed, Scoped
<1>7. Open(x) = {}
  <2>1. ASSUME NEW k \in x.screen PROVE Stacked(x, k)
    <3>1. CASE k \in c.screen
      BY <1>1, <1>5, <3>1 DEF Open, Stacked
    <3>2. CASE k \in ToSet(shown)
      <4>1. x.page[x.layers[k].page].undo = shown
        BY <1>4, <1>5, <3>2
      <4> QED BY <1>4, <3>2, <4>1 DEF Stacked
    <3> QED BY <1>5, <2>1, <3>1, <3>2
  <2> QED BY <2>1 DEF Open
<1>8. Turned(w, x, o)
  BY <1>1, <1>4, <1>5, <1>6, <1>7 DEF Turned, Within, Held
<1>9. CASE shown = <<>> \/ w.page[o].src = "none"
  <2>1. "none" \notin User
    BY ViewAssumption
  <2>2. z = x
    BY <1>3, <1>9, <2>1 DEF refLayer
  <2> QED BY <1>8, <2>2
<1>10. CASE shown # <<>> /\ w.page[o].src # "none"
  <2> DEFINE by == w.page[o].src
             l == Last(shown)
  <2>1. by \in Names /\ z = refLayer(x, by, l)
    BY <1>2, <1>3, <1>10 DEF PageRec
  <2>2. LayerOf(x, l, x.cur)
    <3>1. Last(shown) = shown[Len(shown)] /\ Len(shown) \in DOMAIN shown
      <4> HIDE DEF shown
      <4> QED BY <1>2, <1>10, FrontAt
    <3> QED BY <1>1, <1>2, <1>5, <3>1 DEF PageScoped, LayerOf, Within
  <2> HIDE DEF by, l
  <2>3. Refers(x, z, by, l)
    BY <1>6, <2>1, <2>2, RefersTo
  <2> HIDE DEF z
  <2>4. Typed(z) /\ Open(z) = Open(x)
    BY <1>6, <2>1, <2>2, <2>3, RefersTyped
  <2> QED BY <1>8, <2>3, <2>4 DEF Turned, Refers, Held, z
<1> QED BY <1>9, <1>10

\* A page is turned to at once, or its image is loaded first.
Loads(w, x, Q, o) ==
    \/ Turned(w, x, o)
    \/ /\ Sound(x, Q) /\ Shown(w, x) /\ x.loads = Append(w.loads, o)
       /\ x.pages = w.pages /\ x.index = w.index /\ x.drawing = w.drawing

LEMMA LoadsPage ==
    ASSUME NEW w, NEW Q, Sound(w, Q), NEW o \in DOMAIN w.page
    PROVE  Loads(w, load(w, o), Q, o)
<1>0. /\ Typed(w) /\ Drawn(w) /\ w \in ViewRec /\ w.loads \in Seq(Nat) /\ o \in Nat
      /\ \A i \in DOMAIN w.pages : w.pages[i] \in DOMAIN w.page
      /\ \A i \in DOMAIN w.loads : w.loads[i] \in DOMAIN w.page
  BY DEF Sound, Typed, ViewRec, Scoped
<1>1. CASE load(w, o) = loadHandler(w, o)
  BY <1>0, <1>1, HandlesLoad DEF Loads
<1>2. CASE load(w, o) = loadWithoutDoc(w, o)
  <2> DEFINE x == loadItems(w, o)
  <2>1. Typed(x) /\ Within(w, x)
    BY <1>0, LoadsItems
  <2> HIDE DEF x
  <2>2. Drawn(x) /\ o \in DOMAIN x.page
    BY <2>1, WithinGood DEF Sound, Within
  <2>3. Turned(x, loadHandler(x, o), o)
    BY <2>1, <2>2, HandlesLoad
  <2>4. load(w, o) = loadHandler(x, o)
    BY <1>2 DEF loadWithoutDoc, x
  <2> QED BY <2>1, <2>3, <2>4 DEF Loads, Turned, Within
<1>3. CASE load(w, o) = loadWithDoc(w, o)
  <2> DEFINE x == loadWithDoc(w, o)
  <2> DEFINE ls == Append(w.loads, o)
  <2>1. ls \in Seq(Nat) /\ \A i \in DOMAIN ls : ls[i] \in DOMAIN w.page
    <3>1. /\ ls \in Seq(Nat) /\ Len(w.loads) \in Nat
          /\ DOMAIN w.loads = 1 .. Len(w.loads) /\ DOMAIN ls = 1 .. Len(w.loads) + 1
          /\ ls[Len(w.loads) + 1] = o
          /\ \A i \in 1 .. Len(w.loads) : ls[i] = w.loads[i]
      BY <1>0, AppendedAt
    <3>2. \A i \in 1 .. Len(w.loads) + 1 : i \in 1 .. Len(w.loads) \/ i = Len(w.loads) + 1
      BY <3>1
    <3> HIDE DEF ls
    <3>3. ASSUME NEW i \in DOMAIN ls PROVE ls[i] \in DOMAIN w.page
      <4>1. CASE i \in 1 .. Len(w.loads)
        BY <1>0, <3>1, <4>1
      <4>2. CASE i = Len(w.loads) + 1
        BY <3>1, <4>2
      <4> QED BY <3>1, <3>2, <4>1, <4>2
    <3> QED BY <3>1, <3>3
  <2> HIDE DEF ls
  <2>2. /\ x \in ViewRec /\ Shown(w, x) /\ x.loads = Append(w.loads, o)
        /\ x.pages = w.pages /\ x.index = w.index /\ x.drawing = w.drawing
    <3>1. x = [w EXCEPT !.loads = ls]
      BY <1>0 DEF loadWithDoc, ls, ViewRec
    <3> QED BY <1>0, <2>1, <3>1 DEF ViewRec, Shown, ls
  <2> HIDE DEF x
  <2>3. Sound(x, Q)
    BY <1>0, <2>1, <2>2, ShownSound DEF ls
  <2> QED BY <1>3, <2>2, <2>3 DEF Loads, x
<1> QED BY <1>1, <1>2, <1>3 DEF load

\* A page whose image arrived, or failed to, is shown.
LEMMA LoadsDoc ==
    ASSUME NEW w, NEW Q, Sound(w, Q), NEW o \in DOMAIN w.page, NEW ok
    PROVE  Turned(w, docLoaded(w, o, ok), o)
<1> DEFINE x == IF ok THEN loadItems(w, o) ELSE w
<1>1. Typed(x) /\ Within(w, x)
  BY LoadsItems DEF Within, Sound
<1>2. docLoaded(w, o, ok) = loadHandler(x, o)
  BY DEF docLoaded
<1> HIDE DEF x
<1>3. Drawn(x) /\ o \in DOMAIN x.page
  BY <1>1, WithinGood DEF Sound, Within
<1>4. Turned(x, loadHandler(x, o), o)
  BY <1>1, <1>3, HandlesLoad
<1> QED BY <1>1, <1>2, <1>4 DEF Turned, Within

\* The page the view says it is on.
InRange(w) == w.index \in 0 .. Len(w.pages) - 1
Expected(w) == w.pages[w.index + 1]
Arrived(w) == InRange(w) => w.cur = Expected(w)

\* It is the one that is shown, or the only one that is being loaded.
Arriving(w) ==
    \/ w.loads = <<>> /\ Arrived(w)
    \/ w.loads = <<Expected(w)>> /\ InRange(w)

\* From w to x a page is turned, and no line begun.
Pages(w, x, Q) ==
    /\ Sound(x, Q) /\ (Touched(w, Q) => Touched(x, Q))
    /\ x.drawing = w.drawing /\ DOMAIN w.page \subseteq DOMAIN x.page
    /\ \A y \in Names : Line(x, y) => Line(w, y)

\* The view goes to another page.
Goes(w, x) == x.index # w.index /\ (w.loads = <<>> => Arriving(x))

LEMMA LoadsFromPage ==
    ASSUME NEW w, NEW Q, Sound(w, Q), NEW x, x = loadFromPage(w, w.index)
    PROVE  /\ Pages(w, x, Q) /\ DOMAIN x.page = DOMAIN w.page /\ x.index = w.index
           /\ w.loads = <<>> => Arriving(x)
<1>0. w.pages \in Seq(Nat) /\ w.index \in Int /\ Len(w.pages) \in Nat /\ DOMAIN w.pages = 1 .. Len(w.pages)
      /\ \A i \in DOMAIN w.pages : w.pages[i] \in DOMAIN w.page
  BY DEF Sound, Typed, ViewRec, Scoped
<1>1. CASE w.index < 0 \/ w.index >= Len(w.pages)
  <2>1. x = w /\ ~InRange(w)
    BY <1>0, <1>1 DEF loadFromPage, InRange
  <2> QED BY <2>1 DEF Pages, Arriving, Arrived
<1>2. CASE ~(w.index < 0 \/ w.index >= Len(w.pages))
  <2> DEFINE o == Expected(w)
  <2>1. InRange(w) /\ o \in DOMAIN w.page /\ x = load(w, o)
    BY <1>0, <1>2 DEF loadFromPage, InRange, Expected
  <2> HIDE DEF o
  <2>2. Loads(w, x, Q, o)
    BY <2>1, LoadsPage
  <2>3. CASE Turned(w, x, o)
    <3>1. Sound(x, Q) /\ Touched(x, Q) /\ \A y \in Names : ~Line(x, y)
      BY <2>3, TurnedSound
    <3>2. w.loads = <<>> => Arriving(x)
      BY <2>1, <2>3 DEF Arriving, Arrived, Expected, InRange, Turned, o
    <3> QED BY <2>3, <3>1, <3>2 DEF Pages, Turned
  <2>4. CASE /\ Sound(x, Q) /\ Shown(w, x) /\ x.loads = Append(w.loads, o)
             /\ x.pages = w.pages /\ x.index = w.index /\ x.drawing = w.drawing
    <3>1. Open(x) = Open(w) /\ \A y \in Names : Line(x, y) => Line(w, y)
      <4>1. \A i : (i \in DOMAIN x.pages => x.pages[i] \in DOMAIN w.page)
                   /\ (i \in DOMAIN x.loads => x.loads[i] \in DOMAIN w.page)
        BY <2>4 DEF Sound, Typed, Scoped, Shown
      <4>2. x \in ViewRec
        BY <2>4 DEF Sound, Typed
      <4> QED BY <2>4, <4>1, <4>2, ShownSound
    <3>2. Touched(w, Q) => Touched(x, Q)
      BY <2>4, <3>1 DEF Touched, Shown
    <3>3. w.loads = <<>> => Arriving(x)
      <4>1. Append(<<>>, o) = <<o>>
        OBVIOUS
      <4> QED BY <2>1, <2>4, <4>1 DEF Arriving, InRange, Expected, o
    <3> QED BY <2>4, <3>1, <3>2, <3>3 DEF Pages, Shown
  <2> QED BY <2>2, <2>3, <2>4 DEF Loads
<1> QED BY <1>1, <1>2

\* A view that is on another page of those there are.
LEMMA IndexSound ==
    ASSUME NEW w, NEW Q, Sound(w, Q), NEW i \in Int
    PROVE  /\ Sound([w EXCEPT !.index = i], Q) /\ [w EXCEPT !.index = i].index = i
           /\ \A x : Pages([w EXCEPT !.index = i], x, Q) => Pages(w, x, Q)
<1> DEFINE x == [w EXCEPT !.index = i]
<1>1. /\ x \in ViewRec /\ Shown(w, x) /\ x.pages = w.pages /\ x.loads = w.loads /\ x.index = i
      /\ x.drawing = w.drawing
  BY DEF Sound, Typed, ViewRec, Shown
<1> HIDE DEF x
<1>2. Sound(x, Q) /\ Open(x) = Open(w) /\ \A y \in Names : Line(x, y) <=> Line(w, y)
  BY <1>1, ShownSound DEF Sound, Typed, Scoped
<1>3. Touched(w, Q) => Touched(x, Q)
  BY <1>1, <1>2 DEF Touched, Shown
<1>4. ASSUME NEW z, Pages(x, z, Q) PROVE Pages(w, z, Q)
  BY <1>1, <1>2, <1>3, <1>4 DEF Pages, Shown
<1> QED BY <1>1, <1>2, <1>4 DEF x

LEMMA TurnsPages ==
    ASSUME NEW w, NEW Q, Sound(w, Q), NEW x \in {nextPage(w), prePage(w)}
    PROVE  Pages(w, x, Q) /\ DOMAIN x.page = DOMAIN w.page /\ (x = w \/ Goes(w, x))
<1>0. w.index \in Int
  BY DEF Sound, Typed, ViewRec
<1>1. CASE x = w
  BY <1>1 DEF Pages
<1>2. ASSUME NEW i \in {w.index + 1, w.index - 1}, x = loadFromPage([w EXCEPT !.index = i], i)
      PROVE  Pages(w, x, Q) /\ DOMAIN x.page = DOMAIN w.page /\ Goes(w, x)
  <2> DEFINE y == [w EXCEPT !.index = i]
  <2>1. i \in Int /\ i # w.index
    BY <1>0
  <2>2. /\ Sound(y, Q) /\ y.index = i
        /\ Pages(y, x, Q) => Pages(w, x, Q)
    BY <2>1, IndexSound
  <2>3. y.loads = w.loads /\ y.page = w.page
    BY DEF Sound, Typed, ViewRec
  <2> HIDE DEF y
  <2>4. x = loadFromPage(y, y.index)
    BY <1>2, <2>2 DEF y
  <2>5. Pages(y, x, Q) /\ DOMAIN x.page = DOMAIN y.page /\ x.index = y.index /\ (y.loads = <<>> => Arriving(x))
    BY <2>2, <2>4, LoadsFromPage
  <2> QED BY <2>1, <2>2, <2>3, <2>5 DEF Goes
<1> QED BY <1>1, <1>2 DEF nextPage, prePage

\* The pages of a board that arrives hold no layer yet.
NewPage == {p \in PageRec : /\ p.undo = <<>> /\ p.redo = <<>> /\ p.local = NoLayer
                            /\ \A u \in User : p.remote[u] = NoLayer}

LEMMA SetsBoardInfo ==
    ASSUME NEW w, NEW Q, Sound(w, Q), NEW pages \in Seq(NewPage), NEW index \in Int
    PROVE  /\ Pages(w, setBoardInfo(w, pages, index), Q)
           /\ w.loads = <<>> => Arriving(setBoardInfo(w, pages, index))
<1> DEFINE n == Len(w.page)
           m == Len(pages)
           ps == w.page \o pages
           ns == [i \in 1 .. m |-> n + i]
           y == [w EXCEPT !.page = ps, !.pages = ns, !.index = index]
           x == setBoardInfo(w, pages, index)
<1>0. /\ w \in ViewRec /\ Scoped(w) /\ w.page \in Seq(PageRec) /\ n \in Nat /\ m \in Nat
      /\ DOMAIN w.page = 1 .. n /\ pages \in Seq(PageRec)
  <2>1. NewPage \subseteq PageRec
    BY DEF NewPage
  <2>2. \A i \in 1 .. m : pages[i] \in PageRec
    BY <2>1, ElementOfSeq
  <2> QED BY <2>1, <2>2, LenProperties DEF Sound, Typed, ViewRec
<1>1. /\ ps \in Seq(PageRec) /\ DOMAIN ps = 1 .. n + m
      /\ \A i \in 1 .. n : ps[i] = w.page[i]
      /\ \A i \in 1 .. m : ps[n + i] = pages[i]
  <2>1. /\ ps \in Seq(PageRec) /\ Len(ps) = n + m
        /\ \A i \in 1 .. n + m : ps[i] = IF i <= n THEN w.page[i] ELSE pages[i - n]
    BY <1>0, ConcatProperties
  <2>2. \A i \in 1 .. m : n + i \in 1 .. n + m /\ ~(n + i <= n) /\ (n + i) - n = i
    BY <1>0
  <2>3. \A i \in 1 .. n : i \in 1 .. n + m
    BY <1>0
  <2> HIDE DEF ps, n, m
  <2> QED BY <2>1, <2>2, <2>3, LenProperties
<1>2. /\ ns \in Seq(Nat) /\ Len(ns) = m /\ DOMAIN ns = 1 .. m
      /\ \A i \in DOMAIN ns : ns[i] \in DOMAIN ps
  BY <1>0, <1>1
<1> HIDE DEF ps, ns
<1>3. /\ y \in ViewRec /\ y.layers = w.layers /\ y.page = ps /\ y.cur = w.cur /\ y.drawing = w.drawing
      /\ y.pages = ns /\ y.index = index /\ y.loads = w.loads
      /\ y.screen = w.screen /\ y.lines = w.lines /\ y.stray = w.stray
  BY <1>0, <1>1, <1>2 DEF ViewRec
<1>4. x = IF index >= m THEN y ELSE loadFromPage(y, y.index)
  <2>1. x = IF index >= m THEN y ELSE loadFromPage(y, index)
    BY DEF setBoardInfo, ps, ns
  <2> HIDE DEF x, y
  <2> QED BY <1>3, <2>1
<1> HIDE DEF x, y
<1>5. \A k \in DOMAIN w.page : k \in DOMAIN ps /\ ps[k] = w.page[k]
  BY <1>0, <1>1
<1>6. \A k \in DOMAIN ps : k \in DOMAIN w.page \/ ps[k] \in NewPage
  <2>1. ASSUME NEW k \in 1 .. n + m, k \notin 1 .. n PROVE ps[k] \in NewPage
    <3>1. k - n \in 1 .. m /\ n + (k - n) = k
      BY <1>0, <2>1
    <3>2. pages[k - n] \in NewPage
      BY <3>1, ElementOfSeq
    <3> QED BY <1>1, <3>1, <3>2
  <2> QED BY <1>0, <1>1, <2>1
<1>7. ASSUME NEW k \in DOMAIN ps PROVE PageScoped(y, k)
  <2>1. CASE k \in DOMAIN w.page
    <3>1. PageScoped(w, k)
      BY <1>0, <2>1 DEF Scoped
    <3> QED BY <1>3, <1>5, <2>1, <3>1 DEF PageScoped, LayerOf
  <2>2. CASE ps[k] \in NewPage
    BY <1>3, <2>2 DEF PageScoped, NewPage
  <2> QED BY <1>6, <2>1, <2>2
<1>8. Typed(y)
  BY <1>0, <1>2, <1>3, <1>5, <1>7 DEF Typed, Scoped
<1>9. \A k \in w.screen : Stacked(y, k) <=> Stacked(w, k)
  BY <1>0, <1>3, <1>5 DEF Stacked, Scoped
<1>10. Open(y) = Open(w) /\ \A z \in Names : getLayer(y, z) = getLayer(w, z)
  BY <1>0, <1>3, <1>5, <1>9 DEF Open, getLayer, Scoped
<1>11. Sound(y, Q) /\ (Touched(w, Q) => Touched(y, Q)) /\ \A z \in Names : Line(y, z) <=> Line(w, z)
  BY <1>3, <1>8, <1>10 DEF Sound, Drawn, Kept, Touched, Line, Held
<1>12. CASE index >= m
  <2>1. w.loads = <<>> => Arriving(y)
    BY <1>0, <1>2, <1>3, <1>12 DEF Arriving, Arrived, InRange
  <2>2. DOMAIN w.page \subseteq DOMAIN y.page
    BY <1>3, <1>5
  <2> QED BY <1>3, <1>4, <1>11, <1>12, <2>1, <2>2 DEF Pages, x
<1>13. CASE index < m
  <2>1. x = loadFromPage(y, y.index)
    BY <1>0, <1>4, <1>13
  <2>2. Pages(y, x, Q) /\ (y.loads = <<>> => Arriving(x))
    BY <1>11, <2>1, LoadsFromPage
  <2>3. DOMAIN w.page \subseteq DOMAIN y.page
    BY <1>3, <1>5
  <2> QED BY <1>3, <1>11, <2>2, <2>3 DEF Pages, x
<1> QED BY <1>0, <1>12, <1>13

-----------------------------------------------------------------------------
(* The pages that arrive.                                                  *)

LEMMA CachesItems ==
    ASSUME NEW stack, NEW items \in Seq(Tool)
    PROVE  cached(stack, items) \in Seq(Tool)
<1> DEFINE V == Seq(Tool)
           n == Len(items)
           F(g) == [t \in SUBSET (DOMAIN items) |-> IF t = {} THEN <<>>
                        ELSE cacheItem(stack, items[Max(t)], g[t \ {Max(t)}])]
           fold == CHOOSE g : g = F(g)
           step == [p \in (1 .. n) \X V |-> cacheItem(stack, items[p[1]], p[2])]
<1>0. n \in Nat /\ DOMAIN items = 1 .. n /\ (\A i \in 1 .. n : items[i] \in Tool) /\ <<>> \in V
  BY LenProperties, ElementOfSeq
<1>1. cached(stack, items) = fold[DOMAIN items]
  BY DEF cached, FoldLeft, MapThenFoldSet
<1>2. step \in [(1 .. n) \X V -> V]
  <2>1. ASSUME NEW i \in 1 .. n, NEW acc \in V PROVE cacheItem(stack, items[i], acc) \in V
    <3>1. items[i] \in Tool /\ <<items[i]>> \in Seq(Tool)
      BY <1>0
    <3>2. Append(acc, items[i]) \in Seq(Tool)
      BY <3>1, AppendProperties
    <3>3. <<items[i]>> \o acc \in Seq(Tool)
      BY <3>1, ConcatProperties
    <3> QED BY <3>2, <3>3 DEF cacheItem
  <2> HIDE DEF V, n
  <2> QED BY <2>1
<1> HIDE DEF V
<1>3. \E g : g = F(g)
  <2>1. PICK g \in [SUBSET (1 .. n) -> V] : Recursive(n, <<>>, step, g)
    <3> HIDE DEF n, step
    <3> QED BY <1>0, <1>2, RecursionExists
  <2>2. ASSUME NEW t \in SUBSET (1 .. n), t # {}
        PROVE  step[<<Max(t), g[t \ {Max(t)}]>>] = cacheItem(stack, items[Max(t)], g[t \ {Max(t)}])
    <3>1. Max(t) \in 1 .. n
      BY <1>0, <2>2, MaxUpTo
    <3>2. g[t \ {Max(t)}] \in V
      OBVIOUS
    <3> QED BY <3>1, <3>2
  <2>3. g = F(g)
    <3> HIDE DEF n, step
    <3> QED BY <1>0, <2>1, <2>2 DEF Recursive
  <2> QED BY <2>3
<1>4. PICK f : f = F(f) /\ cached(stack, items) = f[DOMAIN items]
  <2> HIDE DEF F
  <2> QED BY <1>1, <1>3
<1>5. f[{}] = <<>> /\ \A t \in SUBSET (1 .. n) : t # {} =>
         f[t] = cacheItem(stack, items[Max(t)], f[t \ {Max(t)}])
  BY <1>0, <1>4
<1>6. ASSUME NEW t \in SUBSET (1 .. n), t # {}, f[t \ {Max(t)}] \in V
      PROVE  f[t] = step[<<Max(t), f[t \ {Max(t)}]>>]
  <2>1. Max(t) \in 1 .. n
    BY <1>0, <1>6, MaxUpTo
  <2> QED BY <2>1, <1>5, <1>6
<1>7. Unfolds(n, V, <<>>, step, f)
  <2> HIDE DEF step
  <2> QED BY <1>5, <1>6 DEF Unfolds
<1>8. Computes(n, V, <<>>, step, f)
  <2> HIDE DEF n, step
  <2> QED BY <1>0, <1>2, <1>7, RecursionSteps
<1>9. PICK r : OneByOne(n, V, <<>>, step, r) /\ r[n] = f[1 .. n]
  BY <1>8 DEF Computes
<1> HIDE DEF n, F, step
<1> QED BY <1>0, <1>4, <1>9 DEF OneByOne, V

LEMMA CachesPages ==
    ASSUME NEW from \in User, NEW info \in Info
    PROVE  cacheWhiteBoardItems(from, info) \in Seq(NewPage)
<1>0. info.pages \in Seq([past : Seq(Tool), future : Seq(Tool)]) /\ info.url \in BOOLEAN
  BY DEF Info
<1>1. ASSUME NEW i \in 1 .. Len(info.pages)
      PROVE  new_page(from, info.url, cached("undo", info.pages[i].past), cached("redo", info.pages[i].future))
                 \in NewPage
  <2>1. info.pages[i].past \in Seq(Tool) /\ info.pages[i].future \in Seq(Tool)
    <3>1. info.pages[i] \in [past : Seq(Tool), future : Seq(Tool)]
      BY <1>0, ElementOfSeq
    <3> QED BY <3>1
  <2>2. cached("undo", info.pages[i].past) \in Seq(Tool) /\ cached("redo", info.pages[i].future) \in Seq(Tool)
    BY <2>1, CachesItems
  <2> QED BY <1>0, <2>2 DEF new_page, NewPage, PageRec, Names
<1>2. Len(info.pages) \in Nat
  BY <1>0
<1> QED BY <1>1, <1>2 DEF cacheWhiteBoardItems

-----------------------------------------------------------------------------
(* The inductive invariant.                                                *)

SdkTask == {b \in [op : {"join", "leave", "clear", "undo", "redo", "send", "joined", "left"},
                   by : Names, arg : {"none", "drawing", "savedata"}] :
               b.op \in {"joined", "left"} => b.by \in User}

WellFormed(b) ==
    /\ b.op \in Messages \cup {"begin", "move", "end", "text"} => b.by \in User
    /\ b.op \in {"drawing", "begin", "mode"} => b.arg \in Tool
    /\ b.op = "begin" => b.arg # "text"
    /\ b.op = "info" => b.arg \in Info
    /\ b.op = "setinfo" => b.arg \in [pages : Seq(NewPage), index : Int]
    /\ b.op = "loaded" => b.arg \in [page : Nat, ok : BOOLEAN]

Drawing == {"begin", "move", "end", "text", "view_clear", "view_undo", "view_redo"}
Turning == {"setinfo", "next", "prev", "loaded"}
Setting == {"mode", "lock", "unlock"}

MainTask == {b \in [op : Messages \cup Drawing \cup Turning \cup Setting, by : Names,
                    arg : Tool \cup {"none"} \cup Info \cup [pages : Seq(NewPage), index : Int]
                              \cup [page : Nat, ok : BOOLEAN]] : WellFormed(b)}

Types ==
    /\ board \in [registered : BOOLEAN, sink : BOOLEAN, sent : {"none", "drawing", "savedata", "failed"}]
    /\ users \in [User -> {Gone, "new", "drawing"}]
    /\ sdk \in Seq(SdkTask) /\ main \in Seq(MainTask)
    /\ finger \in BOOLEAN /\ members \in SUBSET User /\ quit \in SUBSET User

\* The pages whose images have arrived are pages of the view.
Pending == \A i \in 1 .. Len(main) : main[i].op = "loaded" => main[i].arg.page \in DOMAIN v.page

\* A member joins once before it leaves.
Joins(u) == {b \in SdkTask : b.op = "joined" /\ b.by = u}
Leaves(u) == {b \in SdkTask : b.op = "left" /\ b.by = u}
Present(u) == users[u] # Gone
Roster(u) ==
    /\ Paired(sdk, Present(u), Joins(u), Leaves(u))
    /\ u \notin members => Closed(sdk, Present(u), Joins(u), Leaves(u))

\* It begins a line once before it ends it, unless it left in the middle of one.
Begins(u) == {b \in MainTask : b.op = "begin" /\ b.by = u /\ b.arg # "laser"}
Ends(u) == {b \in MainTask : b.op = "end" /\ b.by = u}
Alternates(w, q, line, u) ==
    /\ Paired(q, Line(w, u), Begins(u), Ends(u))
    /\ line # "drawing" => Closed(q, Line(w, u), Begins(u), Ends(u))
Alternate(u) == Alternates(v, main, users[u], u)

\* The local user's line is ended once the view knows of none.
Drafts == {b \in SdkTask : b.op = "send" /\ b.arg = "drawing"}
Finals == {b \in SdkTask : b.op = "send" /\ b.arg = "savedata"}
Draft == board.registered /\ board.sent = "drawing"
Sending == ~v.drawing => Closed(sdk, Draft, Drafts, Finals)

\* Why a line may be seen that nobody draws and that can not be undone.
Excused == [quit |-> quit, lost |-> lost, finger |-> finger]

IInv ==
    /\ Types /\ Good(v, Excused) /\ Pending /\ Sending
    /\ \A u \in User : Roster(u)
    /\ \A u \in User \ quit : Alternate(u)

-----------------------------------------------------------------------------
(* What a block of the main queue does to the view.                        *)

Views(b, x) ==
    /\ Good(x, Excused) /\ x.drawing = v.drawing /\ DOMAIN v.page \subseteq DOMAIN x.page
    /\ \A u \in User : Line(x, u) => Line(v, u) \/ b \in Begins(u)
    /\ \A u \in User : b \in Ends(u) => ~Line(x, u)
    /\ b.op \notin Turning => x.loads = v.loads /\ x.pages = v.pages /\ x.index = v.index /\ x.cur = v.cur
    /\ b.op = "setinfo" => (v.loads = <<>> => Arriving(x))
    /\ b.op \in {"next", "prev"} => x = v \/ Goes(v, x)
    /\ b.op = "loaded" =>
           x.loads = v.loads /\ x.pages = v.pages /\ x.index = v.index /\ x.cur = b.arg.page

LEMMA ViewsDraw ==
    ASSUME NEW b \in MainTask, NEW x, NEW by, by = "none" \/ (b.op = "begin" /\ b.by = by),
           Draws(v, x, Excused, by), Touched(x, Excused), b.op \notin Turning, by # "none" => b \in Begins(by),
           \A u \in User : b \in Ends(u) => ~Line(x, u)
    PROVE  Views(b, x)
<1>1. "none" \notin User
  BY ViewAssumption
<1>2. \A u \in User : Line(x, u) => Line(v, u) \/ b \in Begins(u)
  BY <1>1 DEF Draws, Names
<1> QED BY <1>2 DEF Views, Draws, Good, Turning

LEMMA ViewsDrawing ==
    ASSUME IInv, main # <<>>, NEW b \in MainTask, b = Head(main), b.op \in Drawing
    PROVE  Views(b, viewed(b))
<1> DEFINE x == viewed(b)
<1>0. /\ Sound(v, Excused) /\ Touched(v, Excused) /\ "pen" \in Tool /\ b.op \notin Turning
      /\ WellFormed(b) /\ "local" \notin User /\ "none" \notin Names /\ User \subseteq Names
  BY ViewAssumption DEF IInv, Good, Tool, Drawing, Turning, MainTask, Names
<1>1. CASE b.op = "begin" /\ b.arg = "laser"
  <2>1. x = v
    BY <1>1 DEF viewed, onLineBegin
  <2>2. Draws(v, v, Excused, "none")
    BY <1>0 DEF Draws
  <2> QED BY <1>0, <1>1, <2>1, <2>2, ViewsDraw DEF Ends
<1>2. CASE b.op = "begin" /\ b.arg # "laser"
  <2>1. x = onLineBegin(v, b.arg, b.by) /\ b.by \in User /\ b.arg \in Tool \ {"laser"} /\ b.arg # "text"
    BY <1>0, <1>2 DEF viewed, WellFormed
  <2>2. b \in Begins(b.by)
    BY <1>2 DEF Begins
  <2>3. ASSUME b.by \notin quit PROVE ~Line(v, b.by)
    <3> DEFINE u == b.by
               A == Begins(u)
               B == Ends(u)
    <3>1. Paired(main, Line(v, u), A, B) /\ main \in Seq(MainTask)
      BY <2>1, <2>3 DEF IInv, Alternate, Alternates, Types
    <3>2. A \cap B = {} /\ Head(main) \in A /\ Line(v, u) \in BOOLEAN /\ TRUE \in BOOLEAN
      BY <2>2 DEF Begins, Ends, Line
    <3>3. 1 \in 1 .. Len(main) /\ main[1] \in A
      BY <3>1, <3>2, Popped
    <3> HIDE DEF A, B
    <3> QED BY <3>1, <3>3 DEF Paired
  <2>4. \A k \in Open(v) : v.layers[k].by = b.by /\ v.layers[k].seg
                              => b.by \in Excused.quit \/ k \in Excused.lost
    BY <1>0, <2>3 DEF Sound, Kept, Line, Excused
  <2> HIDE DEF x
  <2>5. Draws(v, x, Excused, b.by) /\ Touched(x, Excused)
    BY <1>0, <2>1, <2>4, BeginsLine
  <2>6. \A u : b \notin Ends(u)
    BY <1>2 DEF Ends
  <2> QED BY <1>0, <1>2, <2>2, <2>5, <2>6, ViewsDraw DEF x
<1>3. CASE b.op = "move"
  <2>1. x = onLineMove(v, b.arg, b.by) /\ b.by \in Names /\ b.by # "local" /\ \A u : b \notin Ends(u)
    BY <1>0, <1>3 DEF viewed, WellFormed, Ends
  <2> HIDE DEF x
  <2>2. Draws(v, x, Excused, "none") /\ Touched(x, Excused)
    BY <1>0, <2>1, MovesLine
  <2> QED BY <1>0, <2>1, <2>2, ViewsDraw DEF x
<1>4. CASE b.op = "end"
  <2>1. x = onLineEnd(v, b.by) /\ b.by \in Names /\ \A u : b \in Ends(u) => u = b.by
    BY <1>0, <1>4 DEF viewed, WellFormed, Ends
  <2> HIDE DEF x
  <2>2. Draws(v, x, Excused, "none") /\ Touched(x, Excused) /\ ~Line(x, b.by)
    BY <1>0, <2>1, EndsLine
  <2> QED BY <1>0, <2>1, <2>2, ViewsDraw DEF x
<1>5. CASE b.op = "text"
  <2>1. x = drawText(v, b.by) /\ b.by \in Names /\ \A u : b \notin Ends(u)
    BY <1>0, <1>5 DEF viewed, WellFormed, Ends
  <2> HIDE DEF x
  <2>2. Draws(v, x, Excused, "none") /\ Touched(x, Excused)
    BY <1>0, <2>1, DrawsText
  <2> QED BY <1>0, <2>1, <2>2, ViewsDraw DEF x
<1>6. CASE b.op \in {"view_clear", "view_undo", "view_redo"}
  <2>1. /\ x \in {undo(v), redo(v), clearScreen(v), setDrawingMode(v, "pen"), lockDrawing(v), unlockDrawing(v)}
        /\ \A u : b \notin Ends(u)
    BY <1>6 DEF viewed, Ends
  <2> HIDE DEF x
  <2>2. Draws(v, x, Excused, "none") /\ Touched(x, Excused)
    BY <1>0, <2>1, ChangesDraw
  <2> QED BY <1>0, <2>1, <2>2, ViewsDraw DEF x
<1> QED BY <1>1, <1>2, <1>3, <1>4, <1>5, <1>6 DEF Drawing

LEMMA ViewsSetting ==
    ASSUME IInv, NEW b \in MainTask, b.op \in Setting
    PROVE  Views(b, viewed(b))
<1> DEFINE x == viewed(b)
           mode == IF b.op = "mode" THEN b.arg ELSE "pen"
<1>0. /\ Sound(v, Excused) /\ Touched(v, Excused) /\ mode \in Tool /\ b.op \notin Turning /\ \A u : b \notin Ends(u)
  BY DEF IInv, Good, Tool, Setting, Turning, MainTask, WellFormed, Ends
<1>1. x \in {undo(v), redo(v), clearScreen(v), setDrawingMode(v, mode), lockDrawing(v), unlockDrawing(v)}
  BY DEF viewed, Setting
<1> HIDE DEF x, mode
<1>2. Draws(v, x, Excused, "none") /\ Touched(x, Excused)
  BY <1>0, <1>1, ChangesDraw
<1> QED BY <1>0, <1>2, ViewsDraw DEF x

LEMMA ViewsTurning ==
    ASSUME IInv, main # <<>>, NEW b \in MainTask, b = Head(main), b.op \in Turning
    PROVE  Views(b, viewed(b))
<1> DEFINE x == viewed(b)
<1>0. /\ Sound(v, Excused) /\ Touched(v, Excused) /\ WellFormed(b) /\ \A u : b \notin Ends(u)
      /\ User \subseteq Names
  BY DEF IInv, Good, Turning, MainTask, Ends, Names
<1>1. ASSUME Pages(v, x, Excused), b.op # "loaded", b.op = "setinfo" => (v.loads = <<>> => Arriving(x)),
             b.op \in {"next", "prev"} => x = v \/ Goes(v, x)
      PROVE  Views(b, x)
  BY <1>0, <1>1 DEF Views, Pages, Good
<1>2. CASE b.op = "setinfo"
  <2>1. x = setBoardInfo(v, b.arg.pages, b.arg.index) /\ b.arg.pages \in Seq(NewPage) /\ b.arg.index \in Int
    BY <1>0, <1>2 DEF viewed, WellFormed
  <2> HIDE DEF x
  <2>2. Pages(v, x, Excused) /\ (v.loads = <<>> => Arriving(x))
    BY <1>0, <2>1, SetsBoardInfo
  <2> QED BY <1>1, <1>2, <2>2 DEF x
<1>3. CASE b.op \in {"next", "prev"}
  <2>1. x \in {nextPage(v), prePage(v)}
    BY <1>3 DEF viewed
  <2> HIDE DEF x
  <2>2. Pages(v, x, Excused) /\ (x = v \/ Goes(v, x))
    BY <1>0, <2>1, TurnsPages
  <2> QED BY <1>1, <1>3, <2>2 DEF x
<1>4. CASE b.op = "loaded"
  <2>1. x = docLoaded(v, b.arg.page, b.arg.ok) /\ b.arg.page \in DOMAIN v.page
    <3>1. main \in Seq(MainTask) /\ \A i \in 1 .. Len(main) : main[i].op = "loaded" => main[i].arg.page \in DOMAIN v.page
      BY DEF IInv, Types, Pending
    <3>2. 1 \in 1 .. Len(main) /\ b = main[1]
      BY <3>1, Popped
    <3> QED BY <1>4, <3>1, <3>2 DEF viewed
  <2> HIDE DEF x
  <2>2. Turned(v, x, b.arg.page)
    BY <1>0, <2>1, LoadsDoc
  <2>3. Sound(x, Excused) /\ Touched(x, Excused) /\ \A y \in Names : ~Line(x, y)
    BY <2>2, TurnedSound
  <2> QED BY <1>0, <1>4, <2>2, <2>3 DEF Views, Turned, Good, x
<1> QED BY <1>2, <1>3, <1>4 DEF Turning

-----------------------------------------------------------------------------
(* The queues.                                                             *)

LEMMA AlternatesPop ==
    ASSUME NEW w, NEW x, NEW q \in Seq(MainTask), q # <<>>, NEW line, NEW u, Alternates(w, q, line, u),
           Line(x, u) => Line(w, u) \/ Head(q) \in Begins(u), Head(q) \in Ends(u) => ~Line(x, u)
    PROVE  Alternates(x, Tail(q), line, u)
<1>1. Begins(u) \cap Ends(u) = {} /\ Line(x, u) \in BOOLEAN /\ Line(w, u) \in BOOLEAN
  BY DEF Begins, Ends, Line
<1> DEFINE A == Begins(u)
           B == Ends(u)
           open == Line(w, u)
           o == Line(x, u)
<1>2. /\ A \cap B = {} /\ o \in BOOLEAN /\ open \in BOOLEAN /\ Paired(q, open, A, B)
      /\ (line # "drawing" => Closed(q, open, A, B))
      /\ (Head(q) \in B => ~o) /\ (Head(q) \notin A \cup B => (o => open))
  BY <1>1 DEF Alternates
<1> HIDE DEF A, B, open, o
<1>3. Paired(Tail(q), o, A, B)
  BY <1>2, PairedPop
<1>4. line # "drawing" => Closed(Tail(q), o, A, B)
  BY <1>2, ClosedPop
<1> QED BY <1>3, <1>4 DEF Alternates, A, B, o

LEMMA AlternatesPush ==
    ASSUME NEW w, NEW q \in Seq(MainTask), NEW b \in MainTask, NEW line, NEW next, NEW u,
           Alternates(w, q, line, u),
           \/ b \in Ends(u)
           \/ b \notin Begins(u) /\ (line = "drawing" => next = "drawing")
           \/ line # "drawing" /\ next = "drawing"
    PROVE  Alternates(w, Append(q, b), next, u)
<1>1. Begins(u) \cap Ends(u) = {} /\ Line(w, u) \in BOOLEAN
  BY DEF Begins, Ends, Line
<1> DEFINE A == Begins(u)
           B == Ends(u)
           open == Line(w, u)
<1>2. /\ A \cap B = {} /\ open \in BOOLEAN /\ Paired(q, open, A, B)
      /\ (line # "drawing" => Closed(q, open, A, B))
      /\ \/ b \in B
         \/ b \notin A /\ (line = "drawing" => next = "drawing")
         \/ line # "drawing" /\ next = "drawing"
  BY <1>1 DEF Alternates
<1> HIDE DEF A, B, open
<1>3. b \in A => Closed(q, open, A, B)
  BY <1>2
<1>4. Paired(Append(q, b), open, A, B)
  BY <1>2, <1>3, PairedPush
<1>5. next # "drawing" => Closed(Append(q, b), open, A, B)
  <2>1. next # "drawing" => b \in B \/ (Closed(q, open, A, B) /\ b \notin A /\ (open => open))
    BY <1>2
  <2> QED BY <1>2, <2>1, ClosedPush
<1> QED BY <1>4, <1>5 DEF Alternates, A, B, open

\* A line is closed, and the queue and the table stay.
LEMMA AlternatesLess ==
    ASSUME NEW w, NEW x, NEW q, NEW line, NEW next, NEW u, Alternates(w, q, line, u), Line(x, u) => Line(w, u),
           line = "drawing" => next = "drawing"
    PROVE  Alternates(x, q, next, u)
BY DEF Alternates, Paired, Closed

LEMMA RosterPush ==
    ASSUME NEW u \in User, Roster(u), sdk \in Seq(SdkTask), NEW b \in SdkTask, sdk' = Append(sdk, b),
           Present(u)' = Present(u),
           \/ b \notin Joins(u) /\ (u \in members <=> u \in members')
           \/ b \in Joins(u) /\ u \notin members /\ u \in members'
           \/ b \in Leaves(u)
    PROVE  Roster(u)'
<1> DEFINE A == Joins(u)
           B == Leaves(u)
           open == Present(u)
<1>1. /\ A \cap B = {} /\ open \in BOOLEAN /\ Paired(sdk, open, A, B)
      /\ (u \notin members => Closed(sdk, open, A, B))
  BY DEF Joins, Leaves, Present, Roster
<1> HIDE DEF A, B, open
<1>2. (b \in A => Closed(sdk, open, A, B)) /\ (b \in A => u \in members')
  BY <1>1 DEF A, B, Joins, Leaves
<1>3. Paired(Append(sdk, b), open, A, B)
  BY <1>1, <1>2, PairedPush
<1>4. u \notin members' => Closed(Append(sdk, b), open, A, B)
  <2>1. u \notin members' => b \in B \/ (Closed(sdk, open, A, B) /\ b \notin A /\ (open => open))
    BY <1>1, <1>2 DEF A, B
  <2> QED BY <1>1, <2>1, ClosedPush
<1> QED BY <1>3, <1>4 DEF Roster, A, B, open

LEMMA RosterPop ==
    ASSUME NEW u \in User, Roster(u), sdk \in Seq(SdkTask), sdk # <<>>, sdk' = Tail(sdk),
           Head(sdk) \in Leaves(u) => ~Present(u)',
           Head(sdk) \notin Joins(u) \cup Leaves(u) => (Present(u)' => Present(u)),
           members' = members
    PROVE  Roster(u)' /\ (Head(sdk) \in Joins(u) => ~Present(u))
<1> DEFINE A == Joins(u)
           B == Leaves(u)
           open == Present(u)
           o == Present(u)'
<1>1. /\ A \cap B = {} /\ open \in BOOLEAN /\ o \in BOOLEAN /\ Paired(sdk, open, A, B)
      /\ (u \notin members => Closed(sdk, open, A, B))
      /\ (Head(sdk) \in B => ~o) /\ (Head(sdk) \notin A \cup B => (o => open))
  BY DEF Joins, Leaves, Present, Roster
<1> HIDE DEF A, B, open, o
<1>2. Paired(Tail(sdk), o, A, B) /\ (Head(sdk) \in A => ~open)
  BY <1>1, PairedPop
<1>3. u \notin members => Closed(Tail(sdk), o, A, B)
  BY <1>1, ClosedPop
<1> QED BY <1>2, <1>3 DEF Roster, A, B, open, o

-----------------------------------------------------------------------------
(* One lemma per kind of step.                                             *)

\* A block is dispatched to the queue of BeeSDK.
LEMMA SdkGrows ==
    ASSUME IInv, NEW b \in SdkTask, sdk' = Append(sdk, b), UNCHANGED <<v, board, users, main, finger, quit, lost>>,
           b \notin Drafts, members' \in SUBSET User,
           \A u \in User : \/ b \notin Joins(u) /\ (u \in members <=> u \in members')
                           \/ b \in Joins(u) /\ u \notin members /\ u \in members'
                           \/ b \in Leaves(u)
    PROVE  IInv'
<1>0. Types /\ sdk \in Seq(SdkTask)
  BY DEF IInv, Types
<1>1. Types'
  <2>1. sdk' \in Seq(SdkTask)
    BY <1>0, Pushed
  <2> QED BY <1>0, <2>1 DEF Types
<1>2. Good(v, Excused)' /\ Pending'
  BY DEF IInv, Pending, Excused
<1>3. Sending'
  <2>1. ~v.drawing => Closed(sdk', Draft, Drafts, Finals)
    <3>1. Draft \in BOOLEAN
      BY DEF Draft
    <3>2. ~v.drawing => Closed(sdk, Draft, Drafts, Finals)
      BY DEF IInv, Sending
    <3> QED BY <1>0, <3>1, <3>2, ClosedPush
  <2>2. Draft' = Draft
    BY DEF Draft
  <2> QED BY <2>1, <2>2 DEF IInv, Sending
<1>4. ASSUME NEW u \in User PROVE Roster(u)'
  <2>1. Roster(u) /\ Present(u)' = Present(u)
    BY DEF IInv, Present
  <2> QED BY <1>0, <2>1, RosterPush
<1>5. \A u \in User \ quit' : Alternate(u)'
  BY DEF IInv, Alternate
<1> QED BY <1>1, <1>2, <1>3, <1>4, <1>5 DEF IInv

\* A block is dispatched to the main queue.
LEMMA MainGrows ==
    ASSUME IInv, NEW b \in MainTask, main' = Append(main, b),
           UNCHANGED <<v, board, users, sdk, finger, members, quit, lost>>,
           b.op \in Messages \cup Setting
    PROVE  IInv'
<1>0. Types /\ main \in Seq(MainTask)
  BY DEF IInv, Types
<1>1. Types'
  <2>1. main' \in Seq(MainTask)
    BY <1>0, Pushed
  <2> QED BY <1>0, <2>1 DEF Types
<1>2. Good(v, Excused)' /\ Sending'
  BY DEF IInv, Sending, Draft, Excused
<1>3. Pending'
  <2>1. /\ Len(main) \in Nat /\ Len(main') = Len(main) + 1 /\ main'[Len(main) + 1] = b
        /\ \A i \in 1 .. Len(main) : main'[i] = main[i]
    BY <1>0, Pushed
  <2>2. b.op # "loaded"
    BY DEF Messages, Setting
  <2>3. \A i \in 1 .. Len(main) + 1 : i \in 1 .. Len(main) \/ i = Len(main) + 1
    BY <2>1
  <2> QED BY <2>1, <2>2, <2>3 DEF IInv, Pending
<1>4. \A u \in User : Roster(u)'
  BY DEF IInv, Roster, Present
<1>5. ASSUME NEW u \in User \ quit' PROVE Alternate(u)'
  <2>1. b \notin Begins(u) /\ Alternates(v, main, users[u], u)
    BY DEF Begins, Messages, Setting, IInv, Alternate
  <2>2. Alternates(v, Append(main, b), users[u], u)
    BY <1>0, <2>1, AlternatesPush
  <2> QED BY <2>2 DEF Alternate
<1> QED BY <1>1, <1>2, <1>3, <1>4, <1>5 DEF IInv

LEMMA RunsView == ASSUME IInv, run_view PROVE IInv' /\ Views(Head(main), v')
<1> DEFINE b == Head(main)
<1>0. /\ Types /\ main \in Seq(MainTask) /\ main # <<>> /\ main' = Tail(main) /\ v' = viewed(b)
      /\ b.op \notin Messages /\ UNCHANGED <<board, users, sdk, finger, members, quit, lost>>
  BY DEF IInv, Types, run_view
<1>1. /\ Tail(main) \in Seq(MainTask) /\ Len(main) \in Nat \ {0} /\ Len(Tail(main)) = Len(main) - 1
      /\ b = main[1] /\ b \in MainTask
      /\ \A i \in 1 .. Len(main) - 1 : Tail(main)[i] = main[i + 1]
  BY <1>0, Popped
<1>2. Views(b, v')
  <2>1. b.op \in Drawing \/ b.op \in Turning \/ b.op \in Setting
    BY <1>0, <1>1 DEF MainTask
  <2> HIDE DEF b
  <2> QED BY <1>0, <1>1, <2>1, ViewsDrawing, ViewsTurning, ViewsSetting DEF b
<1> HIDE DEF b
<1>3. Types'
  BY <1>0, <1>1 DEF Types
<1>4. Good(v, Excused)'
  BY <1>0, <1>2 DEF Views, Excused
<1>5. Pending'
  <2>1. \A i \in 1 .. Len(main) - 1 : i + 1 \in 1 .. Len(main)
    BY <1>1
  <2> QED BY <1>0, <1>1, <1>2, <2>1 DEF IInv, Pending, Views
<1>6. Sending'
  BY <1>0, <1>2 DEF IInv, Sending, Draft, Views
<1>7. \A u \in User : Roster(u)'
  BY <1>0 DEF IInv, Roster, Present
<1>8. ASSUME NEW u \in User \ quit' PROVE Alternate(u)'
  <2>1. Alternates(v, main, users[u], u)
    BY <1>0 DEF IInv, Alternate
  <2>2. (Line(v', u) => Line(v, u) \/ Head(main) \in Begins(u)) /\ (Head(main) \in Ends(u) => ~Line(v', u))
    BY <1>2 DEF Views, b
  <2>3. Alternates(v', Tail(main), users[u], u)
    BY <1>0, <2>1, <2>2, AlternatesPop
  <2> QED BY <1>0, <2>3 DEF Alternate
<1> QED BY <1>2, <1>3, <1>4, <1>5, <1>6, <1>7, <1>8 DEF IInv, b

\* What a message is turned into.
Follows(b, s, line, next) ==
    \/ s = <<>> /\ next = line
    \/ \E x \in MainTask :
          /\ s = <<x>> /\ x.op # "loaded"
          /\ \A u \in User : \/ u # b.by /\ x \notin Begins(u) \cup Ends(u)
                             \/ u = b.by /\ x \in Ends(u)
                             \/ u = b.by /\ x \notin Begins(u) /\ (line = "drawing" => next = "drawing")
    \/ \E x \in MainTask, y \in MainTask :
          /\ s = <<x, y>> /\ x.op = "begin" /\ y.op = "move" /\ line = "new"
          /\ \A u \in User : \/ u # b.by /\ x \notin Begins(u)
                             \/ u = b.by /\ (x \in Begins(u) => next = "drawing")

LEMMA TasksFormed ==
    /\ \A op \in {"view_clear", "view_undo", "view_redo", "next", "prev"} : simple(op) \in MainTask
    /\ \A u \in User, op \in {"text", "end", "move"}, arg \in Tool \cup {"none"} : task(op, u, arg) \in MainTask
    /\ \A u \in User, arg \in Tool \ {"text"} : task("begin", u, arg) \in MainTask
    /\ \A u \in User, ps \in Seq(NewPage), i \in Int :
           task("setinfo", u, [pages |-> ps, index |-> i]) \in MainTask
    /\ \A o \in Nat, ok \in BOOLEAN : task("loaded", "local", [page |-> o, ok |-> ok]) \in MainTask
    /\ \A op \in {"lock", "unlock"} : simple(op) \in MainTask
    /\ \A mode \in Tool : task("mode", "local", mode) \in MainTask
<1> USE DEF MainTask, WellFormed, Messages, Drawing, Turning, Setting, Names, task, simple
<1>1. \A op \in {"view_clear", "view_undo", "view_redo", "next", "prev", "lock", "unlock"} : simple(op) \in MainTask
  OBVIOUS
<1>2. \A u \in User, op \in {"text", "end", "move"}, arg \in Tool \cup {"none"} : task(op, u, arg) \in MainTask
  OBVIOUS
<1>3. \A u \in User, arg \in Tool \ {"text"} : task("begin", u, arg) \in MainTask
  OBVIOUS
<1>4. \A u \in User, ps \in Seq(NewPage), i \in Int :
           task("setinfo", u, [pages |-> ps, index |-> i]) \in MainTask
  OBVIOUS
<1>5. \A o \in Nat, ok \in BOOLEAN : task("loaded", "local", [page |-> o, ok |-> ok]) \in MainTask
  OBVIOUS
<1>6. \A mode \in Tool : task("mode", "local", mode) \in MainTask
  OBVIOUS
<1> QED BY <1>1, <1>2, <1>3, <1>4, <1>5, <1>6

LEMMA MessageFollows ==
    ASSUME Types, NEW b \in MainTask, b.op \in Messages
    PROVE  /\ users[b.by] = Gone => handleWhiteBoardMessage(b) = <<>>
           /\ users[b.by] # Gone => /\ Follows(b, handleWhiteBoardMessage(b), users[b.by], newLine(b, users[b.by]))
                                    /\ newLine(b, users[b.by]) \in {"new", "drawing"}
<1> DEFINE s == handleWhiteBoardMessage(b)
           line == users[b.by]
           next == newLine(b, line)
<1>0. /\ b.by \in User /\ WellFormed(b) /\ "local" \notin User
      /\ users[b.by] \in {Gone, "new", "drawing"}
  BY ViewAssumption DEF MainTask, WellFormed, Types
<1>1. CASE line = Gone
  BY <1>1 DEF handleWhiteBoardMessage
<1>2. line # Gone => line \in {"new", "drawing"} /\ next \in {"new", "drawing"}
  BY <1>0 DEF newLine
<1>3. ASSUME line # Gone PROVE Follows(b, s, line, next)
  <2>1. ASSUME NEW x \in MainTask, s = <<x>>, x.op \notin {"begin", "end", "loaded"}, next = line
        PROVE  Follows(b, s, line, next)
    <3>1. \A u : x \notin Begins(u) \cup Ends(u)
      BY <2>1 DEF Begins, Ends
    <3> HIDE DEF s, line, next
    <3> QED BY <2>1, <3>1 DEF Follows
  <2>2. CASE b.op = "drawing" /\ b.arg = "text"
    <3>1. s = <<task("text", b.by, "text")>> /\ next = line
      BY <1>3, <2>2 DEF handleWhiteBoardMessage, handleDrawing, newLine
    <3>2. task("text", b.by, "text") \in MainTask
      BY <1>0, TasksFormed DEF Tool
    <3> QED BY <2>1, <3>1, <3>2 DEF task
  <2>3. CASE b.op = "drawing" /\ b.arg # "text" /\ line = "new"
    <3> DEFINE x == task("begin", b.by, b.arg)
               y == task("move", b.by, b.arg)
    <3>1. s = <<x, y>>
      BY <1>3, <2>3 DEF handleWhiteBoardMessage, handleDrawing
    <3>2. b.arg \in Tool \ {"text"}
      BY <1>0, <2>3 DEF WellFormed
    <3>3. x \in MainTask /\ y \in MainTask /\ x.op = "begin" /\ y.op = "move"
      BY <1>0, <3>2, TasksFormed DEF task
    <3>4. \A u \in User : x \in Begins(u) => u = b.by /\ next = "drawing"
      BY <2>3, <3>2 DEF Begins, task, newLine, Tool
    <3> HIDE DEF s, line, next, x, y
    <3> QED BY <2>3, <3>1, <3>3, <3>4 DEF Follows
  <2>4. CASE b.op = "drawing" /\ b.arg # "text" /\ line # "new"
    <3>1. s = <<task("move", b.by, b.arg)>> /\ next = line
      BY <1>2, <1>3, <2>4 DEF handleWhiteBoardMessage, handleDrawing, newLine
    <3>2. task("move", b.by, b.arg) \in MainTask
      BY <1>0, <2>4, TasksFormed DEF WellFormed
    <3> QED BY <2>1, <3>1, <3>2 DEF task
  <2>5. CASE b.op = "savedata"
    <3> DEFINE x == task("end", b.by, "none")
    <3>1. s = <<x>>
      BY <1>3, <2>5 DEF handleWhiteBoardMessage, handleSaveData
    <3>2. x \in MainTask /\ x.op # "loaded" /\ x \in Ends(b.by)
      BY <1>0, TasksFormed DEF task, Ends
    <3>3. \A u \in User : u # b.by => x \notin Begins(u) \cup Ends(u)
      BY DEF Begins, Ends, task
    <3> HIDE DEF s, line, next, x
    <3> QED BY <3>1, <3>2, <3>3 DEF Follows
  <2>6. CASE b.op = "info"
    <3> DEFINE x == task("setinfo", b.by, [pages |-> cacheWhiteBoardItems(b.by, b.arg), index |-> b.arg.index])
    <3>1. s = <<x>> /\ next = line
      BY <1>3, <2>6 DEF handleWhiteBoardMessage, handleBoardInfo, newLine
    <3>2. b.arg \in Info /\ b.arg.index \in Int
      BY <1>0, <2>6 DEF WellFormed, Info
    <3>3. cacheWhiteBoardItems(b.by, b.arg) \in Seq(NewPage)
      BY <1>0, <3>2, CachesPages
    <3>4. x \in MainTask
      BY <1>0, <3>2, <3>3, TasksFormed
    <3> QED BY <2>1, <3>1, <3>4 DEF task
  <2>7. CASE b.op \in {"clear", "undo", "redo", "nextpage", "prepage"}
    <3>1. PICK op \in {"view_clear", "view_undo", "view_redo", "next", "prev"} : s = <<simple(op)>>
      BY <1>3, <2>7 DEF handleWhiteBoardMessage
    <3>2. next = line
      BY <2>7 DEF newLine
    <3>3. simple(op) \in MainTask /\ simple(op).op = op
      BY TasksFormed DEF simple, task
    <3> QED BY <2>1, <3>1, <3>2, <3>3
  <2> QED BY <2>2, <2>3, <2>4, <2>5, <2>6, <2>7 DEF Messages
<1> QED BY <1>1, <1>2, <1>3

\* What a message is turned into goes to the end of the queue.
LEMMA FollowsPush ==
    ASSUME NEW q \in Seq(MainTask), NEW b, NEW s, NEW line, NEW next, next \in {"new", "drawing"},
           Follows(b, s, line, next),
           \A i \in 1 .. Len(q) : q[i].op = "loaded" => q[i].arg.page \in DOMAIN v.page,
           NEW u \in User
    PROVE  /\ q \o s \in Seq(MainTask)
           /\ \A i \in 1 .. Len(q \o s) : (q \o s)[i].op = "loaded" => (q \o s)[i].arg.page \in DOMAIN v.page
           /\ u # b.by => \A l : Alternates(v, q, l, u) => Alternates(v, q \o s, l, u)
           /\ u = b.by => (Alternates(v, q, line, u) => Alternates(v, q \o s, next, u))
<1> DEFINE Fine(t) == \A i \in 1 .. Len(t) : t[i].op = "loaded" => t[i].arg.page \in DOMAIN v.page
<1>0. ASSUME NEW t \in Seq(MainTask), Fine(t), NEW x \in MainTask, x.op # "loaded"
      PROVE  Append(t, x) \in Seq(MainTask) /\ Fine(Append(t, x))
  <2>1. /\ Append(t, x) \in Seq(MainTask) /\ Len(t) \in Nat /\ Len(Append(t, x)) = Len(t) + 1
        /\ Append(t, x)[Len(t) + 1] = x /\ \A i \in 1 .. Len(t) : Append(t, x)[i] = t[i]
    BY Pushed
  <2>2. \A i \in 1 .. Len(t) + 1 : i \in 1 .. Len(t) \/ i = Len(t) + 1
    BY <2>1
  <2> QED BY <1>0, <2>1, <2>2
<1>1. Fine(q)
  OBVIOUS
<1> HIDE DEF Fine
<1>2. CASE s = <<>> /\ next = line
  <2>1. q \o s = q
    BY <1>2, ConcatEmptySeq
  <2> QED BY <1>1, <1>2, <2>1 DEF Fine
<1>3. ASSUME NEW x \in MainTask, s = <<x>>, x.op # "loaded",
             \/ u # b.by /\ x \notin Begins(u) \cup Ends(u)
             \/ u = b.by /\ x \in Ends(u)
             \/ u = b.by /\ x \notin Begins(u) /\ (line = "drawing" => next = "drawing")
      PROVE  /\ q \o s \in Seq(MainTask) /\ Fine(q \o s)
             /\ u # b.by => \A l : Alternates(v, q, l, u) => Alternates(v, q \o s, l, u)
             /\ u = b.by => (Alternates(v, q, line, u) => Alternates(v, q \o s, next, u))
  <2>1. q \o s = Append(q, x)
    BY <1>3, Appended
  <2>2. Append(q, x) \in Seq(MainTask) /\ Fine(Append(q, x))
    BY <1>0, <1>1, <1>3
  <2>3. ASSUME NEW l, u # b.by, Alternates(v, q, l, u) PROVE Alternates(v, Append(q, x), l, u)
    BY <1>3, <2>3, AlternatesPush
  <2>4. ASSUME u = b.by, Alternates(v, q, line, u) PROVE Alternates(v, Append(q, x), next, u)
    BY <1>3, <2>4, AlternatesPush
  <2> QED BY <2>1, <2>2, <2>3, <2>4
<1>4. ASSUME NEW x \in MainTask, NEW y \in MainTask, s = <<x, y>>, x.op = "begin", y.op = "move", line = "new",
             \/ u # b.by /\ x \notin Begins(u)
             \/ u = b.by /\ (x \in Begins(u) => next = "drawing")
      PROVE  /\ q \o s \in Seq(MainTask) /\ Fine(q \o s)
             /\ u # b.by => \A l : Alternates(v, q, l, u) => Alternates(v, q \o s, l, u)
             /\ u = b.by => (Alternates(v, q, line, u) => Alternates(v, q \o s, next, u))
  <2> DEFINE p == Append(q, x)
  <2>1. q \o s = Append(p, y)
    BY <1>4, Appended
  <2>2. p \in Seq(MainTask) /\ Fine(p) /\ Append(p, y) \in Seq(MainTask) /\ Fine(Append(p, y))
    BY <1>0, <1>1, <1>4
  <2>3. y \notin Begins(u) \cup Ends(u)
    BY <1>4 DEF Begins, Ends
  <2>4. ASSUME NEW l, u # b.by, Alternates(v, q, l, u) PROVE Alternates(v, Append(p, y), l, u)
    <3>1. Alternates(v, p, l, u)
      BY <1>4, <2>4, AlternatesPush
    <3> HIDE DEF p
    <3> QED BY <2>2, <2>3, <3>1, AlternatesPush
  <2>5. ASSUME u = b.by, Alternates(v, q, line, u) PROVE Alternates(v, Append(p, y), next, u)
    <3>1. Alternates(v, p, next, u)
      BY <1>4, <2>5, AlternatesPush
    <3> HIDE DEF p
    <3> QED BY <2>2, <2>3, <3>1, AlternatesPush
  <2> QED BY <2>1, <2>2, <2>4, <2>5
<1>5. /\ q \o s \in Seq(MainTask) /\ Fine(q \o s)
      /\ u # b.by => \A l : Alternates(v, q, l, u) => Alternates(v, q \o s, l, u)
      /\ u = b.by => (Alternates(v, q, line, u) => Alternates(v, q \o s, next, u))
  <2>1. \/ s = <<>> /\ next = line
        \/ \E x \in MainTask :
              /\ s = <<x>> /\ x.op # "loaded"
              /\ \/ u # b.by /\ x \notin Begins(u) \cup Ends(u)
                 \/ u = b.by /\ x \in Ends(u)
                 \/ u = b.by /\ x \notin Begins(u) /\ (line = "drawing" => next = "drawing")
        \/ \E x \in MainTask, y \in MainTask :
              /\ s = <<x, y>> /\ x.op = "begin" /\ y.op = "move" /\ line = "new"
              /\ \/ u # b.by /\ x \notin Begins(u)
                 \/ u = b.by /\ (x \in Begins(u) => next = "drawing")
    BY DEF Follows
  <2>2. CASE s = <<>> /\ next = line
    BY <1>2, <2>2 DEF Fine
  <2>3. CASE \E x \in MainTask :
              /\ s = <<x>> /\ x.op # "loaded"
              /\ \/ u # b.by /\ x \notin Begins(u) \cup Ends(u)
                 \/ u = b.by /\ x \in Ends(u)
                 \/ u = b.by /\ x \notin Begins(u) /\ (line = "drawing" => next = "drawing")
    BY <1>3, <2>3
  <2>4. CASE \E x \in MainTask, y \in MainTask :
              /\ s = <<x, y>> /\ x.op = "begin" /\ y.op = "move" /\ line = "new"
              /\ \/ u # b.by /\ x \notin Begins(u)
                 \/ u = b.by /\ (x \in Begins(u) => next = "drawing")
    BY <1>4, <2>4
  <2> QED BY <2>1, <2>2, <2>3, <2>4
<1> QED BY <1>5 DEF Fine

LEMMA RunsMessage == ASSUME IInv, run_message PROVE IInv'
<1> DEFINE b == Head(main)
           s == handleWhiteBoardMessage(b)
           line == users[b.by]
           next == newLine(b, line)
           q == Tail(main)
<1>0. /\ Types /\ main \in Seq(MainTask) /\ main # <<>> /\ main' = q \o s /\ b.op \in Messages
      /\ users' = IF line = Gone THEN users ELSE [users EXCEPT ![b.by] = next]
      /\ UNCHANGED <<v, board, sdk, finger, members, quit, lost>>
  BY DEF IInv, Types, run_message
<1>1. /\ q \in Seq(MainTask) /\ Len(main) \in Nat \ {0} /\ Len(q) = Len(main) - 1
      /\ b = main[1] /\ b \in MainTask
      /\ \A i \in 1 .. Len(main) - 1 : q[i] = main[i + 1]
  BY <1>0, Popped
<1> HIDE DEF q
<1>2. /\ b.by \in User /\ users \in [User -> {Gone, "new", "drawing"}]
      /\ \A u : b \notin Begins(u) \cup Ends(u)
  BY <1>0, <1>1 DEF MainTask, WellFormed, Types, Begins, Ends, Messages
<1> HIDE DEF b
<1>3. \A i \in 1 .. Len(q) : q[i].op = "loaded" => q[i].arg.page \in DOMAIN v.page
  <2>1. \A i \in 1 .. Len(main) - 1 : i + 1 \in 1 .. Len(main)
    BY <1>1
  <2> QED BY <1>1, <2>1 DEF IInv, Pending
<1>4. ASSUME NEW u \in User \ quit PROVE Alternates(v, q, users[u], u)
  <2>1. Alternates(v, main, users[u], u)
    BY DEF IInv, Alternate
  <2>2. Head(main) \notin Begins(u) \cup Ends(u)
    BY <1>2 DEF b
  <2> QED BY <1>0, <2>1, <2>2, AlternatesPop DEF q
<1>5. /\ main' \in Seq(MainTask)
      /\ \A i \in 1 .. Len(main') : main'[i].op = "loaded" => main'[i].arg.page \in DOMAIN v.page
      /\ \A u \in User \ quit : Alternates(v, main', users'[u], u)
      /\ users' \in [User -> {Gone, "new", "drawing"}]
      /\ \A u \in User : users'[u] # Gone <=> users[u] # Gone
  <2>1. CASE line = Gone
    <3>1. s = <<>> /\ main' = q /\ users' = users
      <4>1. s = <<>>
        BY <1>0, <1>1, <2>1, MessageFollows
      <4> QED BY <1>0, <1>1, <2>1, <4>1, ConcatEmptySeq
    <3> QED BY <1>1, <1>2, <1>3, <1>4, <3>1
  <2>2. CASE line # Gone
    <3>1. Follows(b, s, line, next) /\ next \in {"new", "drawing"}
      BY <1>0, <1>1, <2>2, MessageFollows
    <3>2. users' = [users EXCEPT ![b.by] = next]
      BY <1>0, <2>2
    <3> HIDE DEF s, next
    <3>3. /\ main' \in Seq(MainTask)
          /\ \A i \in 1 .. Len(main') : main'[i].op = "loaded" => main'[i].arg.page \in DOMAIN v.page
      BY <1>0, <1>1, <1>2, <1>3, <3>1, FollowsPush
    <3>4. ASSUME NEW u \in User \ quit PROVE Alternates(v, main', users'[u], u)
      <4>1. CASE u # b.by
        <5>1. users'[u] = users[u]
          BY <1>2, <3>2, <4>1
        <5>2. Alternates(v, q \o s, users[u], u)
          BY <1>1, <1>3, <1>4, <3>1, <4>1, FollowsPush
        <5> QED BY <1>0, <5>1, <5>2
      <4>2. CASE u = b.by
        <5>1. users'[u] = next
          BY <1>2, <3>2, <4>2
        <5>2. Alternates(v, q \o s, next, u)
          BY <1>1, <1>3, <1>4, <3>1, <4>2, FollowsPush
        <5> QED BY <1>0, <5>1, <5>2
      <4> QED BY <4>1, <4>2
    <3>5. users' \in [User -> {Gone, "new", "drawing"}] /\ \A u \in User : users'[u] # Gone <=> users[u] # Gone
      BY <1>2, <2>2, <3>1, <3>2 DEF Gone
    <3> QED BY <3>3, <3>4, <3>5
  <2> QED BY <2>1, <2>2
<1>6. Types'
  BY <1>0, <1>5 DEF Types
<1>7. Good(v, Excused)' /\ Pending' /\ Sending'
  BY <1>0, <1>5 DEF IInv, Pending, Sending, Draft, Excused
<1>8. \A u \in User : Roster(u)'
  BY <1>0, <1>5 DEF IInv, Roster, Present
<1>9. \A u \in User \ quit' : Alternate(u)'
  BY <1>0, <1>5 DEF Alternate
<1> QED BY <1>6, <1>7, <1>8, <1>9 DEF IInv

\* More is excused.
LEMMA KeptMore ==
    ASSUME NEW w, NEW Q, NEW R, Q.quit \subseteq R.quit, Q.lost \subseteq R.lost, Good(w, Q),
           \/ Q.finger => R.finger
           \/ \A l \in Open(w) : w.layers[l].by = "local" /\ w.layers[l].seg => l \in R.lost
    PROVE  Good(w, R)
<1>1. Kept(w, R)
  BY DEF Good, Sound, Kept
<1>2. Touched(w, R)
  BY DEF Good, Touched
<1> QED BY <1>1, <1>2 DEF Good, Sound

LEMMA RunsSdk == ASSUME IInv, NEW ok \in BOOLEAN, run_sdk(ok) PROVE IInv'
<1> DEFINE b == Head(sdk)
<1>0. /\ Types /\ sdk \in Seq(SdkTask) /\ main \in Seq(MainTask) /\ sdk # <<>> /\ sdk' = Tail(sdk)
      /\ handled(b, ok) /\ UNCHANGED <<v, finger, members, lost>>
  BY DEF IInv, Types, run_sdk
<1>1. Tail(sdk) \in Seq(SdkTask) /\ b \in SdkTask
  BY <1>0, Popped
<1> HIDE DEF b
<1>2. board' \in [registered : BOOLEAN, sink : BOOLEAN, sent : {"none", "drawing", "savedata", "failed"}]
      /\ (b \in Finals => ~Draft') /\ (b \notin Drafts \cup Finals => (Draft' => Draft))
  <2>0. board \in [registered : BOOLEAN, sink : BOOLEAN, sent : {"none", "drawing", "savedata", "failed"}]
    BY <1>0 DEF Types
  <2>1. CASE b.op = "join"
    <3>1. board' = board_joinInternal(board, ok) /\ b \notin Finals
      BY <1>0, <2>1 DEF handled, Finals
    <3> QED BY <2>0, <3>1 DEF board_joinInternal, Draft
  <2>2. CASE b.op = "leave"
    <3>1. board' = board_leaveInternal(board) /\ b \notin Finals
      BY <1>0, <2>2 DEF handled, Finals
    <3> QED BY <2>0, <3>1 DEF board_leaveInternal, Draft
  <2>3. CASE b.op = "send"
    <3>1. board' = sendDataInternal(board, b.arg, ok) /\ b.arg \in {"none", "drawing", "savedata"}
          /\ (b \in Drafts <=> b.arg = "drawing")
      BY <1>0, <1>1, <2>3 DEF handled, SdkTask, Drafts
    <3> QED BY <2>0, <3>1 DEF sendDataInternal, Draft, Finals
  <2>4. CASE b.op \notin {"join", "leave", "send"}
    <3>1. board' = sendDataInternal(board, "other", ok) /\ b \notin Finals
      BY <1>0, <2>4 DEF handled, Finals
    <3> QED BY <2>0, <3>1 DEF sendDataInternal, Draft
  <2> QED BY <2>1, <2>2, <2>3, <2>4
<1>3. /\ users' \in [User -> {Gone, "new", "drawing"}] /\ quit \subseteq quit' /\ quit' \in SUBSET User
      /\ \A u \in User : b \notin Joins(u) \cup Leaves(u) => users'[u] = users[u]
      /\ \A u \in User : b \in Joins(u) => users'[u] = "new"
      /\ \A u \in User : b \in Leaves(u) => users'[u] = Gone /\ (users[u] = "drawing" => u \in quit')
  <2>0. users \in [User -> {Gone, "new", "drawing"}] /\ quit \in SUBSET User
    BY <1>0 DEF Types
  <2>1. CASE b.op = "joined"
    <3>1. users' = [users EXCEPT ![b.by] = "new"] /\ b.by \in User /\ quit' = quit
      BY <1>0, <1>1, <2>1 DEF handled, SdkTask
    <3> QED BY <1>1, <2>0, <2>1, <3>1 DEF Joins, Leaves
  <2>2. CASE b.op = "left"
    <3>1. users' = [users EXCEPT ![b.by] = Gone] /\ b.by \in User
          /\ quit' = IF users[b.by] = "drawing" THEN quit \cup {b.by} ELSE quit
      BY <1>0, <1>1, <2>2 DEF handled, SdkTask
    <3> QED BY <1>1, <2>0, <2>2, <3>1 DEF Joins, Leaves
  <2>3. CASE b.op \notin {"joined", "left"}
    <3>1. users' = users /\ quit' = quit
      BY <1>0, <2>3 DEF handled
    <3> QED BY <2>0, <2>3, <3>1 DEF Joins, Leaves
  <2> QED BY <2>1, <2>2, <2>3
<1>4. main' = main \/ \E op \in {"view_clear", "view_undo", "view_redo"} : main' = Append(main, simple(op))
  BY <1>0 DEF handled, view_call
<1>5. ASSUME NEW u \in User PROVE Roster(u)' /\ (b \in Joins(u) => ~Present(u))
  <2>1. Roster(u) /\ (b \in Leaves(u) => ~Present(u)')
        /\ (b \notin Joins(u) \cup Leaves(u) => (Present(u)' => Present(u)))
    BY <1>3 DEF IInv, Present
  <2> QED BY <1>0, <2>1, RosterPop DEF b
<1>6. Sending'
  <2>1. ~v.drawing => Closed(sdk, Draft, Drafts, Finals)
    BY DEF IInv, Sending
  <2>2. Drafts \cap Finals = {} /\ Draft \in BOOLEAN /\ Draft' \in BOOLEAN
    BY DEF Drafts, Finals, Draft
  <2>3. ~v.drawing => Closed(Tail(sdk), Draft', Drafts, Finals)
    <3> DEFINE A == Drafts
               B == Finals
               open == Draft
               o == Draft'
    <3>1. /\ A \cap B = {} /\ open \in BOOLEAN /\ o \in BOOLEAN /\ (~v.drawing => Closed(sdk, open, A, B))
          /\ (Head(sdk) \in B => ~o) /\ (Head(sdk) \notin A \cup B => (o => open))
      BY <1>2, <2>1, <2>2 DEF b
    <3> HIDE DEF A, B, open, o
    <3>2. ~v.drawing => Closed(Tail(sdk), o, A, B)
      BY <1>0, <3>1, ClosedPop
    <3> QED BY <3>2 DEF A, B, o
  <2> QED BY <1>0, <2>3 DEF IInv, Sending
<1>7. /\ main' \in Seq(MainTask)
      /\ \A i \in 1 .. Len(main') : main'[i].op = "loaded" => main'[i].arg.page \in DOMAIN v.page
      /\ \A u \in User : \A l : Alternates(v, main, l, u) => Alternates(v, main', l, u)
  <2>1. CASE main' = main
    BY <1>0, <2>1 DEF IInv, Pending
  <2>2. ASSUME NEW op \in {"view_clear", "view_undo", "view_redo"}, main' = Append(main, simple(op))
        PROVE  /\ main' \in Seq(MainTask)
               /\ \A i \in 1 .. Len(main') : main'[i].op = "loaded" => main'[i].arg.page \in DOMAIN v.page
               /\ \A u \in User : \A l : Alternates(v, main, l, u) => Alternates(v, main', l, u)
    <3> DEFINE x == simple(op)
    <3>1. x \in MainTask /\ x.op # "loaded" /\ \A u \in User : x \notin Begins(u)
      BY TasksFormed DEF simple, task, Begins
    <3> HIDE DEF x
    <3>2. /\ Append(main, x) \in Seq(MainTask) /\ Len(main) \in Nat /\ Len(Append(main, x)) = Len(main) + 1
          /\ Append(main, x)[Len(main) + 1] = x /\ \A i \in 1 .. Len(main) : Append(main, x)[i] = main[i]
      BY <1>0, <3>1, Pushed
    <3>3. \A i \in 1 .. Len(main) + 1 : i \in 1 .. Len(main) \/ i = Len(main) + 1
      BY <3>2
    <3>4. \A i \in 1 .. Len(main') : main'[i].op = "loaded" => main'[i].arg.page \in DOMAIN v.page
      BY <2>2, <3>1, <3>2, <3>3 DEF x, IInv, Pending
    <3>5. \A u \in User : \A l : Alternates(v, main, l, u) => Alternates(v, Append(main, x), l, u)
      BY <1>0, <3>1, AlternatesPush
    <3> QED BY <2>2, <3>2, <3>4, <3>5 DEF x
  <2> QED BY <1>4, <2>1, <2>2
<1>8. Types'
  BY <1>0, <1>1, <1>2, <1>3, <1>7 DEF Types
<1>9. Good(v, Excused)'
  <2> DEFINE Q == Excused
             R == Excused'
  <2>1. Q.quit \subseteq R.quit /\ Q.lost \subseteq R.lost /\ (Q.finger => R.finger) /\ Good(v, Q) /\ v' = v
    BY <1>0, <1>3 DEF IInv, Excused
  <2> HIDE DEF Q, R
  <2>2. Good(v, R)
    BY <2>1, KeptMore
  <2> QED BY <2>1, <2>2 DEF R
<1>10. Pending'
  BY <1>0, <1>7 DEF Pending
<1>11. ASSUME NEW u \in User \ quit' PROVE Alternate(u)'
  <2>1. Alternates(v, main, users[u], u)
    BY <1>3 DEF IInv, Alternate
  <2>2. users[u] = "drawing" => users'[u] = "drawing"
    BY <1>3, <1>5 DEF Present, Gone
  <2>3. Alternates(v, main, users'[u], u)
    BY <2>1, <2>2, AlternatesLess
  <2>4. Alternates(v, main', users'[u], u)
    BY <1>7, <2>3
  <2> QED BY <1>0, <2>4 DEF Alternate
<1> QED BY <1>5, <1>6, <1>8, <1>9, <1>10, <1>11 DEF IInv

\* An image arrives, or fails to.
LEMMA Removed ==
    ASSUME NEW q \in Seq(Nat), NEW i \in 1 .. Len(q)
    PROVE  /\ RemoveAt(q, i) \in Seq(Nat)
           /\ \A j \in DOMAIN RemoveAt(q, i) : \E k \in DOMAIN q : RemoveAt(q, i)[j] = q[k]
           /\ Len(q) = 1 => RemoveAt(q, i) = <<>>
<1> DEFINE n == Len(q)
           s == SubSeq(q, 1, i - 1)
           t == SubSeq(q, i + 1, n)
<1>1. n \in Nat /\ i \in 1 .. n /\ DOMAIN q = 1 .. n /\ \A k \in 1 .. n : q[k] \in Nat
  BY ElementOfSeq
<1>2. s \in Seq(Nat) /\ Len(s) = i - 1 /\ \A k \in 1 .. i - 1 : s[k] = q[k]
  <2>1. \A k \in 1 .. i - 1 : k \in 1 .. n
    BY <1>1
  <2> QED BY <1>1, <2>1
<1>3. t \in Seq(Nat) /\ Len(t) = n - i /\ \A k \in 1 .. n - i : t[k] = q[k + i]
  <2>1. \A k \in i + 1 .. n : q[k] \in Nat
    BY <1>1
  <2>2. i + 1 \in Int /\ n \in Int
    BY <1>1
  <2> HIDE DEF n
  <2>3. /\ SubSeq(q, i + 1, n) \in Seq(Nat)
        /\ Len(SubSeq(q, i + 1, n)) = IF i + 1 <= n THEN n - (i + 1) + 1 ELSE 0
        /\ \A k \in 1 .. n - (i + 1) + 1 : SubSeq(q, i + 1, n)[k] = q[(i + 1) + k - 1]
    BY <2>1, <2>2, SubSeqProperties
  <2>4. n - (i + 1) + 1 = n - i /\ (i + 1 <= n \/ n - i = 0) /\ \A k \in 1 .. n - i : (i + 1) + k - 1 = k + i
    BY <1>1
  <2> QED BY <1>1, <2>3, <2>4
<1>4. RemoveAt(q, i) = s \o t
  BY DEF RemoveAt
<1> HIDE DEF s, t, n
<1>5. /\ s \o t \in Seq(Nat) /\ Len(s \o t) = n - 1
      /\ \A k \in 1 .. n - 1 : (s \o t)[k] = IF k <= i - 1 THEN s[k] ELSE t[k - (i - 1)]
  <2>1. /\ s \o t \in Seq(Nat) /\ Len(s \o t) = Len(s) + Len(t)
        /\ \A k \in 1 .. Len(s) + Len(t) : (s \o t)[k] = IF k <= Len(s) THEN s[k] ELSE t[k - Len(s)]
    BY <1>2, <1>3, ConcatProperties
  <2>2. Len(s) + Len(t) = n - 1
    BY <1>1, <1>2, <1>3
  <2> QED BY <1>2, <2>1, <2>2
<1>6. ASSUME NEW j \in 1 .. n - 1 PROVE \E k \in 1 .. n : (s \o t)[j] = q[k]
  <2>1. CASE j <= i - 1
    BY <1>1, <1>2, <1>5, <2>1
  <2>2. CASE ~(j <= i - 1)
    <3>1. j - (i - 1) \in 1 .. n - i /\ (j - (i - 1)) + i = j + 1 /\ j + 1 \in 1 .. n
      BY <1>1, <2>2
    <3>2. (s \o t)[j] = t[j - (i - 1)]
      BY <1>5, <2>2
    <3>3. t[j - (i - 1)] = q[j + 1]
      BY <1>3, <3>1
    <3> QED BY <3>1, <3>2, <3>3
  <2> QED BY <2>1, <2>2
<1>7. DOMAIN (s \o t) = 1 .. n - 1
  BY <1>5, LenProperties
<1>8. n = 1 => s \o t = <<>>
  BY <1>5, EmptySeq
<1> QED BY <1>1, <1>4, <1>5, <1>6, <1>7, <1>8 DEF n

LEMMA DocFetched ==
    ASSUME IInv, NEW ok \in BOOLEAN, NEW i \in 1 .. Len(v.loads),
           main' = Append(main, task("loaded", "local", [page |-> v.loads[i], ok |-> ok])),
           v' = [v EXCEPT !.loads = RemoveAt(@, i)],
           UNCHANGED <<board, users, sdk, finger, members, quit, lost>>
    PROVE  /\ IInv' /\ Shown(v, v') /\ v'.loads = RemoveAt(v.loads, i)
           /\ v'.pages = v.pages /\ v'.index = v.index
<1> DEFINE x == [v EXCEPT !.loads = RemoveAt(@, i)]
           b == task("loaded", "local", [page |-> v.loads[i], ok |-> ok])
<1>0. /\ Types /\ main \in Seq(MainTask) /\ v \in ViewRec /\ v.loads \in Seq(Nat) /\ Sound(v, Excused) /\ Touched(v, Excused)
      /\ (\A k \in DOMAIN v.pages : v.pages[k] \in DOMAIN v.page)
      /\ \A k \in DOMAIN v.loads : v.loads[k] \in DOMAIN v.page
  BY DEF IInv, Types, Good, Sound, Typed, Scoped, ViewRec
<1>1. /\ RemoveAt(v.loads, i) \in Seq(Nat) /\ v.loads[i] \in DOMAIN v.page /\ v.loads[i] \in Nat
      /\ \A j \in DOMAIN RemoveAt(v.loads, i) : RemoveAt(v.loads, i)[j] \in DOMAIN v.page
  BY <1>0, Removed, ElementOfSeq
<1>2. /\ x \in ViewRec /\ Shown(v, x) /\ x.pages = v.pages /\ x.index = v.index /\ x.drawing = v.drawing
      /\ x.loads = RemoveAt(v.loads, i)
  BY <1>0, <1>1 DEF ViewRec, Shown
<1> HIDE DEF x
<1>3. Sound(x, Excused) /\ Open(x) = Open(v) /\ \A y \in Names : Line(x, y) <=> Line(v, y)
  BY <1>0, <1>1, <1>2, ShownSound
<1>4. Good(x, Excused)
  BY <1>0, <1>2, <1>3 DEF Good, Touched, Shown
<1>5. /\ b \in MainTask /\ b.op = "loaded" /\ b.arg.page \in DOMAIN v.page /\ \A u : b \notin Begins(u) \cup Ends(u)
  BY <1>1, TasksFormed DEF task, Begins, Ends
<1> HIDE DEF b
<1>6. /\ Append(main, b) \in Seq(MainTask) /\ Len(main) \in Nat /\ Len(Append(main, b)) = Len(main) + 1
      /\ Append(main, b)[Len(main) + 1] = b /\ \A k \in 1 .. Len(main) : Append(main, b)[k] = main[k]
  BY <1>0, <1>5, Pushed
<1>7. main' = Append(main, b) /\ v' = x
  BY DEF b, x
<1>8. Types'
  BY <1>0, <1>6, <1>7 DEF Types
<1>9. Pending'
  <2>1. \A k \in 1 .. Len(main) + 1 : k \in 1 .. Len(main) \/ k = Len(main) + 1
    BY <1>6
  <2> QED BY <1>2, <1>5, <1>6, <1>7, <2>1 DEF IInv, Pending, Shown
<1>10. Sending'
  BY <1>2, <1>7 DEF IInv, Sending, Draft
<1>11. \A u \in User : Roster(u)'
  BY DEF IInv, Roster, Present
<1>12. ASSUME NEW u \in User \ quit' PROVE Alternate(u)'
  <2>1. Alternates(v, main, users[u], u)
    BY DEF IInv, Alternate
  <2>2. Alternates(v, Append(main, b), users[u], u)
    BY <1>0, <1>5, <2>1, AlternatesPush
  <2>3. Alternates(x, Append(main, b), users[u], u)
    BY <1>3, <2>2, AlternatesLess DEF Names
  <2> QED BY <1>7, <2>3 DEF Alternate
<1>13. Good(v, Excused)'
  <2>1. Excused' = Excused
    BY DEF Excused
  <2> QED BY <1>4, <1>7, <2>1
<1> QED BY <1>2, <1>7, <1>8, <1>9, <1>10, <1>11, <1>12, <1>13 DEF IInv

-----------------------------------------------------------------------------
(* Touches.                                                                *)

\* What a touch leaves of the view.
Touch(x) ==
    /\ Good(x, Excused) /\ x.cur = v.cur /\ DOMAIN x.page = DOMAIN v.page
    /\ x.pages = v.pages /\ x.index = v.index /\ x.loads = v.loads
    /\ \A u \in User : Line(x, u) => Line(v, u)

LEMMA SetsDrawing ==
    ASSUME NEW w, NEW Q, Sound(w, Q), NEW d \in BOOLEAN,
           \/ d /\ Q.finger
           \/ \A k \in Open(w) : w.layers[k].by = "local" /\ w.layers[k].seg => k \in Q.lost
    PROVE  LET x == [w EXCEPT !.drawing = d] IN
           /\ Good(x, Q) /\ x.drawing = d /\ x.cur = w.cur /\ DOMAIN x.page = DOMAIN w.page
           /\ x.pages = w.pages /\ x.index = w.index /\ x.loads = w.loads
           /\ \A y \in Names : Line(x, y) <=> Line(w, y)
<1> DEFINE x == [w EXCEPT !.drawing = d]
<1>1. /\ x \in ViewRec /\ Shown(w, x) /\ x.pages = w.pages /\ x.loads = w.loads /\ x.index = w.index
      /\ x.drawing = d
  BY DEF Sound, Typed, ViewRec, Shown
<1> HIDE DEF x
<1>2. Sound(x, Q) /\ Open(x) = Open(w) /\ \A y \in Names : Line(x, y) <=> Line(w, y)
  BY <1>1, ShownSound DEF Sound, Typed, Scoped
<1>3. Touched(x, Q)
  BY <1>1, <1>2 DEF Touched, Shown
<1> QED BY <1>1, <1>2, <1>3 DEF Good, Shown, x

\* Blocks that send do not speak of members.
LEMMA RostersSend ==
    ASSUME NEW q \in Seq(SdkTask), NEW b \in SdkTask, b.op = "send", NEW u
    PROVE  /\ Append(q, b) \in Seq(SdkTask)
           /\ Paired(q, Present(u), Joins(u), Leaves(u)) => Paired(Append(q, b), Present(u), Joins(u), Leaves(u))
           /\ Closed(q, Present(u), Joins(u), Leaves(u)) => Closed(Append(q, b), Present(u), Joins(u), Leaves(u))
<1> DEFINE A == Joins(u)
           B == Leaves(u)
           open == Present(u)
<1>1. b \notin A /\ b \notin B /\ open \in BOOLEAN
  BY DEF Joins, Leaves, Present
<1> HIDE DEF A, B, open
<1>2. Append(q, b) \in Seq(SdkTask)
  BY Pushed
<1>3. Paired(q, open, A, B) => Paired(Append(q, b), open, A, B)
  BY <1>1, PairedPush
<1>4. Closed(q, open, A, B) => Closed(Append(q, b), open, A, B)
  BY <1>1, ClosedPush
<1> QED BY <1>2, <1>3, <1>4 DEF A, B, open

\* The queue after some of what is drawn was sent.
Sent(q) ==
    /\ q \in Seq(SdkTask)
    /\ \A u \in User : /\ Paired(q, Present(u), Joins(u), Leaves(u))
                       /\ u \notin members => Closed(q, Present(u), Joins(u), Leaves(u))

LEMMA Sends ==
    ASSUME NEW q, Sent(q)
    PROVE  /\ Sent(onDrawingLine(q)) /\ Sent(onDrawLineEnd(q))
           /\ Closed(onDrawLineEnd(q), Draft, Drafts, Finals)
<1>1. \A what \in {"drawing", "savedata"} :
          task("send", "local", what) \in SdkTask /\ task("send", "local", what).op = "send"
  BY DEF SdkTask, task, Names
<1>2. ASSUME NEW what \in {"drawing", "savedata"} PROVE Sent(Append(q, task("send", "local", what)))
  <2> DEFINE b == task("send", "local", what)
  <2>1. b \in SdkTask /\ b.op = "send" /\ q \in Seq(SdkTask)
    BY <1>1 DEF Sent
  <2> HIDE DEF b
  <2>2. Append(q, b) \in Seq(SdkTask)
    BY <2>1, Pushed
  <2>3. \A u \in User : /\ Paired(Append(q, b), Present(u), Joins(u), Leaves(u))
                        /\ u \notin members => Closed(Append(q, b), Present(u), Joins(u), Leaves(u))
    BY <2>1, RostersSend DEF Sent
  <2>4. Sent(Append(q, b))
    BY <2>2, <2>3 DEF Sent
  <2> QED BY <2>4 DEF b
<1>3. task("send", "local", "savedata") \in Finals /\ Draft \in BOOLEAN
  BY <1>1 DEF Finals, task, Draft
<1>4. Closed(Append(q, task("send", "local", "savedata")), Draft, Drafts, Finals)
  <2> DEFINE b == task("send", "local", "savedata")
             A == Drafts
             B == Finals
             open == Draft
  <2>1. b \in SdkTask /\ b \in B /\ open \in BOOLEAN /\ q \in Seq(SdkTask)
    BY <1>1, <1>3 DEF Sent
  <2> HIDE DEF A, B, b, open
  <2>2. Closed(Append(q, b), open, A, B)
    BY <2>1, ClosedPush
  <2> QED BY <2>2 DEF A, B, b, open
<1> QED BY <1>2, <1>4 DEF onDrawingLine, onDrawLineEnd

LEMMA TouchStep ==
    ASSUME IInv, Touch(v'), Sent(sdk'), UNCHANGED <<board, users, main, members, quit>>, finger' \in BOOLEAN,
           lost \subseteq lost', ~v'.drawing => Closed(sdk', Draft, Drafts, Finals),
           \/ finger => finger'
           \/ \A k \in Open(v') : v'.layers[k].by = "local" /\ v'.layers[k].seg => k \in lost'
    PROVE  IInv'
<1>1. Types'
  BY DEF IInv, Types, Sent
<1>2. Good(v, Excused)'
  <2> DEFINE x == v'
             Q == Excused
             R == Excused'
  <2>1. Q.quit \subseteq R.quit /\ Q.lost \subseteq R.lost /\ Good(x, Q)
    BY DEF Excused, Touch
  <2>2. \/ Q.finger => R.finger
        \/ \A k \in Open(x) : x.layers[k].by = "local" /\ x.layers[k].seg => k \in R.lost
    BY DEF Excused
  <2> HIDE DEF x, Q, R
  <2>3. Good(x, R)
    BY <2>1, <2>2, KeptMore
  <2> QED BY <2>3 DEF x, R
<1>6. Pending'
  BY DEF IInv, Touch, Pending
<1>3. Sending'
  BY DEF Sending, Draft
<1>4. \A u \in User : Roster(u)'
  BY DEF Sent, Roster, Present
<1>5. ASSUME NEW u \in User \ quit' PROVE Alternate(u)'
  <2>1. Alternates(v, main, users[u], u)
    BY DEF IInv, Alternate
  <2>2. Alternates(v', main, users[u], u)
    BY <2>1, AlternatesLess DEF Touch
  <2> QED BY <2>2 DEF Alternate
<1> QED BY <1>1, <1>2, <1>3, <1>4, <1>5, <1>6 DEF IInv

\* What is sent and what is kept of the drawing when a line moves, and ends.
LEMMA LocalMoves ==
    ASSUME IInv, finger
    PROVE  LET x == [onLineMove(v, v.mode, "local") EXCEPT !.drawing = TRUE] IN Touch(x) /\ x.drawing
<1> DEFINE y == onLineMove(v, v.mode, "local")
           x == [y EXCEPT !.drawing = TRUE]
<1>1. Draws(v, y, Excused, "none") /\ "none" \notin User
  BY MovesLine, ViewAssumption DEF IInv, Good, Names
<1> HIDE DEF y
<1>2. Sound(y, Excused) /\ Excused.finger
  BY <1>1 DEF Draws, Excused
<1>3. /\ Good(x, Excused) /\ x.drawing = TRUE /\ x.cur = y.cur /\ DOMAIN x.page = DOMAIN y.page
      /\ x.pages = y.pages /\ x.index = y.index /\ x.loads = y.loads
      /\ \A z \in Names : Line(x, z) <=> Line(y, z)
  BY <1>2, SetsDrawing
<1> HIDE DEF x
<1>4. Touch(x) /\ x.drawing
  BY <1>1, <1>3 DEF Touch, Draws, Names
<1> QED BY <1>4 DEF x, y

LEMMA LocalEnds ==
    ASSUME IInv, NEW x, Touch(x), NEW q, Sent(q), ~x.drawing => Closed(q, Draft, Drafts, Finals)
    PROVE  LET r == end_local(x, q) IN
           /\ Touch(r.v) /\ ~r.v.drawing /\ Sent(r.q) /\ Closed(r.q, Draft, Drafts, Finals)
           /\ \A k \in Open(r.v) : r.v.layers[k].by = "local" /\ r.v.layers[k].seg => k \in lost
<1> DEFINE r == end_local(x, q)
<1>1. CASE ~x.drawing
  <2>1. r.v = x /\ r.q = q
    BY <1>1 DEF end_local
  <2>2. \A k \in Open(x) : x.layers[k].by = "local" /\ x.layers[k].seg => k \in lost
    <3>1. Touched(x, Excused)
      BY DEF Touch, Good
    <3> QED BY <1>1, <3>1 DEF Touched, Excused
  <2> HIDE DEF r
  <2>3. Touch(r.v) /\ ~r.v.drawing /\ Sent(r.q) /\ Closed(r.q, Draft, Drafts, Finals)
    BY <1>1, <2>1
  <2>4. \A k \in Open(r.v) : r.v.layers[k].by = "local" /\ r.v.layers[k].seg => k \in lost
    BY <2>1, <2>2
  <2> QED BY <2>3, <2>4 DEF r
<1>2. CASE x.drawing
  <2> DEFINE y == onLineEnd(x, "local")
             z == [y EXCEPT !.drawing = FALSE]
  <2>0. Sound(x, Excused) /\ "local" \in Names /\ "none" \notin User /\ "local" \notin Excused.quit
    BY ViewAssumption DEF Touch, Good, Names, IInv, Types, Excused
  <2>1. /\ Draws(x, y, Excused, "none")
        /\ \A k \in Open(y) : y.layers[k].by = "local" /\ y.layers[k].seg => k \in Excused.lost
    BY <2>0, EndsLine
  <2> HIDE DEF y
  <2>2. Sound(y, Excused)
    BY <2>1 DEF Draws
  <2>3. /\ Good(z, Excused) /\ z.drawing = FALSE /\ z.cur = y.cur /\ DOMAIN z.page = DOMAIN y.page
        /\ z.pages = y.pages /\ z.index = y.index /\ z.loads = y.loads
        /\ \A u \in Names : Line(z, u) <=> Line(y, u)
    BY <2>1, <2>2, SetsDrawing
  <2>7. \A k \in Open(z) : z.layers[k].by = "local" /\ z.layers[k].seg => k \in lost
    BY <2>3 DEF Good, Touched, Excused
  <2> HIDE DEF z
  <2>4. Touch(z) /\ ~z.drawing
    BY <2>0, <2>1, <2>3 DEF Touch, Draws, Names
  <2>5. Sent(onDrawLineEnd(q)) /\ Closed(onDrawLineEnd(q), Draft, Drafts, Finals)
    BY Sends
  <2>6. r.v = z /\ r.q = onDrawLineEnd(q)
    BY <1>2 DEF end_local, y, z
  <2> HIDE DEF r
  <2>8. Touch(r.v) /\ ~r.v.drawing /\ Sent(r.q) /\ Closed(r.q, Draft, Drafts, Finals)
    BY <2>4, <2>5, <2>6
  <2>9. \A k \in Open(r.v) : r.v.layers[k].by = "local" /\ r.v.layers[k].seg => k \in lost
    BY <2>6, <2>7
  <2> QED BY <2>8, <2>9 DEF r
<1> QED BY <1>1, <1>2

LEMMA Touching == ASSUME IInv, Touches PROVE IInv' /\ Touch(v') /\ main' = main
<1>0. /\ Types /\ Sound(v, Excused) /\ Touched(v, Excused) /\ Sent(sdk) /\ Touch(v) /\ v.mode \in Tool
      /\ (~v.drawing => Closed(sdk, Draft, Drafts, Finals)) /\ lost \subseteq lost
  BY DEF IInv, Good, Sending, Sent, Types, Roster, Touch, Sound, Typed, ViewRec
<1>1. CASE touchesBegan
  <2>1. /\ ~finger /\ finger' = TRUE /\ UNCHANGED <<board, users, sdk, main, members, quit, lost>>
        /\ v' = IF v.lock THEN v ELSE onLineBegin(v, v.mode, "local")
    BY <1>1 DEF touchesBegan
  <2>2. CASE v' = v
    BY <1>0, <2>1, <2>2, TouchStep
  <2>3. CASE v' = onLineBegin(v, v.mode, "local") /\ v.mode # "laser"
    <3>1. "local" \in Names /\ "local" \notin User
      BY ViewAssumption DEF Names
    <3>2. \A k \in Open(v) : v.layers[k].by = "local" /\ v.layers[k].seg
                                 => "local" \in Excused.quit \/ k \in Excused.lost
      BY <1>0, <2>1 DEF Touched, Excused
    <3>3. Draws(v, v', Excused, "local") /\ Touched(v', Excused)
      BY <1>0, <2>3, <3>1, <3>2, BeginsLine
    <3>4. Touch(v') /\ v'.drawing = v.drawing
      BY <3>1, <3>3 DEF Touch, Draws, Good, Names
    <3> QED BY <1>0, <2>1, <3>4, TouchStep
  <2> QED BY <2>1, <2>2, <2>3 DEF onLineBegin
<1>2. CASE touchesMoved
  <2>1. /\ finger /\ v' = [onLineMove(v, v.mode, "local") EXCEPT !.drawing = TRUE] /\ sdk' = onDrawingLine(sdk)
        /\ UNCHANGED <<board, users, main, finger, members, quit, lost>> /\ finger' \in BOOLEAN
    BY <1>0, <1>2 DEF touchesMoved, Types
  <2>2. Touch(v') /\ v'.drawing
    BY <2>1, LocalMoves
  <2>3. Sent(sdk')
    BY <1>0, <2>1, Sends
  <2> QED BY <2>1, <2>2, <2>3, TouchStep
<1>3. CASE touchesEnded
  <2> DEFINE x == [onLineMove(v, v.mode, "local") EXCEPT !.drawing = TRUE]
             q == onDrawingLine(sdk)
  <2>1. /\ finger /\ finger' = FALSE /\ UNCHANGED <<board, users, main, members, quit, lost>>
        /\ \/ v' = end_local(v, sdk).v /\ sdk' = end_local(v, sdk).q
           \/ v' = end_local(x, q).v /\ sdk' = end_local(x, q).q
    BY <1>3 DEF touchesEnded
  <2>2. Touch(x) /\ x.drawing /\ Sent(q)
    BY <1>0, <2>1, LocalMoves, Sends
  <2> HIDE DEF x, q
  <2>3. /\ Touch(v') /\ ~v'.drawing /\ Sent(sdk') /\ Closed(sdk', Draft, Drafts, Finals)
        /\ \A k \in Open(v') : v'.layers[k].by = "local" /\ v'.layers[k].seg => k \in lost
    BY <1>0, <2>1, <2>2, LocalEnds
  <2> QED BY <2>1, <2>3, TouchStep
<1>4. CASE onPinchAction
  <2>1. /\ finger' = FALSE /\ UNCHANGED <<board, users, main, members, quit, lost>>
        /\ v' = end_local(v, sdk).v /\ sdk' = end_local(v, sdk).q
    BY <1>4 DEF onPinchAction
  <2>2. /\ Touch(v') /\ ~v'.drawing /\ Sent(sdk') /\ Closed(sdk', Draft, Drafts, Finals)
        /\ \A k \in Open(v') : v'.layers[k].by = "local" /\ v'.layers[k].seg => k \in lost
    BY <1>0, <2>1, LocalEnds
  <2> QED BY <2>1, <2>2, TouchStep
<1>5. CASE touchesCancelled
  <2>1. /\ finger' = FALSE /\ UNCHANGED <<v, board, users, sdk, main, members, quit>>
        /\ lost' = lost \cup ({v.page[v.cur].local} \ {NoLayer})
    BY <1>5 DEF touchesCancelled
  <2>2. ASSUME NEW k \in Open(v), v.layers[k].by = "local", v.layers[k].seg PROVE k \in lost'
    <3>1. getLayer(v, "local") = k \/ "local" \in quit \/ k \in lost
      BY <1>0, <2>2 DEF Sound, Kept, Excused
    <3>2. "local" \notin quit
      BY <1>0, ViewAssumption DEF Types
    <3>3. k # NoLayer
      BY <1>0, <2>2, ViewAssumption DEF Sound, Typed, Scoped, Open, ViewRec
    <3> QED BY <2>1, <3>1, <3>2, <3>3 DEF getLayer
  <2>3. lost \subseteq lost'
    BY <2>1
  <2> QED BY <1>0, <2>1, <2>2, <2>3, TouchStep
<1> QED BY <1>1, <1>2, <1>3, <1>4, <1>5 DEF Touches

-----------------------------------------------------------------------------
(* The application's calls and what the server sends.                      *)

LEMMA SdkTasksFormed ==
    /\ \A op \in {"join", "leave", "clear", "undo", "redo"} :
           /\ simple(op) \in SdkTask /\ simple(op) \notin Drafts
           /\ \A u \in User : simple(op) \notin Joins(u) \cup Leaves(u)
    /\ \A op \in {"joined", "left"}, u \in User :
           task(op, u, "none") \in SdkTask /\ task(op, u, "none") \notin Drafts
<1> QED BY DEF SdkTask, Names, task, simple, Drafts, Joins, Leaves

LEMMA ApplicationStep ==
    ASSUME IInv, Application
    PROVE  /\ IInv' /\ v' = v
           /\ main' = main \/ \E b \in MainTask : b.op \in Setting /\ main' = Append(main, b)
<1>0. members \in SUBSET User
  BY DEF IInv, Types
<1>1. ASSUME NEW op \in {"join", "leave", "clear", "undo", "redo"}, on_sdk(simple(op))
      PROVE  IInv' /\ v' = v /\ main' = main
  <2> DEFINE b == simple(op)
  <2>1. /\ b \in SdkTask /\ b \notin Drafts /\ \A u \in User : b \notin Joins(u)
    BY SdkTasksFormed
  <2>2. /\ sdk' = Append(sdk, b) /\ UNCHANGED <<v, board, users, main, finger, quit, lost>>
        /\ members' = members
    BY <1>1 DEF on_sdk
  <2> HIDE DEF b
  <2>3. IInv'
    BY <1>0, <2>1, <2>2, SdkGrows
  <2> QED BY <2>2, <2>3
<1>2. ASSUME NEW b \in MainTask, b.op \in Setting, on_main(b)
      PROVE  IInv' /\ v' = v /\ main' = Append(main, b)
  <2>1. main' = Append(main, b) /\ UNCHANGED <<v, board, users, sdk, finger, members, quit, lost>>
    BY <1>2 DEF on_main
  <2>2. IInv'
    BY <1>2, <2>1, MainGrows
  <2> QED BY <2>1, <2>2
<1>3. ASSUME NEW mode \in LocalModes, app_setDrawingMode(mode)
      PROVE  \E b \in MainTask : b.op \in Setting /\ on_main(b)
  <2>1. task("mode", "local", mode) \in MainTask
    BY TasksFormed, BoardAssumption
  <2>2. task("mode", "local", mode).op \in Setting
    BY DEF task, Setting
  <2> QED BY <1>3, <2>1, <2>2 DEF app_setDrawingMode
<1>4. ASSUME app_lockDrawing \/ app_unlockDrawing
      PROVE  \E b \in MainTask : b.op \in Setting /\ on_main(b)
  <2>1. \A op \in {"lock", "unlock"} : simple(op) \in MainTask /\ simple(op).op \in Setting
    BY TasksFormed DEF task, simple, Setting
  <2> QED BY <1>4, <2>1 DEF app_lockDrawing, app_unlockDrawing
<1>5. CASE app_join \/ app_leave \/ app_clearAll \/ app_undo \/ app_redo
  <2>1. \E op \in {"join", "leave", "clear", "undo", "redo"} : on_sdk(simple(op))
    BY <1>5 DEF app_join, app_leave, app_clearAll, app_undo, app_redo
  <2> QED BY <1>1, <2>1
<1>6. CASE \E b \in MainTask : b.op \in Setting /\ on_main(b)
  BY <1>2, <1>6
<1> QED BY <1>3, <1>4, <1>5, <1>6 DEF Application

LEMMA MessageStep ==
    ASSUME IInv, NEW u \in User, NEW cmd, NEW arg, handleMessage(u, cmd, arg), task(cmd, u, arg) \in MainTask,
           cmd \in Messages
    PROVE  /\ IInv' /\ v' = v
           /\ \E b \in MainTask : main' = Append(main, b) /\ b.op \in Messages
<1> DEFINE b == task(cmd, u, arg)
<1>1. /\ main' = Append(main, b) /\ UNCHANGED <<v, board, users, sdk, finger, members, quit, lost>>
      /\ b.op = cmd
  BY DEF handleMessage, on_main, task
<1>2. b \in MainTask /\ b.op \in Messages \cup Setting /\ b.op \in Messages
  BY <1>1 DEF handleMessage, task
<1> HIDE DEF b
<1>3. IInv'
  BY <1>1, <1>2, MainGrows
<1> QED BY <1>1, <1>2, <1>3

LEMMA ServerStep ==
    ASSUME IInv, Server
    PROVE  /\ IInv' /\ v' = v
           /\ \/ main' = main
              \/ \E b \in MainTask : main' = Append(main, b) /\ b.op \in Messages
<1>0. members \in SUBSET User
  BY DEF IInv, Types
<1>1. PICK u \in User :
        \/ handleRemoteMemberJoined(u) \/ handleRemoteMemberLeaved(u)
        \/ \E cmd \in {"savedata", "clear", "undo", "redo"} : handleMessage(u, cmd, "none")
        \/ \E mode \in RemoteTools : handleMessage(u, "drawing", mode)
        \/ \E cmd \in {"nextpage", "prepage"} : handleMessage(u, cmd, "none")
        \/ \E info \in Infos : handleMessage(u, "info", info)
  BY DEF Server
<1>2. CASE handleRemoteMemberJoined(u) \/ handleRemoteMemberLeaved(u)
  <2>1. PICK op \in {"joined", "left"} :
          /\ sdk' = Append(sdk, task(op, u, "none")) /\ UNCHANGED <<v, board, users, main, finger, quit, lost>>
          /\ op = "joined" => u \notin members /\ members' = members \cup {u}
          /\ op = "left" => u \in members /\ members' = members \ {u}
    BY <1>2 DEF handleRemoteMemberJoined, handleRemoteMemberLeaved, dispatch_sdk
  <2> DEFINE b == task(op, u, "none")
  <2>2. b \in SdkTask /\ b \notin Drafts /\ b.op = op /\ b.by = u
    BY SdkTasksFormed DEF task
  <2> HIDE DEF b
  <2>3. \A x \in User : \/ b \notin Joins(x) /\ (x \in members <=> x \in members')
                        \/ b \in Joins(x) /\ x \notin members /\ x \in members'
                        \/ b \in Leaves(x)
    BY <2>1, <2>2 DEF Joins, Leaves
  <2>4. members' \in SUBSET User /\ sdk' = Append(sdk, b)
    BY <1>0, <2>1 DEF b
  <2>5. IInv'
    BY <2>1, <2>2, <2>3, <2>4, SdkGrows
  <2> QED BY <2>1, <2>5
<1> DEFINE Told(cmd, arg) == handleMessage(u, cmd, arg) /\ task(cmd, u, arg) \in MainTask /\ cmd \in Messages
<1>3. ASSUME NEW cmd \in {"savedata", "clear", "undo", "redo", "nextpage", "prepage"}, handleMessage(u, cmd, "none")
      PROVE  Told(cmd, "none")
  <2>1. task(cmd, u, "none") \in MainTask /\ cmd \in Messages
    BY DEF task, MainTask, WellFormed, Messages, Names
  <2> QED BY <1>3, <2>1
<1>4. ASSUME NEW mode \in RemoteTools, handleMessage(u, "drawing", mode) PROVE Told("drawing", mode)
  <2>1. mode \in Tool
    BY BoardAssumption
  <2>2. task("drawing", u, mode) \in MainTask /\ "drawing" \in Messages
    BY <2>1 DEF task, MainTask, WellFormed, Messages, Names
  <2> QED BY <1>4, <2>2
<1>5. ASSUME NEW info \in Infos, handleMessage(u, "info", info) PROVE Told("info", info)
  <2>1. info \in Info
    BY BoardAssumption
  <2>2. task("info", u, info) \in MainTask /\ "info" \in Messages
    BY <2>1 DEF task, MainTask, WellFormed, Messages, Names
  <2> QED BY <1>5, <2>2
<1>6. CASE \E cmd, arg : Told(cmd, arg)
  BY <1>6, MessageStep
<1> HIDE DEF Told
<1> QED BY <1>1, <1>2, <1>3, <1>4, <1>5, <1>6

-----------------------------------------------------------------------------
(* Every step.                                                             *)

LEMMA BoardStutters == ASSUME IInv, UNCHANGED boardVars PROVE IInv'
<1>1. UNCHANGED <<v, board, users, sdk, main, finger, members, quit, lost, late>>
  BY DEF boardVars
<1>2. Types' /\ Good(v, Excused)' /\ Pending' /\ Sending'
  BY <1>1 DEF IInv, Types, Pending, Sending, Draft, Excused
<1>3. \A u \in User : Roster(u)' /\ (u \notin quit => Alternate(u)')
  BY <1>1 DEF IInv, Roster, Present, Alternate
<1> QED BY <1>1, <1>2, <1>3 DEF IInv

\* What a step does to the view and to the main queue.
Pushes == \E b \in MainTask : b.op # "loaded" /\ main' = Append(main, b)

Moves ==
    \/ late' = late /\ v' = v /\ (main' = main \/ Pushes)
    \/ late' = late /\ Touch(v') /\ main' = main
    \/ late' = late /\ run_message
    \/ run_view /\ Views(Head(main), v')
    \/ late' = late /\ \E ok \in BOOLEAN : doc_fetched(ok)

LEMMA SdkMoves ==
    ASSUME NEW ok, run_sdk(ok)
    PROVE  late' = late /\ v' = v /\ (main' = main \/ Pushes)
<1>1. main' = main \/ \E op \in {"view_clear", "view_undo", "view_redo"} : main' = Append(main, simple(op))
  BY DEF run_sdk, handled, view_call
<1>2. \A op \in {"view_clear", "view_undo", "view_redo"} : simple(op) \in MainTask /\ simple(op).op # "loaded"
  BY TasksFormed DEF simple, task
<1> QED BY <1>1, <1>2 DEF run_sdk, Pushes

LEMMA LateKept == (Application \/ Server \/ Touches \/ run_message \/ \E ok \in BOOLEAN : doc_fetched(ok)) => late' = late
<1>1. Application => late' = late
  BY DEF Application, app_join, app_leave, app_clearAll, app_undo, app_redo, app_setDrawingMode,
         app_lockDrawing, app_unlockDrawing, on_sdk, on_main
<1>2. Server => late' = late
  BY DEF Server, handleRemoteMemberJoined, handleRemoteMemberLeaved, handleMessage, dispatch_sdk, on_main
<1>3. Touches => late' = late
  BY DEF Touches, touchesBegan, touchesMoved, touchesEnded, touchesCancelled, onPinchAction
<1>4. (run_message \/ \E ok \in BOOLEAN : doc_fetched(ok)) => late' = late
  BY DEF run_message, doc_fetched
<1> QED BY <1>1, <1>2, <1>3, <1>4

LEMMA BoardSteps == ASSUME IInv, BoardNext PROVE IInv' /\ Moves
<1>1. CASE Application
  <2>1. \A b \in MainTask : b.op \in Setting => b.op # "loaded"
    BY DEF Setting
  <2> QED BY <1>1, <2>1, ApplicationStep, LateKept DEF Moves, Pushes
<1>2. CASE Server
  <2>1. \A b \in MainTask : b.op \in Messages => b.op # "loaded"
    BY DEF Messages
  <2> QED BY <1>2, <2>1, ServerStep, LateKept DEF Moves, Pushes
<1>3. CASE Touches
  BY <1>3, Touching, LateKept DEF Moves
<1>4. CASE run_message
  BY <1>4, RunsMessage, LateKept DEF Moves
<1>5. CASE run_view
  BY <1>5, RunsView DEF Moves
<1>6. ASSUME NEW ok \in BOOLEAN, run_sdk(ok) PROVE IInv' /\ Moves
  BY <1>6, RunsSdk, SdkMoves DEF Moves
<1>7. ASSUME NEW ok \in BOOLEAN, doc_fetched(ok) PROVE IInv' /\ Moves
  <2>1. PICK i \in 1 .. Len(v.loads) :
          /\ main' = Append(main, task("loaded", "local", [page |-> v.loads[i], ok |-> ok]))
          /\ v' = [v EXCEPT !.loads = RemoveAt(@, i)]
          /\ UNCHANGED <<board, users, sdk, finger, members, quit, lost>>
    BY <1>7 DEF doc_fetched
  <2>2. IInv'
    BY <2>1, DocFetched
  <2> QED BY <1>7, <2>2, LateKept DEF Moves
<1> QED BY <1>1, <1>2, <1>3, <1>4, <1>5, <1>6, <1>7 DEF BoardNext

LEMMA BoardStarts == board_init => IInv
<1> SUFFICES ASSUME board_init PROVE IInv
  OBVIOUS
<1>1. /\ v = new_view /\ board = [registered |-> FALSE, sink |-> TRUE, sent |-> "none"]
      /\ users = [u \in User |-> Gone] /\ sdk = <<>> /\ main = <<>> /\ finger = FALSE
      /\ members = {} /\ quit = {} /\ lost = {}
  BY DEF board_init
<1>2. Types
  <2>1. <<>> \in Seq(SdkTask) /\ <<>> \in Seq(MainTask)
    OBVIOUS
  <2> QED BY <1>1, <2>1 DEF Types, Gone
<1>3. new_view \in ViewRec
  <2> DEFINE p == new_page("none", FALSE, <<>>, <<>>)
  <2>1. p \in PageRec
    BY DEF new_page, PageRec, Names
  <2> HIDE DEF p
  <2>2. <<p>> \in Seq(PageRec)
    BY <2>1
  <2>3. <<>> \in Seq(LayerRec) /\ <<>> \in Seq(Nat) /\ -1 \in Int /\ "pen" \in Tool
    BY DEF Tool
  <2>4. new_view = [layers |-> <<>>, page |-> <<p>>, cur |-> 1, lines |-> {}, screen |-> {}, stray |-> {}, pages |-> <<>>,
                    index |-> -1, loads |-> <<>>, mode |-> "pen", drawing |-> FALSE, lock |-> FALSE, laser |-> FALSE]
    BY DEF new_view, p
  <2> QED BY <2>2, <2>3, <2>4 DEF ViewRec
<1>4. Scoped(new_view)
  BY DEF Scoped, PageScoped, new_view, new_page
<1>5. Open(new_view) = {} /\ new_view.lines = {} /\ Held(new_view)
  BY DEF Open, new_view, Held
<1>6. Good(v, Excused)
  BY <1>1, <1>3, <1>4, <1>5 DEF Good, Sound, Typed, Drawn, Kept, Touched
<1>7. Pending
  BY <1>1 DEF Pending
<1>8. Sending
  BY <1>1 DEF Sending, Closed, Draft
<1>9. \A u \in User : ~Present(u)
  BY <1>1 DEF Present
<1>10. \A u \in User : Roster(u)
  BY <1>1, <1>9 DEF Roster, Paired, Closed
<1>11. \A u \in User : ~Line(v, u)
  BY <1>1, <1>5 DEF Line
<1>12. \A u \in User : Alternate(u)
  BY <1>1, <1>11 DEF Alternate, Alternates, Paired, Closed
<1> QED BY <1>2, <1>6, <1>7, <1>8, <1>10, <1>12 DEF IInv

-----------------------------------------------------------------------------
(* The page that is shown, where the last was asked for with none pending.   *)

Quiet(q) == \A i \in 1 .. Len(q) : q[i].op # "loaded"

\* One page is turned at a time; the page that is fetched, or that was fetched, is
\* the one the view says it is on; otherwise it is shown.
Loading(w, q) ==
    /\ \A i, j \in 1 .. Len(q) : q[i].op = "loaded" /\ q[j].op = "loaded" => i = j
    /\ w.loads # <<>> => w.loads = <<Expected(w)>> /\ InRange(w) /\ Quiet(q)
    /\ \A i \in 1 .. Len(q) : q[i].op = "loaded" => InRange(w) /\ q[i].arg.page = Expected(w)
    /\ w.loads = <<>> /\ (\A i \in 1 .. Len(q) : q[i].op # "loaded") => Arrived(w)

LEMMA LoadingSame ==
    ASSUME NEW w, NEW x, NEW q, Loading(w, q),
           x.loads = w.loads, x.pages = w.pages, x.index = w.index, x.cur = w.cur
    PROVE  Loading(x, q)
BY DEF Loading, InRange, Expected, Arrived

LEMMA LoadingQuiet ==
    ASSUME NEW w, NEW q, Quiet(q), Arriving(w)
    PROVE  Loading(w, q)
<1>1. w.loads # <<>> => w.loads = <<Expected(w)>> /\ InRange(w)
  BY DEF Arriving
<1>2. w.loads = <<>> => Arrived(w)
  BY DEF Arriving
<1>3. \A i \in 1 .. Len(q) : q[i].op # "loaded"
  BY DEF Quiet
<1> QED BY <1>1, <1>2, <1>3 DEF Loading, Quiet

\* The first block is taken: a page that was fetched is the one the view is on.
LEMMA LoadingPop ==
    ASSUME NEW w, NEW q \in Seq(MainTask), q # <<>>, Loading(w, q)
    PROVE  /\ Head(q).op # "loaded" => Loading(w, Tail(q))
           /\ Head(q).op = "loaded" =>
                Quiet(Tail(q)) /\ w.loads = <<>> /\ InRange(w) /\ Head(q).arg.page = Expected(w)
<1> DEFINE n == Len(q)
           t == Tail(q)
<1>1. n \in Nat \ {0} /\ Len(t) = n - 1 /\ Head(q) = q[1] /\ \A i \in 1 .. n - 1 : t[i] = q[i + 1]
  BY Popped
<1> HIDE DEF n, t
<1>2. \A i \in 1 .. n - 1 : i + 1 \in 1 .. n /\ i + 1 # 1
  BY <1>1
<1>3. 1 \in 1 .. n /\ (\A i \in 1 .. n : i = 1 \/ (i - 1 \in 1 .. n - 1 /\ i - 1 + 1 = i))
  BY <1>1
<1>4. /\ \A i, j \in 1 .. n : q[i].op = "loaded" /\ q[j].op = "loaded" => i = j
      /\ w.loads # <<>> => w.loads = <<Expected(w)>> /\ InRange(w) /\ Quiet(q)
      /\ \A i \in 1 .. n : q[i].op = "loaded" => InRange(w) /\ q[i].arg.page = Expected(w)
      /\ w.loads = <<>> /\ (\A i \in 1 .. n : q[i].op # "loaded") => Arrived(w)
  BY DEF Loading, n
<1>5. ASSUME Head(q).op # "loaded" PROVE Loading(w, t)
  <2>1. \A i, j \in 1 .. n - 1 : t[i].op = "loaded" /\ t[j].op = "loaded" => i = j
    BY <1>1, <1>2, <1>4
  <2>2. w.loads # <<>> => w.loads = <<Expected(w)>> /\ InRange(w) /\ Quiet(t)
    BY <1>1, <1>2, <1>4 DEF Quiet, n
  <2>3. \A i \in 1 .. n - 1 : t[i].op = "loaded" => InRange(w) /\ t[i].arg.page = Expected(w)
    BY <1>1, <1>2, <1>4
  <2>4. (\A i \in 1 .. n - 1 : t[i].op # "loaded") => \A i \in 1 .. n : q[i].op # "loaded"
    BY <1>1, <1>3, <1>5
  <2> QED BY <1>1, <1>4, <2>1, <2>2, <2>3, <2>4 DEF Loading
<1>6. ASSUME Head(q).op = "loaded"
      PROVE  Quiet(t) /\ w.loads = <<>> /\ InRange(w) /\ Head(q).arg.page = Expected(w)
  <2>1. \A i \in 1 .. n : i # 1 => q[i].op # "loaded"
    BY <1>1, <1>3, <1>4, <1>6
  <2>2. Quiet(t)
    BY <1>1, <1>2, <2>1 DEF Quiet
  <2>3. w.loads = <<>>
    BY <1>1, <1>3, <1>4, <1>6 DEF Quiet, n
  <2> QED BY <1>1, <1>3, <1>4, <1>6, <2>2, <2>3
<1> QED BY <1>5, <1>6 DEF t

\* A block is dispatched.
LEMMA LoadingPush ==
    ASSUME NEW w, NEW q \in Seq(MainTask), Loading(w, q), NEW b \in MainTask, b.op # "loaded"
    PROVE  Loading(w, Append(q, b))
<1> DEFINE n == Len(q)
           t == Append(q, b)
<1>1. n \in Nat /\ Len(t) = n + 1 /\ t[n + 1] = b /\ \A i \in 1 .. n : t[i] = q[i]
  BY Pushed
<1> HIDE DEF n, t
<1>2. \A i \in 1 .. n + 1 : i \in 1 .. n \/ i = n + 1
  BY <1>1
<1>3. /\ \A i, j \in 1 .. n : q[i].op = "loaded" /\ q[j].op = "loaded" => i = j
      /\ w.loads # <<>> => w.loads = <<Expected(w)>> /\ InRange(w) /\ Quiet(q)
      /\ \A i \in 1 .. n : q[i].op = "loaded" => InRange(w) /\ q[i].arg.page = Expected(w)
      /\ w.loads = <<>> /\ (\A i \in 1 .. n : q[i].op # "loaded") => Arrived(w)
  BY DEF Loading, n
<1>5. \A i, j \in 1 .. n + 1 : t[i].op = "loaded" /\ t[j].op = "loaded" => i = j
  BY <1>1, <1>2, <1>3
<1>6. w.loads # <<>> => w.loads = <<Expected(w)>> /\ InRange(w) /\ Quiet(t)
  BY <1>1, <1>2, <1>3 DEF Quiet, n
<1>7. \A i \in 1 .. n + 1 : t[i].op = "loaded" => InRange(w) /\ t[i].arg.page = Expected(w)
  BY <1>1, <1>2, <1>3
<1>8. (\A i \in 1 .. n + 1 : t[i].op # "loaded") => \A i \in 1 .. n : q[i].op # "loaded"
  BY <1>1
<1> QED BY <1>1, <1>3, <1>5, <1>6, <1>7, <1>8 DEF Loading, t

\* A message becomes blocks of which none shows a page that was fetched.
LEMMA MessageTurns ==
    ASSUME Types, NEW b \in MainTask, b.op \in Messages, NEW s, s = handleWhiteBoardMessage(b)
    PROVE  \/ s = <<>>
           \/ \E x \in MainTask : s = <<x>> /\ x.op # "loaded"
           \/ \E x \in MainTask, y \in MainTask : s = <<x, y>> /\ x.op # "loaded" /\ y.op # "loaded"
<1>1. CASE users[b.by] = Gone
  BY <1>1, MessageFollows
<1>2. CASE users[b.by] # Gone
  <2>1. Follows(b, s, users[b.by], newLine(b, users[b.by]))
    BY <1>2, MessageFollows
  <2> QED BY <2>1 DEF Follows
<1> QED BY <1>1, <1>2

LEMMA MessageLoads ==
    ASSUME IInv, run_message, Loading(v, main)
    PROVE  Loading(v', main')
<1> DEFINE b == Head(main)
           q == Tail(main)
           s == handleWhiteBoardMessage(b)
<1>0. Types /\ main \in Seq(MainTask) /\ main # <<>> /\ b.op \in Messages /\ main' = q \o s /\ v' = v
  BY DEF IInv, Types, run_message
<1>1. q \in Seq(MainTask) /\ b \in MainTask
  BY <1>0, Popped
<1>2. b.op # "loaded"
  BY <1>0 DEF Messages
<1>3. Loading(v, q)
  BY <1>0, <1>2, LoadingPop
<1>4. \/ s = <<>>
      \/ \E x \in MainTask : s = <<x>> /\ x.op # "loaded"
      \/ \E x \in MainTask, y \in MainTask : s = <<x, y>> /\ x.op # "loaded" /\ y.op # "loaded"
  BY <1>0, <1>1, MessageTurns
<1> HIDE DEF b, q, s
<1>5. CASE s = <<>>
  BY <1>0, <1>1, <1>3, <1>5, ConcatEmptySeq
<1>6. ASSUME NEW x \in MainTask, s = <<x>>, x.op # "loaded"
      PROVE  Loading(v', main')
  <2>1. main' = Append(q, x)
    BY <1>0, <1>1, <1>6, AppendIsConcat
  <2>2. Loading(v, Append(q, x))
    BY <1>1, <1>3, <1>6, LoadingPush
  <2> QED BY <1>0, <2>1, <2>2
<1>7. ASSUME NEW x \in MainTask, NEW y \in MainTask, s = <<x, y>>, x.op # "loaded", y.op # "loaded"
      PROVE  Loading(v', main')
  <2>1. main' = Append(Append(q, x), y)
    <3>1. q \o <<x, y>> = Append(Append(q, x), y)
      BY <1>1, Appended
    <3>2. main' = q \o <<x, y>>
      BY <1>0, <1>7
    <3> QED BY <3>1, <3>2
  <2>2. Append(q, x) \in Seq(MainTask)
    BY <1>1, Pushed
  <2>3. Loading(v, Append(q, x))
    BY <1>1, <1>3, <1>7, LoadingPush
  <2>4. Loading(v, Append(Append(q, x), y))
    BY <1>7, <2>2, <2>3, LoadingPush
  <2> QED BY <1>0, <2>1, <2>4
<1> QED BY <1>4, <1>5, <1>6, <1>7

\* A block that asks for a page while none is on its way starts anew; one that
\* asks for a page while another is, makes it late.
LEMMA AskedLoads ==
    ASSUME IInv, run_view, Views(Head(main), v'), asks(Head(main))
    PROVE  late' \/ Loading(v', main')
<1> DEFINE b == Head(main)
<1>0. main \in Seq(MainTask) /\ main # <<>> /\ main' = Tail(main) /\ late' = page_pending
  BY DEF IInv, Types, run_view
<1>1. CASE page_pending
  BY <1>0, <1>1
<1>2. CASE ~page_pending
  <2>1. v.loads = <<>> /\ \A i \in 1 .. Len(main) : main[i].op # "loaded"
    BY <1>2 DEF page_pending
  <2>2. Quiet(main')
    <3> DEFINE n == Len(main)
    <3>1. n \in Nat \ {0} /\ Len(main') = n - 1 /\ \A i \in 1 .. n - 1 : main'[i] = main[i + 1]
      BY <1>0, Popped
    <3>2. \A i \in 1 .. n : main[i].op # "loaded"
      BY <2>1
    <3> HIDE DEF n
    <3>3. \A i \in 1 .. n - 1 : i + 1 \in 1 .. n
      BY <3>1
    <3> QED BY <3>1, <3>2, <3>3 DEF Quiet
  <2>3. Arriving(v')
    <3>1. CASE b.op = "setinfo"
      BY <2>1, <3>1 DEF Views
    <3>2. CASE b.op \in {"next", "prev"} /\ v'.index # v.index
      <4>1. Goes(v, v')
        BY <3>2 DEF Views
      <4> QED BY <2>1, <4>1 DEF Goes
    <3> QED BY <3>1, <3>2 DEF asks
  <2> QED BY <2>2, <2>3, LoadingQuiet
<1> QED BY <1>1, <1>2

LEMMA ViewLoads ==
    ASSUME IInv, run_view, Views(Head(main), v'), late \/ Loading(v, main)
    PROVE  late' \/ Loading(v', main')
<1> DEFINE b == Head(main)
           q == Tail(main)
<1>0. main \in Seq(MainTask) /\ main # <<>> /\ b.op \notin Messages /\ main' = q /\ b \in MainTask
  <2>1. main \in Seq(MainTask) /\ main # <<>> /\ b.op \notin Messages /\ main' = q
    BY DEF IInv, Types, run_view
  <2> QED BY <2>1, Popped
<1>1. CASE asks(b)
  BY <1>1, AskedLoads
<1>2. CASE ~asks(b) /\ late
  BY <1>2 DEF run_view
<1>3. CASE ~asks(b) /\ Loading(v, main)
  <2>0. /\ b.op # "loaded" => Loading(v, q)
        /\ b.op = "loaded" => Quiet(q) /\ v.loads = <<>> /\ InRange(v) /\ b.arg.page = Expected(v)
    BY <1>0, <1>3, LoadingPop
  <2>1. CASE b.op = "loaded"
    <3>1. v'.loads = v.loads /\ v'.pages = v.pages /\ v'.index = v.index /\ v'.cur = b.arg.page
      BY <2>1 DEF Views
    <3>2. Arriving(v')
      BY <2>0, <2>1, <3>1 DEF Arriving, Arrived, InRange, Expected
    <3> QED BY <1>0, <2>0, <2>1, <3>2, LoadingQuiet
  <2>2. CASE b.op # "loaded"
    <3>1. v'.loads = v.loads /\ v'.pages = v.pages /\ v'.index = v.index /\ v'.cur = v.cur
      <4>1. CASE b.op \notin Turning
        BY <4>1 DEF Views
      <4>2. CASE b.op \in {"next", "prev"}
        BY <1>3, <4>2 DEF Views, Goes, asks
      <4>3. b.op # "setinfo"
        BY <1>3 DEF asks
      <4> QED BY <2>2, <4>1, <4>2, <4>3 DEF Turning
    <3>2. Loading(v, q)
      BY <2>0, <2>2
    <3> HIDE DEF q, b
    <3> QED BY <1>0, <3>1, <3>2, LoadingSame
  <2> QED BY <2>1, <2>2
<1> QED BY <1>1, <1>2, <1>3

LEMMA FetchLoads ==
    ASSUME IInv, NEW ok \in BOOLEAN, doc_fetched(ok), Loading(v, main)
    PROVE  Loading(v', main')
<1>1. PICK i \in 1 .. Len(v.loads) :
        /\ main' = Append(main, task("loaded", "local", [page |-> v.loads[i], ok |-> ok]))
        /\ v' = [v EXCEPT !.loads = RemoveAt(@, i)]
        /\ UNCHANGED <<board, users, sdk, finger, members, quit, lost, late>>
  BY DEF doc_fetched
<1> DEFINE b == task("loaded", "local", [page |-> v.loads[i], ok |-> ok])
<1>2. Shown(v, v') /\ v'.loads = RemoveAt(v.loads, i) /\ v'.pages = v.pages /\ v'.index = v.index
  BY <1>1, DocFetched
<1>3. main \in Seq(MainTask) /\ v.loads \in Seq(Nat) /\ Len(v.loads) \in Nat
  BY DEF IInv, Types, Good, Sound, Typed, ViewRec
<1>4. v.loads = <<Expected(v)>> /\ InRange(v) /\ Quiet(main)
  <2>1. v.loads # <<>>
    BY <1>3
  <2> QED BY <2>1 DEF Loading
<1>5. i = 1 /\ Len(v.loads) = 1 /\ v.loads[i] = Expected(v) /\ v.loads[i] \in Nat
  BY <1>3, <1>4
<1>6. v'.loads = <<>>
  BY <1>2, <1>3, <1>5, Removed
<1>7. b \in MainTask /\ b.op = "loaded" /\ b.arg.page = Expected(v)
  BY <1>5, TasksFormed DEF task
<1> HIDE DEF b
<1>8. main' = Append(main, b)
  BY <1>1 DEF b
<1>9. /\ Len(main) \in Nat /\ Len(main') = Len(main) + 1 /\ main'[Len(main) + 1] = b
      /\ \A k \in 1 .. Len(main) : main'[k] = main[k]
  BY <1>3, <1>7, <1>8, Pushed
<1>10. \A k \in 1 .. Len(main') : k \in 1 .. Len(main) \/ k = Len(main) + 1
  BY <1>9
<1>11. \A k \in 1 .. Len(main) : main'[k].op # "loaded"
  BY <1>4, <1>9 DEF Quiet
<1>12. InRange(v') /\ Expected(v') = Expected(v)
  BY <1>2, <1>4 DEF InRange, Expected
<1>13. \A k, j \in 1 .. Len(main') : main'[k].op = "loaded" /\ main'[j].op = "loaded" => k = j
  BY <1>10, <1>11
<1>14. \A k \in 1 .. Len(main') : main'[k].op = "loaded" => main'[k].arg.page = Expected(v')
  BY <1>7, <1>9, <1>10, <1>11, <1>12
<1>15. Len(main) + 1 \in 1 .. Len(main')
  BY <1>9
<1> QED BY <1>6, <1>7, <1>9, <1>12, <1>13, <1>14, <1>15 DEF Loading

LEMMA LoadingStep ==
    ASSUME IInv, late \/ Loading(v, main), Moves
    PROVE  late' \/ Loading(v', main')
<1>0. main \in Seq(MainTask)
  BY DEF IInv, Types
<1>1. CASE late /\ late' = late
  BY <1>1
<1>2. CASE Loading(v, main) /\ v' = v /\ main' = main
  BY <1>2
<1>3. CASE Loading(v, main) /\ v' = v /\ Pushes
  BY <1>0, <1>3, LoadingPush DEF Pushes
<1>4. CASE Loading(v, main) /\ Touch(v') /\ main' = main
  BY <1>4, LoadingSame DEF Touch
<1>5. CASE Loading(v, main) /\ run_message
  BY <1>5, MessageLoads
<1>6. CASE run_view /\ Views(Head(main), v')
  BY <1>6, ViewLoads
<1>7. CASE Loading(v, main) /\ \E ok \in BOOLEAN : doc_fetched(ok)
  BY <1>7, FetchLoads
<1> QED BY <1>1, <1>2, <1>3, <1>4, <1>5, <1>6, <1>7 DEF Moves

-----------------------------------------------------------------------------
(* The board.                                                              *)

BoardSpec == board_init /\ [][BoardNext]_boardVars

\* The invariant of the board, whatever is called and whatever arrives, in any
\* order of the two queues.
THEOREM BoardKept == BoardSpec => []IInv
<1>1. board_init => IInv
  BY BoardStarts
<1>2. IInv /\ [BoardNext]_boardVars => IInv'
  BY BoardSteps, BoardStutters
<1> QED BY <1>1, <1>2, PTL DEF BoardSpec

\* Whatever can be seen is of the page that is shown, unless redo brought it back,
\* and can be undone, unless its drawer left or the system took its touch away in
\* the middle of it: through every page that is turned and loaded, every line that
\* is begun, ended or interrupted, and every failure of a load.
THEOREM SeenIsUndoable == BoardSpec => []Undoable
<1>1. IInv => Undoable
  <2> SUFFICES ASSUME IInv, NEW l \in v.screen
               PROVE  /\ v.layers[l].page = v.cur \/ l \in v.stray
                      /\ v.layers[l].seg
                         => \/ l \in ToSet(v.page[v.layers[l].page].undo)
                            \/ l = v.page[v.cur].local \/ \E u \in User : l = v.page[v.cur].remote[u]
                            \/ v.layers[l].by \in quit \/ l \in lost
    BY DEF Undoable
  <2>1. v.layers[l].page = v.cur \/ l \in v.stray
    BY DEF IInv, Good, Sound, Drawn, Held
  <2>2. CASE Stacked(v, l)
    <3>1. l \in ToSet(v.page[v.layers[l].page].undo)
      BY <2>2 DEF Stacked, ToSet
    <3> QED BY <2>1, <3>1
  <2>3. CASE ~Stacked(v, l)
    <3>1. l \in Open(v)
      BY <2>3 DEF Open
    <3>2. /\ v.layers[l].by \in Names
          /\ v.layers[l].seg => \/ getLayer(v, v.layers[l].by) = l
                                \/ v.layers[l].by \in quit \/ l \in lost
      BY <3>1 DEF IInv, Good, Sound, Drawn, Kept, Excused
    <3> QED BY <2>1, <3>2 DEF getLayer, Names
  <2> QED BY <2>2, <2>3
<1> QED BY <1>1, BoardKept, PTL

\* A line whose points were sent to the room is ended there, or giving it failed,
\* once the view knows of no line: however the drawing of it was interrupted.
THEOREM SendsWhole == BoardSpec => []SentWhole
<1>1. IInv => SentWhole
  <2> SUFFICES ASSUME IInv, sdk = <<>>, ~v.drawing PROVE ~Draft
    BY DEF SentWhole, Draft
  <2>1. Closed(<<>>, Draft, Drafts, Finals)
    BY DEF IInv, Sending
  <2> QED BY <2>1 DEF Closed
<1> QED BY <1>1, BoardKept, PTL

\* The page that is shown is the one the view says it is on, unless that one was
\* asked for while another was on its way; and the board is as it should be.
THEOREM BoardHolds == BoardSpec => []BoardInv
<1> DEFINE L == late \/ Loading(v, main)
<1>1. board_init => L
  BY DEF board_init, new_view, Loading, InRange, Arrived
<1>2. IInv /\ L /\ [BoardNext]_boardVars => L'
  <2>1. UNCHANGED boardVars /\ L => L'
    BY DEF boardVars
  <2>2. ASSUME IInv, L, BoardNext PROVE L'
    <3>1. Moves
      BY <2>2, BoardSteps
    <3>2. late' \/ Loading(v', main')
      BY <2>2, <3>1, LoadingStep
    <3> QED BY <3>2
  <2> QED BY <2>1, <2>2
<1>3. L => PageShown
  <2> SUFFICES ASSUME Loading(v, main), v.loads = <<>>, InRange(v),
                      \A i \in 1 .. Len(main) : main[i].op # "loaded"
               PROVE  v.cur = v.pages[v.index + 1]
    BY DEF PageShown, InRange
  <2>1. Arrived(v)
    BY DEF Loading
  <2> QED BY <2>1 DEF Arrived, Expected
<1>4. Undoable /\ PageShown /\ SentWhole => BoardInv
  BY DEF BoardInv
<1> HIDE DEF L
<1> QED BY <1>1, <1>2, <1>3, <1>4, BoardKept, SeenIsUndoable, SendsWhole, PTL DEF BoardSpec
=============================================================================
