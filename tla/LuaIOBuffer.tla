----------------------------- MODULE LuaIOBuffer -----------------------------
(***************************************************************************)
(* The iobuffer module of the Lua scripts (lua_iobuffer_module.cpp): the   *)
(* table of buffers with their handles (LuaObjMgr of lua_module_mgr.h) and *)
(* one action per function of the module.  Beside each buffer stands what  *)
(* a script may rely on: the bytes it expects in it, Junk where it has     *)
(* been promised nothing.                                                  *)
(***************************************************************************)
EXTENDS IOBuffer, FiniteSets, SequencesExt

CONSTANTS
    Capacities,   \* sizes a script asks for
    MaxObjs,      \* bound on the handles given out
    Bytes         \* what is written through a pointer

VARIABLE o        \* [table : handle -> buffer, expected : handle -> bytes, counter]

ASSUME LuaIOBufferAssumption ==
    Capacities \subseteq Nat \ {0} /\ MaxObjs \in Nat /\ Junk \notin Bytes

obj_init == [table |-> <<>>, expected |-> <<>>, counter |-> 0]

\* new_lua_obj: a fresh handle; handles are never used again.
new_lua_obj(t, b, e) ==
    [t EXCEPT !.counter = @ + 1,
              !.table = [x \in DOMAIN @ \cup {t.counter + 1} |-> IF x = t.counter + 1 THEN b ELSE @[x]],
              !.expected = [x \in DOMAIN @ \cup {t.counter + 1} |-> IF x = t.counter + 1 THEN e ELSE @[x]]]

delete_lua_obj(t, x) ==
    [t EXCEPT !.table = [y \in DOMAIN @ \ {x} |-> @[y]], !.expected = [y \in DOMAIN @ \ {x} |-> @[y]]]

get_obj(t, x) == t.table[x]

set_lua_obj(t, x, b, e) == [t EXCEPT !.table[x] = b, !.expected[x] = e]

junk(n) == [i \in 1 .. n |-> Junk]
pad(e, n) == IF n <= Len(e) THEN SubSeq(e, 1, n) ELSE e \o junk(n - Len(e))

lua_new(n) ==
    /\ o.counter < MaxObjs
    /\ o' = new_lua_obj(o, new_buffer(n), junk(n))

lua_delete(x) == o' = delete_lua_obj(o, x)

\* lua_get_buffer hands out pointer and size; something is written there.
lua_get_buffer(x, s) ==
    /\ Len(s) <= size(get_obj(o, x))
    /\ o' = set_lua_obj(o, x, poke(get_obj(o, x), s), s \o SubSeq(o.expected[x], Len(s) + 1, Len(o.expected[x])))

\* A buffer that is too small is replaced by a copy.
lua_resize(x, n) ==
    LET b == get_obj(o, x) IN
    o' = set_lua_obj(o, x, IF n > b.capacity THEN resize(poke(new_buffer(n), data(b)), n) ELSE resize(b, n),
                     pad(o.expected[x], n))

lua_reset(x, n) ==
    LET b == get_obj(o, x) IN
    o' = set_lua_obj(o, x, IF n > b.capacity THEN new_buffer(n) ELSE resize(clear(b), n), junk(n))

lua_clear(x) == o' = set_lua_obj(o, x, clear(get_obj(o, x)), <<>>)

lua_consume(x, n) ==
    /\ n <= size(get_obj(o, x))
    /\ o' = set_lua_obj(o, x, consume(get_obj(o, x), n), SubSeq(o.expected[x], n + 1, Len(o.expected[x])))

lua_produce(x, n) ==
    /\ n <= freespace(get_obj(o, x))
    /\ o' = set_lua_obj(o, x, produce(get_obj(o, x), n), o.expected[x] \o junk(n))

lua_align(x) == o' = set_lua_obj(o, x, align(get_obj(o, x)), o.expected[x])

\* read copies out and consumes.
lua_read(x, len) ==
    LET n == IF len < size(get_obj(o, x)) THEN len ELSE size(get_obj(o, x)) IN
    o' = set_lua_obj(o, x, consume(get_obj(o, x), n), SubSeq(o.expected[x], n + 1, Len(o.expected[x])))

BufferNext ==
    \/ \E n \in Capacities : lua_new(n)
    \/ \E x \in DOMAIN o.table :
         \/ lua_delete(x) \/ lua_clear(x) \/ lua_align(x)
         \/ \E s \in SeqOf(Bytes, 2) : lua_get_buffer(x, s)
         \/ \E n \in Capacities :
              lua_resize(x, n) \/ lua_reset(x, n) \/ lua_consume(x, n) \/ lua_produce(x, n) \/ lua_read(x, n)

BufferSpec == o = obj_init /\ [][BufferNext]_o

-----------------------------------------------------------------------------

\* Whatever the sequence of calls, a script finds in a buffer the bytes it
\* put there and has not consumed, in their order, and as many as it was
\* told: no resize, align, replacement or other buffer disturbs them.
BufferIntact ==
    \A x \in DOMAIN o.table :
        /\ Len(data(o.table[x])) = Len(o.expected[x])
        /\ \A i \in DOMAIN o.expected[x] :
              o.expected[x][i] # Junk => data(o.table[x])[i] = o.expected[x][i]
=============================================================================
