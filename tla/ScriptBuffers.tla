--------------------------- MODULE ScriptBuffers ----------------------------
(***************************************************************************)
(* The bytes a Lua script handles: those of the video cache and those of   *)
(* the buffers of the iobuffer module, which share nothing.                *)
(***************************************************************************)
EXTENDS VideoCache, LuaIOBuffer

BuffersSpec == CacheSpec /\ BufferSpec

\* Every byte put into the cache or a buffer comes out of it in its place, and
\* who waits for it is woken.
BuffersInv == CacheInv /\ BufferIntact
=============================================================================
