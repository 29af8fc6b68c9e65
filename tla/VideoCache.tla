----------------------------- MODULE VideoCache -----------------------------
(***************************************************************************)
(* The video cache of the Lua scripts (lua_video_cache.cpp), the promises  *)
(* of data it keeps for waiting coroutines (lua_data_promise.h/.cpp) and   *)
(* the decryption out of the cache (lua_crypto_module.cpp).                *)
(*                                                                         *)
(* The cache is a ring of `size' bytes between two free-running unsigned   *)
(* counters, `use' and `tail', of Width instead of 2^32 values.  Bytes are *)
(* numbered as they are written, modulo Numbers; a byte that has been read *)
(* is Junk from then on.  Three fields are there for the properties only:  *)
(* `fifo' holds the bytes a reader should find, `misread' says that a read *)
(* of a ring that was not full has returned others, `late' that a delivery *)
(* has left a promise it could have honored.                               *)
(*                                                                         *)
(* Everything runs on the io thread.  A coroutine that is resumed runs     *)
(* until it yields, inside the call that resumed it: `again' is the read   *)
(* it makes then, or NoRead.                                               *)
(***************************************************************************)
EXTENDS IOBuffer

CONSTANTS
    Coroutines,
    Sizes,          \* sizes of the ring, powers of two as 2097152 is
    Width,          \* values of a counter
    Numbers,        \* numbers of the bytes, more than the ring holds
    MaxLen,         \* longest read or write
    GivenUpReads    \* reads a coroutine makes when its promise is given up

VARIABLE c          \* the cache with its promise and coroutines

Conds == {"some", "exactly", "enough"}
Reads == [len : 1 .. MaxLen, cond : Conds]
NoRead == [len |-> 0, cond |-> "none"]

ASSUME VideoCacheAssumption ==
    /\ {Width, Numbers, MaxLen} \subseteq Nat /\ Sizes # {}
    /\ Sizes \subseteq 1 .. Width - 1 /\ \A s \in Sizes : Width % s = 0 /\ s < Numbers
    /\ GivenUpReads \subseteq Reads \cup {NoRead}

Outside == -1       \* a byte behind the end of the ring
NoPromise == [kind |-> "none", co |-> "none", len |-> 0, cond |-> "none", old |-> FALSE]
promise(kind, co, r) == [kind |-> kind, co |-> co, len |-> r.len, cond |-> r.cond, old |-> FALSE]

cache_init ==
    [buffer |-> [i \in 0 .. (CHOOSE s \in Sizes : \A t \in Sizes : s >= t) - 1 |-> Junk],
     size |-> CHOOSE s \in Sizes : \A t \in Sizes : s >= t,
     use |-> 0, tail |-> 0, promise |-> NoPromise, co |-> [x \in Coroutines |-> "run"],
     fifo |-> <<>>, next |-> 1, misread |-> FALSE, late |-> FALSE]

least(a, b) == IF a < b THEN a ELSE b

-----------------------------------------------------------------------------
(* The ring.                                                               *)

GetDataSize(s) == (s.tail - s.use) % Width

GetSpaceSize(s, expect) == least(expect, (s.size - GetDataSize(s)) % Width)

\* The numbers of the next n bytes; 0 is Junk.
numbers(s, n) == [i \in 1 .. n |-> ((s.next + i - 2) % Numbers) + 1]

\* Faulty variant: the part that wraps is written behind the ring.
WriteData_straight(s, len) ==
    LET tail == s.tail % s.size
        n == GetSpaceSize(s, len)
        new == numbers(s, n)
    IN  [s EXCEPT !.tail = (@ + n) % Width, !.next = ((@ + n - 1) % Numbers) + 1, !.fifo = @ \o new,
                  !.buffer = [i \in DOMAIN @ |-> IF i - tail \in 0 .. n - 1 THEN new[i - tail + 1] ELSE @[i]]]

\* What does not fit is left to the caller.  The bytes are stored in one
\* piece when the unread ones lie ahead of them or the end of the ring is
\* far enough, else in two.
WriteData(s, len) ==
    LET tail == s.tail % s.size
        use == s.use % s.size
        n == GetSpaceSize(s, len)
        new == numbers(s, n)
        l == IF use > tail THEN n ELSE least(n, s.size - tail)
    IN  [s EXCEPT !.tail = (@ + n) % Width, !.next = ((@ + n - 1) % Numbers) + 1, !.fifo = @ \o new,
                  !.buffer = [i \in DOMAIN @ |->
                                CASE i - tail \in 0 .. l - 1 -> new[i - tail + 1]
                                  [] i \in 0 .. n - l - 1 -> new[l + i + 1]
                                  [] OTHER -> @[i]]]

\* Where the i-th unread byte is looked for: the two pieces are told apart
\* only if use > tail, so that a full ring whose bytes do not start at its
\* beginning is read past its end.
at(s, i) ==
    LET tail == s.tail % s.size
        use == s.use % s.size
    IN  IF use > tail /\ use + i > s.size THEN i - 1 - (s.size - use) ELSE use + i - 1

\* The bytes a read copies.
copied(s, len) ==
    [i \in 1 .. least(len, GetDataSize(s)) |-> IF at(s, i) < s.size THEN s.buffer[at(s, i)] ELSE Outside]

ReadData(s, len) ==
    LET n == Len(copied(s, len)) IN
    [s EXCEPT !.use = (@ + n) % Width, !.fifo = SubSeq(@, n + 1, Len(@)),
              !.misread = @ \/ (GetDataSize(s) < s.size /\ copied(s, len) # SubSeq(s.fifo, 1, n)),
              !.buffer = [i \in DOMAIN @ |-> IF \E j \in 1 .. n : at(s, j) = i THEN Junk ELSE @[i]]]

ClearData(s) ==
    [s EXCEPT !.use = 0, !.tail = 0, !.fifo = <<>>, !.buffer = [i \in DOMAIN @ |-> Junk]]

SkipData(s, n) ==
    IF GetDataSize(s) > n
    THEN [s EXCEPT !.use = (@ + n) % Width, !.fifo = SubSeq(@, n + 1, Len(@)),
                   !.buffer = [i \in DOMAIN @ |-> IF (i - s.use) % s.size < n THEN Junk ELSE @[i]]]
    ELSE ClearData(s)

\* The bytes that fit are read over into the new ring.
ResetSize(s, n) ==
    LET got == copied(s, n) IN
    [ReadData(s, n) EXCEPT
        !.use = 0, !.tail = Len(got), !.size = n, !.fifo = got,
        !.buffer = [i \in 0 .. n - 1 |-> IF i < Len(got) THEN got[i + 1] ELSE Junk]]

-----------------------------------------------------------------------------
(* Promises.                                                               *)

\* DataCompletionCondition.
holds(r, n) ==
    CASE r.cond = "some" -> n > 0
      [] r.cond = "exactly" -> n = r.len
      [] OTHER -> n >= r.len

completed(s) == s.promise # NoPromise /\ holds(s.promise, GetDataSize(s))

\* lua_resume refuses a coroutine that is running.
resumable(s, co) == s.co[co] = "yield"

\* SyncReadData of a coroutine that has just been resumed: the old promise
\* has nobody to resume any more.
read_again(s, co, r) ==
    IF r = NoRead THEN s
    ELSE IF holds(r, GetDataSize(s)) THEN ReadData(s, r.len)
    ELSE [s EXCEPT !.promise = promise("read", co, r), !.co[co] = "yield"]

resume(s, co, again) ==
    IF resumable(s, co) THEN read_again([s EXCEPT !.co[co] = "run"], co, again) ELSE s

\* A promise that is still there is given up first; whatever its coroutine
\* puts in its place meanwhile is dropped.
MakePromise(s, p, again) ==
    [(IF s.promise = NoPromise THEN s ELSE resume(s, s.promise.co, again)) EXCEPT !.promise = p]

\* do_honor of LuaReadPromise, WaitUntilPromise and LuaScanfPromise.
do_honor_read(s, p, again) == resume(ReadData(s, p.len), p.co, again)
do_honor_until(s, p, again) == resume(s, p.co, again)
do_honor_scanf(s, p, again) == resume(ReadData(s, p.len), p.co, again)

honor(s, again) ==
    LET p == s.promise
        s1 == [s EXCEPT !.promise.old = TRUE]
    IN  CASE p.kind = "read" -> do_honor_read(s1, p, again)
          [] p.kind = "until" -> do_honor_until(s1, p, again)
          [] p.kind = "scanf" -> do_honor_scanf(s1, p, again)

\* A promise made while the old one is honored stays.
PromiseWriteData(s, len, again) ==
    LET w == WriteData(s, len)
        d == honor(w, again)
    IN  IF ~completed(w) THEN w
        ELSE IF d.promise.old THEN [d EXCEPT !.promise = NoPromise] ELSE d

-----------------------------------------------------------------------------
(* The functions of the module.                                            *)

\* A running coroutine calls.
Calls(co) == c.co[co] = "run"

LuaWriteData(co, len) == Calls(co) /\ c' = WriteData(c, len)
LuaReadData(co, len) == Calls(co) /\ c' = ReadData(c, len)
LuaClearData(co) == Calls(co) /\ c' = ClearData(c)
LuaSkipData(co, len) == Calls(co) /\ c' = SkipData(c, len)
LuaResetSize(co, n) == Calls(co) /\ c' = ResetSize(c, n)

\* SyncReadData yields when it has to wait.
LuaSyncReadData(co, r, again) ==
    /\ Calls(co)
    /\ c' = IF holds(r, GetDataSize(c)) THEN ReadData(c, r.len)
            ELSE [MakePromise(c, promise("read", co, r), again) EXCEPT !.co[co] = "yield"]

\* Scanf and WaitUntil leave a promise and return to the coroutine, which
\* has not yielded.
LuaScanf(co, len, again) ==
    LET r == [len |-> len, cond |-> "enough"] IN
    /\ Calls(co)
    /\ c' = IF holds(r, GetDataSize(c)) THEN ReadData(c, len)
            ELSE MakePromise(c, promise("scanf", co, r), again)

LuaWaitUntil(co, len, again) ==
    LET r == [len |-> len, cond |-> "enough"] IN
    /\ Calls(co)
    /\ ~holds(r, GetDataSize(c))
    /\ c' = MakePromise(c, promise("until", co, r), again)

\* The player's side writes with PromiseWriteData.
Deliver(len, again) ==
    LET d == PromiseWriteData(c, len, again) IN c' = [d EXCEPT !.late = completed(d)]

-----------------------------------------------------------------------------
(* Decryption out of the cache; the plain text is not followed further.    *)

\* What was read is gone even when it was not enough.
fill_dec_input(s, n) == ReadData(s, n)

decrypt_cache(s, n) == fill_dec_input(s, n)

lua_decrypt_cache(co, n) == Calls(co) /\ c' = decrypt_cache(c, n)

CacheNext ==
    \/ \E co \in Coroutines, n \in 1 .. MaxLen :
         \/ LuaWriteData(co, n) \/ LuaReadData(co, n) \/ LuaSkipData(co, n)
         \/ \E again \in GivenUpReads : LuaScanf(co, n, again) \/ LuaWaitUntil(co, n, again)
         \/ lua_decrypt_cache(co, n)
    \/ \E co \in Coroutines : LuaClearData(co) \/ \E n \in Sizes : LuaResetSize(co, n)
    \/ \E co \in Coroutines, r \in Reads, again \in GivenUpReads : LuaSyncReadData(co, r, again)
    \/ \E n \in 1 .. MaxLen, again \in Reads \cup {NoRead} : Deliver(n, again)

CacheSpec == c = cache_init /\ [][CacheNext]_c

-----------------------------------------------------------------------------
(* Properties.                                                             *)

\* A read returns the bytes that were written and not yet read, skipped or
\* cleared, oldest first, however often the ring and its counters have
\* wrapped and whatever its size was changed to.  The one exception is the
\* ring that is full (see ReadData).
ReadsInOrder == ~c.misread

\* A coroutine that waits in SyncReadData is the one the cache holds a
\* promise for: it has not been forgotten.
WaiterHeld == \A co \in Coroutines : c.co[co] = "yield" => c.promise.co = co

\* No wakeup is lost: when the player's side has written, no promise is left
\* whose condition the data in the cache already meets.
NoWakeupLost == ~c.late

\* What a waiting coroutine is given, and that it is given it.
CacheInv == ReadsInOrder /\ WaiterHeld /\ NoWakeupLost
=============================================================================
