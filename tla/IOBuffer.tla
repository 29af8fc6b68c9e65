------------------------------ MODULE IOBuffer ------------------------------
(***************************************************************************)
(* IOBuffer (src/src/utility/iobuffer.h): a block of bytes with the part   *)
(* that has been produced and not yet consumed between two offsets.  A     *)
(* byte that was never written is Junk.                                    *)
(***************************************************************************)
EXTENDS Integers, Sequences

Junk == 0

new_buffer(capacity) ==
    [begin |-> 0, end |-> capacity, capacity |-> capacity,
     bytes |-> [i \in 0 .. capacity - 1 |-> Junk]]

size(b) == b.end - b.begin
freespace(b) == b.capacity - b.end

\* What data() and size() show of the buffer.
data(b) == [i \in 1 .. size(b) |-> b.bytes[b.begin + i - 1]]

clear(b) == [b EXCEPT !.begin = 0, !.end = 0]

\* memmove to the beginning of the block.
moved(b, n) == [b EXCEPT !.bytes = [i \in DOMAIN b.bytes |->
                    IF i < n THEN b.bytes[b.begin + i] ELSE b.bytes[i]]]

\* A copy into the block at data(); what falls behind its end is lost here
\* (and written past it in the code).
poke(b, s) == [b EXCEPT !.bytes = [i \in DOMAIN b.bytes |->
                    IF i - b.begin \in 0 .. Len(s) - 1 THEN s[i - b.begin + 1] ELSE b.bytes[i]]]

\* resize keeps the unread bytes, moved to the beginning when the block has
\* no room behind them.
resize(b, length) ==
    IF b.begin + length <= b.capacity THEN [b EXCEPT !.end = b.begin + length]
    ELSE [moved(b, size(b)) EXCEPT !.begin = 0, !.end = length]

consume(b, count) ==
    IF b.begin + count = b.end THEN clear(b) ELSE [b EXCEPT !.begin = @ + count]

produce(b, count) == [b EXCEPT !.end = @ + count]

align(b) ==
    CASE b.begin = 0 -> b
      [] b.begin # 0 /\ b.begin # b.end -> [moved(b, size(b)) EXCEPT !.begin = 0, !.end = size(b)]
      [] OTHER -> clear(b)
=============================================================================
