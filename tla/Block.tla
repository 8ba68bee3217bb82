------------------------------- MODULE Block --------------------------------
(***************************************************************************)
(* A block of a stream (src/src/dach/dach_block.c), as a value: a readable *)
(* block is a window on the mapped input file, a writable one owns memory  *)
(* that grows when it is written past its length.  Every operation of the  *)
(* code is one operator; Pipe keeps two arrays of these values.            *)
(*                                                                         *)
(* Memory nobody has written holds Unwritten.  The sequence data is as     *)
(* long as the memory really allocated; the fields size and length are     *)
(* what the struct says about it.                                          *)
(***************************************************************************)
EXTENDS Integers, Sequences

CONSTANT Unwritten    \* what fresh memory reads as

Memory(n) == [i \in 1 .. n |-> Unwritten]

\* priv_block_init for a readable block: n bytes from offset off of the mapping.
ReadableBlock(bid, bytes, off, n) ==
    [id |-> bid,
     data |-> [i \in 1 .. n |-> IF off + i <= Len(bytes) THEN bytes[off + i] ELSE Unwritten],
     pos |-> 0, size |-> n, length |-> n, bytes_written |-> 0]

\* priv_block_init for a writable block: malloc, not calloc.
WritableBlock(bid, n) ==
    [id |-> bid, data |-> Memory(n), pos |-> 0, size |-> n, length |-> n, bytes_written |-> 0]

\* block_read: how many bytes a read of n gives; 0 stands for the -1 returned at
\* the end of the block.
Readable(b, n) == IF n + b.pos >= b.length THEN b.length - b.pos ELSE n
BytesRead(b, n) == SubSeq(b.data, b.pos + 1, b.pos + Readable(b, n))
\* Mutant of AfterRead: pos moves by the count asked for.
AfterReadPast(b, n) == [b EXCEPT !.pos = @ + n]
AfterRead(b, n) == [b EXCEPT !.pos = @ + Readable(b, n)]

\* block_getc: the byte at pos, which moves; nothing looks at the length.
GetC(b) == b.data[b.pos + 1]
AfterGetC(b) == [b EXCEPT !.pos = @ + 1]

\* block_write: when the bytes reach the length the memory is reallocated to fit
\* exactly and length follows it; size does not.
Resized(mem, n) == [i \in 1 .. n |-> IF i <= Len(mem) THEN mem[i] ELSE Unwritten]
\* Mutant of Room: a block never grows.
RoomNever(b, n) == b
Room(b, n) == IF n + b.pos >= b.length
              THEN [b EXCEPT !.data = Resized(@, n + b.pos), !.length = n + b.pos]
              ELSE b
AfterWrite(b, bytes) ==
    LET r == Room(b, Len(bytes))
    IN  [r EXCEPT !.data = [i \in DOMAIN @ |-> IF i - b.pos \in DOMAIN bytes
                                               THEN bytes[i - b.pos] ELSE @[i]],
                  !.pos = @ + Len(bytes),
                  !.bytes_written = @ + Len(bytes)]

\* block_seek ignores the position it is given.
AfterSeek(b) == [b EXCEPT !.pos = 0]

\* block_tofile: what fwrite puts in the file.
FileBytes(b) == SubSeq(b.data, 1, b.length)
=============================================================================
