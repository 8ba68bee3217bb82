-------------------------------- MODULE Pipe --------------------------------
(***************************************************************************)
(* A file stream and a pipe of operations over it                          *)
(* (src/src/dach/dach_stream.c), as tests/dach_stream_test.c uses them.    *)
(*                                                                         *)
(* dach_stream_new maps the input file and cuts it into blocks, each with  *)
(* an output block of the same length.  The user may take blocks one by    *)
(* one and read them with get_c, as the test's reader does, or copy them   *)
(* with dach_copy; a pipe gives all blocks that are left to the callback   *)
(* of its operation, which reads from the one and writes to the other.     *)
(* dach_pipe_tofile writes the output blocks to a file.                    *)
(*                                                                         *)
(* Callbacks are the user's.  The test's is "copy"; "negate" replaces each *)
(* byte, "twice" writes each byte twice and "odd" drops the even ones, so  *)
(* that output blocks keep, exceed and fall short of their length.         *)
(*                                                                         *)
(* A failed assertion, exit(1) and a signal all end in stage "aborted".    *)
(* The program has one thread, the owner of every block.                   *)
(***************************************************************************)
EXTENDS Block, SequencesExt

CONSTANTS Callbacks,   \* the kinds of callback the operations may have
          ByHand,      \* what the user may do to a block he takes himself
          MaxOps,      \* operations a pipe has room for: 16 in the code
          MaxFile,     \* bound: bytes in the input file
          MaxBlock,    \* bound: block_size
          ReadSize     \* bytes a callback asks for: 4096 in the test

ASSUME PipeAssumption == /\ Callbacks \subseteq {"copy", "negate", "twice", "odd"}
                         /\ ByHand \subseteq {"get_c", "dach_copy"}
                         /\ MaxOps \in Nat \ {0} /\ MaxFile \in Nat
                         /\ MaxBlock \in Nat /\ ReadSize \in Nat \ {0}
                         /\ Unwritten \notin Int

VARIABLES file,             \* the bytes of the input file
          block_size,
          oper_array,       \* the callbacks added to the pipe
          stage,            \* where the program is
          oper,             \* i of dach_pipe_start
          bcount, bid,      \* bcount and bid of dach_thread_pipe
          blocks_returned,
          current,          \* the block in use, with its partner
          in, out,          \* dblock_array, dblock_array_out
          handlers,         \* history: who was given each block, in order
          got,              \* history: the bytes that get_c and read have returned
          outfile           \* what dach_pipe_tofile has written

stream == <<file, block_size>>
pipe == <<oper_array, oper, bcount, bid>>
taken == <<blocks_returned, current, handlers>>
vars == <<stream, pipe, taken, stage, in, out, got, outfile>>

\* get_block_count and get_last_block_size.
BlockCount(fsize, bsize) == IF bsize >= fsize THEN 1
                            ELSE (fsize \div bsize) + (IF fsize % bsize = 0 THEN 0 ELSE 1)
LastBlockSize(fsize, bsize) == fsize % bsize

block_count == BlockCount(Len(file), block_size)

\* Mutant of BlockLength: a last block size of 0 is taken as it is.
BlockLengthZero(b) ==
    IF b = block_count - 1 THEN LastBlockSize(Len(file), block_size) ELSE block_size
\* lazy_create_blocks: the length of block b, counted from 0.
BlockLength(b) == LET last == LastBlockSize(Len(file), block_size)
                  IN  IF b = block_count - 1 /\ last # 0 THEN last ELSE block_size

Init == /\ \E n \in 0 .. MaxFile : file = [i \in 1 .. n |-> i]
        /\ block_size \in 0 .. MaxBlock
        /\ oper_array = <<>> /\ oper = 1 /\ bcount = 0 /\ bid = 0
        /\ blocks_returned = 0 /\ current = 0 /\ handlers = <<>>
        /\ stage = "open"
        /\ in = <<>> /\ out = <<>> /\ got = <<>> /\ outfile = <<>>

-----------------------------------------------------------------------------
(* dach_stream_new and dach_stream_free *)

\* priv_file_reader_new with mmap_in_file and lazy_create_blocks.
OpenStream ==
    /\ stage = "open"
    /\ file # <<>> /\ block_size # 0
    /\ in' = [b \in 0 .. block_count - 1 |->
                 ReadableBlock(b, file, b * block_size, BlockLength(b))]
    /\ out' = [b \in 0 .. block_count - 1 |-> WritableBlock(b, BlockLength(b))]
    /\ stage' = "user"
    /\ UNCHANGED <<stream, pipe, taken, got, outfile>>

\* An empty file fails an assertion; a block size of 0, "if no blocking is to
\* take place", is a division by zero in get_block_count; open or mmap may fail.
OpenFails == /\ stage = "open"
             /\ stage' = "aborted"
             /\ UNCHANGED <<stream, pipe, taken, in, out, got, outfile>>

\* Every block is freed, and the file unmapped.
FreeStream == /\ stage \in {"user", "done"}
              /\ in' = <<>> /\ out' = <<>>
              /\ stage' = "freed"
              /\ UNCHANGED <<stream, pipe, taken, got, outfile>>

-----------------------------------------------------------------------------
(* Blocks taken one by one *)

\* new_block hands out the next block, write_block its partner.
NewBlock(handler) == /\ current' = in[blocks_returned].id
                     /\ blocks_returned' = blocks_returned + 1
                     /\ handlers' = Append(handlers, handler)

TakeBlock(handler) == /\ stage = "user"
                      /\ blocks_returned < block_count
                      /\ NewBlock(handler)
                      /\ stage' = "get_c"
                      /\ UNCHANGED <<stream, pipe, in, out, got, outfile>>

\* new_block returns NULL.
NoBlockLeft == /\ stage = "user"
               /\ blocks_returned = block_count
               /\ UNCHANGED vars

\* One iteration of the test's loop over get_c, or of dach_copy's.
ReadByte == /\ stage = "get_c"
            /\ in[current].pos < in[current].length
            /\ got' = Append(got, GetC(in[current]))
            /\ out' = IF Last(handlers) = "dach_copy"
                      THEN [out EXCEPT ![current] = AfterWrite(@, <<GetC(in[current])>>)]
                      ELSE out
            /\ in' = [in EXCEPT ![current] = AfterGetC(@)]
            /\ UNCHANGED <<stream, pipe, taken, stage, outfile>>

BlockRead == /\ stage = "get_c"
             /\ in[current].pos = in[current].length
             /\ stage' = "user"
             /\ UNCHANGED <<stream, pipe, taken, in, out, got, outfile>>

\* free_block, which is to write a block to the stream: it asserts bid = 0, and
\* for block 0 reads an entry of malloc'ed memory nobody has set.  By what is
\* there it fails an assertion, writes to the stream's output file, which is NULL,
\* or does nothing.
FreeBlock == /\ stage = "user" /\ blocks_returned > 0
             /\ stage' \in IF current = 0 THEN {"user", "aborted"} ELSE {"aborted"}
             /\ UNCHANGED <<stream, pipe, taken, in, out, got, outfile>>

-----------------------------------------------------------------------------
(* The pipe *)

\* dach_pipe_new with its first operation.
NewPipe(c) == /\ stage = "user"
              /\ oper_array' = <<c>>
              /\ stage' = "add"
              /\ UNCHANGED <<stream, oper, bcount, bid, taken, in, out, got, outfile>>

\* dach_pipe_add; it asserts that there is room.
AddOperation(c) == /\ stage = "add"
                   /\ Len(oper_array) < MaxOps
                   /\ oper_array' = Append(oper_array, c)
                   /\ UNCHANGED <<stream, stage, oper, bcount, bid, taken, in, out, got, outfile>>
AddFails == /\ stage = "add"
            /\ Len(oper_array) = MaxOps
            /\ stage' = "aborted"
            /\ UNCHANGED <<stream, pipe, taken, in, out, got, outfile>>

\* dach_pipe_start is called.
Start == /\ stage = "add"
         /\ stage' = "start"
         /\ UNCHANGED <<stream, pipe, taken, in, out, got, outfile>>

\* Mutant of BlocksLeft: one block too few.
BlocksLeftShort == IF blocks_returned < block_count THEN block_count - blocks_returned - 1 ELSE 0
\* blocks().
BlocksLeft == block_count - blocks_returned

\* Its loop: the next operation gets the blocks that have not been returned yet.
NextOperation == /\ stage = "start"
                 /\ oper <= Len(oper_array)
                 /\ bcount' = BlocksLeft
                 /\ bid' = 0
                 /\ stage' = "blocks"
                 /\ UNCHANGED <<stream, oper_array, oper, taken, in, out, got, outfile>>

\* dach_thread_pipe: the next block and its partner.  Were there none left, this
\* would be a use of NULL; no action here, so TLC would report a deadlock.
NextBlock == /\ stage = "blocks"
             /\ bid < bcount
             /\ blocks_returned < block_count
             /\ NewBlock(oper_array[oper])
             /\ stage' = "callback"
             /\ UNCHANGED <<stream, pipe, in, out, got, outfile>>

\* Mutant of OperationDone: the same operation again.
OperationDoneAgain == /\ stage = "blocks"
                      /\ bid = bcount
                      /\ stage' = "start"
                      /\ UNCHANGED <<stream, pipe, taken, in, out, got, outfile>>

OperationDone == /\ stage = "blocks"
                 /\ bid = bcount
                 /\ oper' = oper + 1
                 /\ stage' = "start"
                 /\ UNCHANGED <<stream, oper_array, bcount, bid, taken, in, out, got, outfile>>

\* The bytes that are odd numbers, in their order.
OddOnes(bytes) ==
    LET kept[i \in 0 .. Len(bytes)] ==
            IF i = 0 THEN <<>>
            ELSE IF bytes[i] % 2 = 1 THEN Append(kept[i - 1], bytes[i]) ELSE kept[i - 1]
    IN  kept[Len(bytes)]

\* What a handler makes of some bytes.
Apply(h, bytes) == CASE h \in {"copy", "dach_copy"} -> bytes
                     [] h = "negate" -> [i \in DOMAIN bytes |-> -bytes[i]]
                     [] h = "twice" -> [i \in 1 .. 2 * Len(bytes) |-> bytes[(i + 1) \div 2]]
                     [] h = "odd" -> OddOnes(bytes)
                     [] h = "get_c" -> <<>>

\* One iteration of the callback's loop: read some bytes, write what it makes of
\* them, if anything (dach_operation_read and dach_operation_write).
CallbackReads == /\ stage = "callback"
                 /\ Readable(in[current], ReadSize) > 0
                 /\ LET bytes == BytesRead(in[current], ReadSize)
                        made == Apply(oper_array[oper], bytes)
                    IN  /\ got' = got \o bytes
                        /\ out' = IF made = <<>> THEN out
                                  ELSE [out EXCEPT ![current] = AfterWrite(@, made)]
                 /\ in' = [in EXCEPT ![current] = AfterRead(@, ReadSize)]
                 /\ UNCHANGED <<stream, pipe, taken, stage, outfile>>

\* read returns -1: the callback returns and the loop goes on.
CallbackReturns == /\ stage = "callback"
                   /\ Readable(in[current], ReadSize) = 0
                   /\ bid' = bid + 1
                   /\ stage' = "blocks"
                   /\ UNCHANGED <<stream, oper_array, oper, bcount, taken, in, out, got, outfile>>

\* All operations are done; the user calls dach_pipe_tofile.
StartToFile == /\ stage = "start"
               /\ oper > Len(oper_array)
               /\ current' = 0
               /\ stage' = "tofile"
               /\ UNCHANGED <<stream, pipe, blocks_returned, handlers, in, out, got, outfile>>

\* seek and tofile of one output block.
ToFile == /\ stage = "tofile"
          /\ current < block_count
          /\ out' = [out EXCEPT ![current] = AfterSeek(@)]
          /\ outfile' = outfile \o FileBytes(out[current])
          /\ current' = current + 1
          /\ UNCHANGED <<stream, pipe, blocks_returned, handlers, stage, in, got>>

\* fwrite falls short, and the assertion of block_tofile fails.
ToFileFails == /\ stage = "tofile"
               /\ current < block_count
               /\ \E n \in 0 .. out[current].length - 1 :
                     outfile' = outfile \o SubSeq(out[current].data, 1, n)
               /\ out' = [out EXCEPT ![current] = AfterSeek(@)]
               /\ stage' = "aborted"
               /\ UNCHANGED <<stream, pipe, taken, in, got>>

Finish == /\ stage = "tofile"
          /\ current = block_count
          /\ stage' = "done"
          /\ UNCHANGED <<stream, pipe, taken, in, out, got, outfile>>

Ended == stage \in {"freed", "aborted"} /\ UNCHANGED vars

\* What the user decides.
User == \/ \E h \in ByHand : TakeBlock(h)
        \/ NoBlockLeft \/ FreeBlock \/ FreeStream
        \/ \E c \in Callbacks : NewPipe(c) \/ AddOperation(c)
        \/ AddFails \/ Start

\* What goes on by itself, with the call of tofile and the loops over get_c.
Run == \/ OpenStream \/ OpenFails \/ ReadByte \/ BlockRead
       \/ NextOperation \/ NextBlock \/ OperationDone
       \/ CallbackReads \/ CallbackReturns \/ StartToFile \/ ToFile \/ ToFileFails \/ Finish

Next == User \/ Run \/ Ended

\* Sequential code on one thread.
Spec == Init /\ [][Next]_vars /\ WF_vars(Run)

-----------------------------------------------------------------------------
\* Every variable has its type; a position stays inside its block, and length
\* inside the memory allocated (the asserts of block_read, block_write, seek).
BlockOK(b) == b.pos \in 0 .. b.length /\ b.length <= Len(b.data) /\ b.bytes_written \in Nat
TypeOK == /\ stage \in {"open", "user", "get_c", "add", "start", "blocks", "callback",
                        "tofile", "done", "freed", "aborted"}
          /\ Len(oper_array) <= MaxOps
          /\ oper \in 1 .. MaxOps + 1
          /\ bid \in 0 .. bcount
          /\ \A b \in DOMAIN in : BlockOK(in[b]) /\ BlockOK(out[b])

Pieces(arr) == FlattenSeq([i \in 1 .. block_count |-> FileBytes(arr[i - 1])])

\* The blocks cut the file into consecutive pieces: in order, they are the file,
\* with no byte lost, repeated or read past the end, whether or not the block
\* size divides the file size or exceeds it.
BlocksPartitionFile ==
    DOMAIN in # {} => /\ \A b \in DOMAIN in : in[b].length > 0
                      /\ Pieces(in) = file

\* What has been read, by hand and by the callbacks of any operation together, is
\* the file from its start, each byte once; after dach_pipe_start it is all of it,
\* however many blocks had been taken before.
ReadsFileInOrder ==
    /\ IsPrefix(got, file)
    /\ stage \in {"tofile", "done"} => got = file

\* What becomes of block b of the file: what its handler wrote, and where that is
\* less than the block, memory that nobody has written.
Expected(b) == LET bytes == SubSeq(file, b * block_size + 1, b * block_size + BlockLength(b))
                   made == Apply(handlers[b + 1], bytes)
               IN  made \o Memory(IF Len(made) < Len(bytes) THEN Len(bytes) - Len(made) ELSE 0)

\* Every block that was left to the pipe goes to its FIRST operation; later ones
\* find no blocks.  The output file is what the handlers made of the blocks, in
\* the order of the input, and at any time a prefix of it, also when fwrite
\* fails: growing one output block moves no byte of another.
OutputIsFirstOperation ==
    /\ oper_array # <<>> => \A b \in DOMAIN handlers : handlers[b] \in ByHand \cup {oper_array[1]}
    /\ outfile # <<>> =>
          LET whole == FlattenSeq([i \in 1 .. block_count |-> Expected(i - 1)])
          IN  /\ IsPrefix(outfile, whole)
              /\ stage = "done" => outfile = whole

\* Whatever the program is doing, it gets back to its user or aborts: every loop
\* over a block sees its end, and every pipe that is started finishes.
UsersTurn == stage \in {"user", "add", "done", "freed", "aborted"}
PipeEnds == ~UsersTurn ~> UsersTurn
=============================================================================
