-------------------------------- MODULE Info --------------------------------
(***************************************************************************)
(* `dach info' (info() in src/src/dach/dach.c): lists the blocks of a file *)
(* by reading a header, skipping as many bytes as it says and reading the  *)
(* next one, until nothing is left, a header is cut short, or what should  *)
(* be a header is none.                                                    *)
(*                                                                         *)
(* The files are what a stream of blocks should look like, headers each    *)
(* followed by the bytes of the block, possibly cut short at the end or    *)
(* with one identification byte damaged.  The bytes of a block may look    *)
(* like a header themselves.  blocks, cut and damaged say how the file was *)
(* made and are no part of the program.  The APR file (read, seek, size of *)
(* the mapping) is external.                                               *)
(***************************************************************************)
EXTENDS Header, SequencesExt, FiniteSetsExt

CONSTANTS BlockSizes,   \* bound: the sizes of blocks
          Crcs,         \* bound: their checksums, which info only prints
          MaxBlocks,    \* bound: blocks in a file
          MaxCut        \* bound: bytes missing at the end of a file

ASSUME InfoAssumption == /\ BlockSizes \subseteq U32 /\ Crcs \subseteq U32
                         /\ MaxBlocks \in Nat /\ MaxCut \in Nat
                         /\ ID2 # 0      \* a byte of 0 damages a header

VARIABLES blocks, cut, damaged,   \* how the file was made
          file,                   \* its bytes
          is_dch,                 \* whether its name ends in .dch
          stage,
          offset,                 \* the position of apr_infile_fd
          hd1,                    \* the header last unpacked
          bid, seek_where, block_size_tot,
          listed                  \* the lines printed: block_size and crc

made == <<blocks, cut, damaged, file, is_dch>>
vars == <<made, stage, offset, hd1, bid, seek_where, block_size_tot, listed>>

Line(h) == [block_size |-> h.block_size, crc |-> h.crc]

\* A block whose bytes are a header, as often as they fit, with another checksum.
LooksLikeHeader == Pack(NewHeader(1, 0, 1))
Payload(n) == [i \in 1 .. n |-> LooksLikeHeader[((i - 1) % HeaderSize) + 1]]
BlockBytes(i) ==
    LET packed == Pack(NewHeader(blocks[i].block_size, blocks[i].crc, 1))
    IN  (IF i = damaged THEN [packed EXCEPT ![2] = 0] ELSE packed)
           \o Payload(blocks[i].block_size)
WholeFile == FlattenSeq([i \in 1 .. Len(blocks) |-> BlockBytes(i)])

Init == /\ blocks \in BoundedSeq([block_size : BlockSizes, crc : Crcs], MaxBlocks)
        /\ damaged \in 0 .. Len(blocks)      \* 0: none
        /\ cut \in 0 .. MaxCut
        /\ cut <= Len(WholeFile)
        /\ file = SubSeq(WholeFile, 1, Len(WholeFile) - cut)
        /\ is_dch \in BOOLEAN
        /\ stage = "open"
        /\ offset = 0 /\ hd1 = BlankHeader
        /\ bid = 0 /\ seek_where = 0 /\ block_size_tot = 0
        /\ listed = <<>>

-----------------------------------------------------------------------------
\* Another extension is DACH_EINVAL; an empty file cannot be mapped: assert(0).
Open == /\ stage = "open"
        /\ stage' = IF ~is_dch THEN "invalid" ELSE IF file = <<>> THEN "abort" ELSE "read"
        /\ UNCHANGED <<made, offset, hd1, bid, seek_where, block_size_tot, listed>>

\* apr_file_read: how many bytes there are for a header; past the end, none.
Available == Max({0, Min({HeaderSize, Len(file) - offset})})

ReadHeader == /\ stage = "read"
              /\ Available = HeaderSize
              /\ hd1' = Unpack(hd1, SubSeq(file, offset + 1, offset + HeaderSize))
              /\ offset' = offset + HeaderSize
              /\ stage' = "header"
              /\ UNCHANGED <<made, bid, seek_where, block_size_tot, listed>>

\* Mutant of ReadEnds: the loop goes on.
ReadEndsRetries == /\ stage = "read"
                   /\ Available < HeaderSize
                   /\ UNCHANGED vars

\* Nothing is left, the end of the loop; or less than a header, which aborts.
ReadEnds == /\ stage = "read"
            /\ Available < HeaderSize
            /\ stage' = IF Available = 0 THEN "done" ELSE "abort"
            /\ UNCHANGED <<made, offset, hd1, bid, seek_where, block_size_tot, listed>>

\* Mutant of IsHeader: an empty block is taken for damage.
IsHeaderNotEmpty == hd1.id1 = ID1 /\ hd1.id2 = ID2 /\ hd1.block_size > 0
IsHeader == hd1.id1 = ID1 /\ hd1.id2 = ID2

\* Mutant of ListBlock: the seek forgets the header.
ListBlockNoHeader ==
    /\ stage = "header" /\ IsHeader
    /\ listed' = Append(listed, Line(hd1))
    /\ bid' = bid + 1
    /\ seek_where' = seek_where + hd1.block_size
    /\ block_size_tot' = block_size_tot + hd1.block_size
    /\ offset' = seek_where'
    /\ stage' = "read"
    /\ UNCHANGED <<made, hd1>>

\* The block is printed and its bytes are skipped.
ListBlock == /\ stage = "header"
             /\ IsHeader
             /\ listed' = Append(listed, Line(hd1))
             /\ bid' = bid + 1
             /\ seek_where' = seek_where + hd1.block_size + HeaderSize
             /\ block_size_tot' = block_size_tot + hd1.block_size + HeaderSize
             /\ offset' = seek_where'
             /\ stage' = "read"
             /\ UNCHANGED <<made, hd1>>

\* "Fatal: Looks like a corrupted file": the loop ends, info still returns 0.
Corrupted == /\ stage = "header"
             /\ ~IsHeader
             /\ stage' = "done"
             /\ UNCHANGED <<made, offset, hd1, bid, seek_where, block_size_tot, listed>>

Ended == stage \in {"done", "abort", "invalid"}
Stop == Ended /\ UNCHANGED vars

Walk == Open \/ ReadHeader \/ ReadEnds \/ ListBlock \/ Corrupted
Next == Walk \/ Stop

\* One sequential call.
Spec == Init /\ [][Next]_vars /\ WF_vars(Walk)

-----------------------------------------------------------------------------
\* Where the header of block i + 1 begins in a file that is not cut.
Boundary(i) == Len(FlattenSeq([j \in 1 .. i |-> BlockBytes(j)]))

\* Every variable has its type.
TypeOK == /\ stage \in {"open", "read", "header", "done", "abort", "invalid"}
          /\ offset \in Nat /\ seek_where \in Nat /\ block_size_tot \in Nat
          /\ hd1 \in [id1 : Byte, id2 : Byte, maj : Byte, min : Byte, block_size : U32,
                      crc : U32, model : U32]
          /\ bid = Len(listed)

\* Each read is at a block's header, never in the middle of a block's bytes even
\* when they look like a header, or it is past the end of a file that was cut.
\* The running totals agree with the position and with the blocks listed.
ReadsAtBoundaries ==
    stage = "read" => /\ bid <= Len(blocks)
                      /\ offset = Boundary(bid)
                      /\ seek_where = offset /\ block_size_tot = offset

\* What is listed is a beginning of what was written, with sizes and checksums
\* as packed, whatever has happened to the end of the file.
ListsAPrefix == IsPrefix(listed, blocks)

\* How many blocks the file has before the first damage.
Sound == IF damaged = 0 THEN Len(blocks) ELSE damaged - 1

\* When the walk has come to its end, of a file that was not cut exactly the blocks
\* before the damage are listed, and all of them if there is none.  Of a file that
\* was cut no block is listed from the damage on, and one before it is left out only
\* when the file ends where that block's header would begin, or earlier.
ListsWholeFiles ==
    stage = "done" => /\ Len(listed) <= Sound
                      /\ cut = 0 => Len(listed) = Sound
                      /\ Len(listed) < Sound => Len(file) <= Boundary(Len(listed))

\* The walk ends: a block of size 0 still advances by a header.
Ends == <>Ended
=============================================================================
