------------------------------- MODULE Header -------------------------------
(***************************************************************************)
(* The packed header in front of each block of a stream file               *)
(* (src/src/dach/dach_header.c): 16 bytes, two of identification, two of   *)
(* version and three 32-bit numbers.  Packing copies the numbers as they   *)
(* lie in memory, which is the order of a little-endian machine here;      *)
(* unpacking puts them together by shifts.                                 *)
(***************************************************************************)
EXTENDS Integers, Sequences

CONSTANTS Radix,      \* 256 in the code: the values of a byte
          ID1, ID2    \* 'H' and 'J'

ASSUME RadixAssumption == Radix \in Nat /\ Radix >= 2
ASSUME IDAssumption == ID1 \in 0 .. Radix - 1 /\ ID2 \in 0 .. Radix - 1

Byte == 0 .. Radix - 1
U32 == 0 .. Radix * Radix * Radix * Radix - 1

HeaderSize == 16

Fields == [id1 : Byte, id2 : Byte, maj : Byte, min : Byte,
           block_size : U32, crc : U32, model : U32]

\* dach_header_new and dach_header_new_blank.
NewHeader(bsize, crc, model) == [id1 |-> ID1, id2 |-> ID2, maj |-> 0, min |-> 1,
                                 block_size |-> bsize, crc |-> crc, model |-> model]
BlankHeader == [id1 |-> 0, id2 |-> 0, maj |-> 0, min |-> 0,
                block_size |-> 0, crc |-> 0, model |-> 0]

\* write_bytes of the four bytes of a u32, lowest first.
Bytes32(n) == LET q == n \div Radix
                  r == q \div Radix
              IN  << n % Radix, q % Radix, r % Radix, (r \div Radix) % Radix >>

\* Mutants of GetU32: the last byte is taken as signed, and the third one is
\* shifted as far as the second.
GetU32Signed(buff, i) ==
    buff[i] + Radix * (buff[i + 1] + Radix * (buff[i + 2] + Radix *
       (IF 2 * buff[i + 3] >= Radix THEN buff[i + 3] - Radix ELSE buff[i + 3])))
GetU32Shifts8(buff, i) ==
    buff[i] + Radix * (buff[i + 1] + buff[i + 2] + Radix * Radix * buff[i + 3])
\* get_u32 of the four bytes from the i-th on, its shifts factored.
GetU32(buff, i) ==
    buff[i] + Radix * (buff[i + 1] + Radix * (buff[i + 2] + Radix * buff[i + 3]))

\* dach_header_pack.
Pack(h) == LET s == Bytes32(h.block_size)
               c == Bytes32(h.crc)
               m == Bytes32(h.model)
           IN  << h.id1, h.id2, h.maj, h.min, s[1], s[2], s[3], s[4],
                  c[1], c[2], c[3], c[4], m[1], m[2], m[3], m[4] >>

\* dach_header_unpack: model is not read back.
Unpack(h, buff) == [id1 |-> buff[1], id2 |-> buff[2], maj |-> buff[3], min |-> buff[4],
                    block_size |-> GetU32(buff, 5), crc |-> GetU32(buff, 9),
                    model |-> h.model]
=============================================================================
