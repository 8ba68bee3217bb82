----------------------------- MODULE InfoProofs -----------------------------
(***************************************************************************)
(* Packing and unpacking a header are inverse, but for the field model,    *)
(* for every value of every field and for bytes of any width; and what     *)
(* info lists, for any number of blocks of any size: it always reads at a  *)
(* header and lists the blocks that were written, in their order.          *)
(***************************************************************************)
EXTENDS Info, InductionLemmas

-----------------------------------------------------------------------------
(* Headers *)


\* Division with remainder, for the radix.
LEMMA DivMod ==
  ASSUME NEW n \in Nat
  PROVE  /\ n \div Radix \in Nat
         /\ n % Radix \in Byte
         /\ n = (n % Radix) + Radix * (n \div Radix)
BY RadixAssumption DEF Byte

\* A quotient is below what its dividend is below, divided.
LEMMA SmallQuotient ==
  ASSUME NEW n \in Nat, NEW m \in Nat, n < Radix * m
  PROVE  n \div Radix < m
<1> DEFINE q == n \div Radix
<1>1. q \in Nat /\ Radix * q <= n
    BY DivMod, RadixAssumption DEF Byte
<1>2. ASSUME q >= m PROVE FALSE
    BY <1>1, <1>2, RadixAssumption
<1> QED
    BY <1>1, <1>2

\* get_u32 reads back what write_bytes wrote.
THEOREM NumberRoundTrip ==
  ASSUME NEW n \in U32
  PROVE  GetU32(Bytes32(n), 1) = n
<1> DEFINE R == Radix
           q == n \div R
           r == q \div R
           t == r \div R
<1>1. n \in Nat /\ q \in Nat /\ r \in Nat /\ t \in Nat
    BY DivMod, RadixAssumption DEF U32
<1>2. /\ n = (n % R) + R * q
      /\ q = (q % R) + R * r
      /\ r = (r % R) + R * t
    BY <1>1, DivMod
<1>3. t < R
  <2> DEFINE m2 == R * R
             m3 == R * m2
  <2>1. m2 \in Nat /\ m3 \in Nat /\ n < R * m3
      BY RadixAssumption DEF U32
  <2>2. q < m3
    <3> HIDE DEF m3, m2, q
    <3> QED
      BY <1>1, <2>1, SmallQuotient DEF q
  <2>3. r < m2
    <3> HIDE DEF m2, q, r
    <3>1. q < R * m2
        BY <2>2 DEF m3
    <3> QED
      BY <1>1, <2>1, <3>1, SmallQuotient DEF r
  <2> QED
    <3> HIDE DEF q, r
    <3> QED
      BY <1>1, <2>3, SmallQuotient, RadixAssumption
<1>4. t % R = t
    BY <1>1, <1>3, RadixAssumption
<1>5. Bytes32(n) = << n % R, q % R, r % R, t >>
    BY <1>4 DEF Bytes32
<1>6. GetU32(Bytes32(n), 1) = (n % R) + R * ((q % R) + R * ((r % R) + R * t))
    BY <1>5 DEF GetU32
<1> QED
    BY <1>2, <1>6

\* dach_header_unpack restores every field that dach_header_pack stored except
\* model, which keeps the value it had.
THEOREM HeaderRoundTrip ==
  ASSUME NEW h \in Fields, NEW old \in Fields
  PROVE  Unpack(old, Pack(h)) = [h EXCEPT !.model = old.model]
<1> DEFINE s == Bytes32(h.block_size)
           c == Bytes32(h.crc)
           p == Pack(h)
<1>1. /\ p[1] = h.id1 /\ p[2] = h.id2 /\ p[3] = h.maj /\ p[4] = h.min
      /\ p[5] = s[1] /\ p[6] = s[2] /\ p[7] = s[3] /\ p[8] = s[4]
      /\ p[9] = c[1] /\ p[10] = c[2] /\ p[11] = c[3] /\ p[12] = c[4]
    BY DEF Pack
<1>2. GetU32(p, 5) = GetU32(s, 1) /\ GetU32(p, 9) = GetU32(c, 1)
    BY <1>1 DEF GetU32
<1>3. GetU32(p, 5) = h.block_size /\ GetU32(p, 9) = h.crc
    BY <1>2, NumberRoundTrip DEF Fields
<1> QED
    BY <1>1, <1>3 DEF Unpack, Fields

-----------------------------------------------------------------------------
(* The file *)

LEMMA Numbers == /\ U32 \subseteq Nat /\ Byte \subseteq Nat
                 /\ {0, 1} \subseteq U32 /\ {0, 1} \subseteq Byte
                 /\ ID1 \in Byte /\ ID2 \in Byte
<1> DEFINE m == Radix * Radix * Radix * Radix
<1>1. m \in Nat /\ m > 1
  <2>1. Radix \in Nat /\ Radix >= 2
      BY RadixAssumption
  <2>2. Radix * Radix \in Nat /\ Radix * Radix >= 2
      BY <2>1
  <2> DEFINE m2 == Radix * Radix
             m3 == m2 * Radix
  <2>3. m3 \in Nat /\ m3 >= 2
    <3> HIDE DEF m2
    <3> QED
        BY <2>1, <2>2 DEF m2
  <2>4. m3 * Radix \in Nat /\ m3 * Radix >= 2
    <3> HIDE DEF m3
    <3> QED
        BY <2>1, <2>3
  <2> QED
      BY <2>4
<1> HIDE DEF m
<1>2. U32 = 0 .. m - 1
    BY DEF U32, m
<1> QED
    BY <1>1, <1>2, RadixAssumption, IDAssumption DEF Byte

\* The bytes of a number are bytes.
LEMMA NumberBytes ==
  ASSUME NEW n \in U32
  PROVE  Bytes32(n) \in [1 .. 4 -> Byte]
<1> DEFINE q == n \div Radix
           r == q \div Radix
           t == r \div Radix
<1>1. n \in Nat
    BY Numbers
<1>2. q \in Nat /\ n % Radix \in Byte
    BY <1>1, DivMod
<1>3. r \in Nat /\ q % Radix \in Byte
    BY <1>2, DivMod
<1>4. t \in Nat /\ r % Radix \in Byte
    BY <1>3, DivMod
<1>5. t % Radix \in Byte
    BY <1>4, DivMod
<1>6. Bytes32(n) = << n % Radix, q % Radix, r % Radix, t % Radix >>
    BY DEF Bytes32
<1> HIDE DEF q, r, t
<1> QED
    BY <1>2, <1>3, <1>4, <1>5, <1>6

LEMMA PackIsBytes ==
  ASSUME NEW h \in Fields
  PROVE  Pack(h) \in Seq(Byte) /\ Len(Pack(h)) = HeaderSize
<1> DEFINE s == Bytes32(h.block_size)
           c == Bytes32(h.crc)
           m == Bytes32(h.model)
<1>1. /\ s \in [1 .. 4 -> Byte] /\ c \in [1 .. 4 -> Byte] /\ m \in [1 .. 4 -> Byte]
      /\ h.id1 \in Byte /\ h.id2 \in Byte /\ h.maj \in Byte /\ h.min \in Byte
    BY NumberBytes DEF Fields
<1>2. Pack(h) = << h.id1, h.id2, h.maj, h.min, s[1], s[2], s[3], s[4],
                   c[1], c[2], c[3], c[4], m[1], m[2], m[3], m[4] >>
    BY DEF Pack
<1> HIDE DEF s, c, m
<1>3. \A i \in 1 .. 4 : s[i] \in Byte /\ c[i] \in Byte /\ m[i] \in Byte
    BY <1>1
<1>4. /\ s[1] \in Byte /\ s[2] \in Byte /\ s[3] \in Byte /\ s[4] \in Byte
      /\ c[1] \in Byte /\ c[2] \in Byte /\ c[3] \in Byte /\ c[4] \in Byte
      /\ m[1] \in Byte /\ m[2] \in Byte /\ m[3] \in Byte /\ m[4] \in Byte
    BY <1>3
<1> QED
    BY <1>1, <1>2, <1>4 DEF HeaderSize

\* The header that was written in front of block i, damaged perhaps.
Written(i) == [id1 |-> ID1, id2 |-> IF i = damaged THEN 0 ELSE ID2, maj |-> 0, min |-> 1,
               block_size |-> blocks[i].block_size, crc |-> blocks[i].crc, model |-> 1]

\* How the file was made.
Made == /\ blocks \in Seq([block_size : BlockSizes, crc : Crcs])
        /\ damaged \in 0 .. Len(blocks)
        /\ cut \in Nat /\ cut <= Len(WholeFile)
        /\ file = SubSeq(WholeFile, 1, Len(WholeFile) - cut)

\* What has been listed; none of it is damaged.
Listed == /\ listed \in Seq([block_size : BlockSizes, crc : Crcs])
          /\ bid = Len(listed) /\ bid \in 0 .. Len(blocks)
          /\ \A i \in 1 .. bid : listed[i] = blocks[i]
          /\ damaged > 0 => bid < damaged
          /\ seek_where = Boundary(bid) /\ block_size_tot = seek_where

\* Where in the file the program is, and what it has in its hands.
Walked == /\ stage \in {"open", "read", "header", "done", "abort", "invalid"}
          /\ offset \in Nat /\ hd1 \in Fields
          /\ stage \in {"open", "read"} => offset = seek_where
          /\ stage = "header" => /\ bid < Len(blocks)
                                 /\ hd1 = [Written(bid + 1) EXCEPT !.model = hd1.model]
          /\ stage = "done" => damaged = bid + 1 \/ Boundary(bid) >= Len(file)

InfoInv == Made /\ Listed /\ Walked

-----------------------------------------------------------------------------
(* Where the blocks are in the file *)

LEMMA WrittenIsHeader ==
  ASSUME Made, NEW i \in 1 .. Len(blocks)
  PROVE  /\ Written(i) \in Fields
         /\ blocks[i] \in [block_size : BlockSizes, crc : Crcs]
         /\ blocks[i].block_size \in Nat
<1>1. blocks[i] \in [block_size : BlockSizes, crc : Crcs]
  <2>1. blocks \in Seq([block_size : BlockSizes, crc : Crcs])
      BY DEF Made
  <2> QED
      BY <2>1, ElementOfSeq
<1>2. blocks[i].block_size \in U32 /\ blocks[i].crc \in U32
    BY <1>1, InfoAssumption
<1> QED
    BY <1>1, <1>2, Numbers DEF Written, Fields

LEMMA PayloadIsBytes ==
  ASSUME NEW n \in Nat
  PROVE  Payload(n) \in Seq(Byte) /\ Len(Payload(n)) = n
<1>1. NewHeader(1, 0, 1) \in Fields
    BY Numbers DEF NewHeader, Fields
<1>2. LooksLikeHeader \in Seq(Byte) /\ Len(LooksLikeHeader) = HeaderSize
    BY <1>1, PackIsBytes DEF LooksLikeHeader
<1>3. ASSUME NEW i \in 1 .. n PROVE LooksLikeHeader[((i - 1) % HeaderSize) + 1] \in Byte
  <2>1. ((i - 1) % HeaderSize) + 1 \in 1 .. HeaderSize
      BY DEF HeaderSize
  <2> QED
      BY <1>2, <2>1
<1>4. Payload(n) \in [1 .. n -> Byte]
    BY <1>3 DEF Payload
<1> QED
    BY <1>4, FunctionIsSeq

LEMMA BlockIsBytes ==
  ASSUME Made, NEW i \in 1 .. Len(blocks)
  PROVE  /\ BlockBytes(i) \in Seq(Byte)
         /\ Len(BlockBytes(i)) = HeaderSize + blocks[i].block_size
         /\ \A k \in 1 .. HeaderSize : BlockBytes(i)[k] = Pack(Written(i))[k]
<1> DEFINE n == blocks[i].block_size
           head == Pack(Written(i))
           packed == Pack(NewHeader(n, blocks[i].crc, 1))
<1>1. n \in Nat /\ Written(i) \in Fields
    BY WrittenIsHeader
<1>2. head \in Seq(Byte) /\ Len(head) = HeaderSize
    BY <1>1, PackIsBytes
<1>3. (IF i = damaged THEN [packed EXCEPT ![2] = 0] ELSE packed) = head
  <2>1. CASE i = damaged
    <3> DEFINE s == Bytes32(n)
               c == Bytes32(blocks[i].crc)
               m == Bytes32(1)
    <3>1. packed = << ID1, ID2, 0, 1, s[1], s[2], s[3], s[4],
                      c[1], c[2], c[3], c[4], m[1], m[2], m[3], m[4] >>
        BY DEF Pack, NewHeader
    <3>2. head = << ID1, 0, 0, 1, s[1], s[2], s[3], s[4],
                    c[1], c[2], c[3], c[4], m[1], m[2], m[3], m[4] >>
        BY <2>1 DEF Pack, Written
    <3> HIDE DEF s, c, m, packed, head
    <3>3. [packed EXCEPT ![2] = 0] = head
        BY <3>1, <3>2, SMTT(40)
    <3> QED
        BY <2>1, <3>3
  <2>2. CASE i # damaged
    <3>1. Written(i) = NewHeader(n, blocks[i].crc, 1)
        BY <2>2 DEF Written, NewHeader
    <3> QED
        BY <2>2, <3>1
  <2> QED
      BY <2>1, <2>2
<1>4. BlockBytes(i) = head \o Payload(n)
    BY <1>3 DEF BlockBytes
<1>5. Payload(n) \in Seq(Byte) /\ Len(Payload(n)) = n
    BY <1>1, PayloadIsBytes
<1> DEFINE tail == Payload(n)
<1> HIDE DEF head, tail, n
<1>6. /\ head \o tail \in Seq(Byte) /\ Len(head \o tail) = Len(head) + Len(tail)
      /\ \A k \in 1 .. Len(head) : (head \o tail)[k] = head[k]
    BY <1>2, <1>5, ConcatElements DEF tail
<1> QED
    BY <1>2, <1>4, <1>5, <1>6 DEF tail, head, n

LEMMA Layout ==
  ASSUME Made
  PROVE  /\ Len(blocks) \in Nat /\ Len(WholeFile) \in Nat /\ WholeFile \in Seq(Byte)
         /\ Boundary(0) = 0 /\ Boundary(Len(blocks)) = Len(WholeFile)
         /\ \A i \in 0 .. Len(blocks) : Boundary(i) \in Nat /\ Boundary(i) <= Len(WholeFile)
         /\ \A i \in 0 .. Len(blocks) - 1 :
               /\ blocks[i + 1].block_size \in Nat
               /\ Boundary(i + 1) = Boundary(i) + HeaderSize + blocks[i + 1].block_size
               /\ \A k \in 1 .. HeaderSize :
                     WholeFile[Boundary(i) + k] = Pack(Written(i + 1))[k]
<1> DEFINE n == Len(blocks)
           seqs == [i \in 1 .. n |-> BlockBytes(i)]
<1>1. n \in Nat
    BY DEF Made
<1>2. \A i \in 1 .. n : /\ BlockBytes(i) \in Seq(Byte) /\ blocks[i].block_size \in Nat
                        /\ Len(BlockBytes(i)) = HeaderSize + blocks[i].block_size
                        /\ \A k \in 1 .. HeaderSize : BlockBytes(i)[k] = Pack(Written(i))[k]
    BY BlockIsBytes, WrittenIsHeader
<1>3. seqs \in [1 .. n -> Seq(Byte)]
    BY <1>2
<1>4. WholeFile = FlattenSeq(seqs)
    BY DEF WholeFile
<1>5. \A i \in 0 .. n : Boundary(i) = Len(Part(seqs, i))
  <2> TAKE i \in 0 .. n
  <2>1. [j \in 1 .. i |-> seqs[j]] = [j \in 1 .. i |-> BlockBytes(j)]
      BY <1>1
  <2> QED
      BY <2>1 DEF Boundary, Part
<1>6. \A i \in 1 .. n : seqs[i] = BlockBytes(i)
    OBVIOUS
<1> HIDE DEF n, seqs
<1>7. /\ FlattenSeq(seqs) = Part(seqs, n) /\ Len(Part(seqs, 0)) = 0
      /\ \A i \in 0 .. n : /\ Part(seqs, i) \in Seq(Byte) /\ Len(Part(seqs, i)) \in Nat
                           /\ Len(Part(seqs, i)) <= Len(Part(seqs, n))
      /\ \A i \in 0 .. n - 1 :
            /\ Len(Part(seqs, i + 1)) = Len(Part(seqs, i)) + Len(seqs[i + 1])
            /\ \A k \in 1 .. Len(seqs[i + 1]) :
                  Part(seqs, n)[Len(Part(seqs, i)) + k] = seqs[i + 1][k]
  <2>1. FlattenSeq(seqs) = Part(seqs, n) /\ Len(Part(seqs, 0)) = 0
      BY <1>1, <1>3, FlattenParts
  <2>2. \A i \in 0 .. n : /\ Part(seqs, i) \in Seq(Byte) /\ Len(Part(seqs, i)) \in Nat
                           /\ Len(Part(seqs, i)) <= Len(Part(seqs, n))
      BY <1>1, <1>3, FlattenParts
  <2>3. ASSUME NEW i \in 0 .. n - 1
        PROVE  Len(Part(seqs, i + 1)) = Len(Part(seqs, i)) + Len(seqs[i + 1])
    <3> DEFINE j == i + 1
    <3>1. j = i + 1
        OBVIOUS
    <3> HIDE DEF j
    <3>2. Len(Part(seqs, j)) = Len(Part(seqs, i)) + Len(seqs[j])
        BY <1>1, <1>3, <3>1, PartNext
    <3> QED
        BY <3>1, <3>2
  <2>4. \A i \in 0 .. n - 1 : \A k \in 1 .. Len(seqs[i + 1]) :
           Part(seqs, n)[Len(Part(seqs, i)) + k] = seqs[i + 1][k]
      BY <1>1, <1>3, FlattenParts, Zenon
  <2> QED
      BY <2>1, <2>2, <2>3, <2>4
<1>8. 0 \in 0 .. n /\ n \in 0 .. n
    BY <1>1
<1>9. WholeFile \in Seq(Byte) /\ Len(WholeFile) = Len(Part(seqs, n)) /\ Len(WholeFile) \in Nat
    BY <1>4, <1>7, <1>8
<1>10. Boundary(0) = 0 /\ Boundary(n) = Len(WholeFile)
    BY <1>4, <1>5, <1>7, <1>8
<1>11. \A i \in 0 .. n : Boundary(i) \in Nat /\ Boundary(i) <= Len(WholeFile)
    BY <1>5, <1>7, <1>9
<1>12. ASSUME NEW i \in 0 .. n - 1
       PROVE  /\ blocks[i + 1].block_size \in Nat
              /\ Boundary(i + 1) = Boundary(i) + HeaderSize + blocks[i + 1].block_size
              /\ \A k \in 1 .. HeaderSize : WholeFile[Boundary(i) + k] = Pack(Written(i + 1))[k]
  <2> DEFINE j == i + 1
  <2>1. j \in 1 .. n /\ i \in 0 .. n /\ j \in 0 .. n
      BY <1>1
  <2>2. /\ Len(Part(seqs, j)) = Len(Part(seqs, i)) + Len(seqs[j])
        /\ \A k \in 1 .. Len(seqs[j]) : Part(seqs, n)[Len(Part(seqs, i)) + k] = seqs[j][k]
      BY <1>7
  <2>3. Len(Part(seqs, i)) \in Nat
      BY <1>7, <2>1
  <2> HIDE DEF j
  <2>4. /\ seqs[j] = BlockBytes(j) /\ blocks[j].block_size \in Nat
        /\ Len(BlockBytes(j)) = HeaderSize + blocks[j].block_size
        /\ \A k \in 1 .. HeaderSize : BlockBytes(j)[k] = Pack(Written(j))[k]
      BY <1>2, <1>6, <2>1
  <2>5. Boundary(j) = Len(Part(seqs, j)) /\ Boundary(i) = Len(Part(seqs, i))
      BY <1>5, <2>1
  <2>6. Boundary(j) = Boundary(i) + HeaderSize + blocks[j].block_size
    <3> DEFINE a == Len(Part(seqs, i))
               b == Len(Part(seqs, j))
               c == blocks[j].block_size
    <3>1. a \in Nat /\ c \in Nat /\ b = a + (HeaderSize + c)
        BY <2>2, <2>3, <2>4
    <3> HIDE DEF a, b, c
    <3>2. b = a + HeaderSize + c
        BY <3>1 DEF HeaderSize
    <3> QED
        BY <2>5, <3>2 DEF a, b, c
  <2>7. ASSUME NEW k \in 1 .. HeaderSize
        PROVE  WholeFile[Boundary(i) + k] = Pack(Written(j))[k]
    <3> DEFINE c == blocks[j].block_size
               d == Len(seqs[j])
    <3>a. c \in Nat /\ d = HeaderSize + c
        BY <2>4
    <3>1. k \in 1 .. d
      <4> HIDE DEF c, d
      <4> QED
          BY <3>a DEF HeaderSize
    <3> QED
        BY <1>4, <1>7, <2>2, <2>4, <2>5, <3>1
  <2> QED
      BY <2>4, <2>6, <2>7 DEF j
<1> QED
    BY <1>1, <1>9, <1>10, <1>11, <1>12 DEF n

-----------------------------------------------------------------------------
(* The steps *)

\* What is known of how many bytes there are for a header.
LEMMA AvailableIs ==
  ASSUME Len(file) \in Nat, offset \in Nat
  PROVE  /\ Available = HeaderSize => offset + HeaderSize <= Len(file)
         /\ Available = 0 => offset >= Len(file)
<1> DEFINE d == Len(file) - offset
           m == Min({HeaderSize, d})
<1>1. HeaderSize \in Int /\ HeaderSize > 0 /\ d \in Int
    BY DEF HeaderSize
<1> HIDE DEF d
<1>2. m \in {HeaderSize, d} /\ m <= HeaderSize /\ m <= d
  <2>1. \E x \in {HeaderSize, d} : \A y \in {HeaderSize, d} : x <= y
      BY <1>1
  <2>2. m \in {HeaderSize, d} /\ \A y \in {HeaderSize, d} : m <= y
      BY <2>1 DEF Min
  <2> QED
      BY <2>2
<1> HIDE DEF m
<1>3. Available \in {0, m} /\ Available >= 0 /\ Available >= m
  <2>1. m \in Int
      BY <1>1, <1>2
  <2>2. \E x \in {0, m} : \A y \in {0, m} : x >= y
      BY <2>1
  <2>3. Available = Max({0, m})
      BY DEF Available, m, d
  <2>4. Available \in {0, m} /\ \A y \in {0, m} : Available >= y
      BY <2>2, <2>3 DEF Max
  <2> QED
      BY <2>4
<1>4. Available = HeaderSize => d >= HeaderSize
    BY <1>1, <1>2, <1>3
<1>5. Available = 0 => ~(d > 0)
    BY <1>1, <1>2, <1>3
<1> QED
    BY <1>1, <1>4, <1>5 DEF d

\* How the file was made does not change.
LEMMA MadeKept ==
  ASSUME UNCHANGED made
  PROVE  /\ Made' = Made /\ file' = file /\ blocks' = blocks /\ damaged' = damaged
         /\ \A i : Boundary(i)' = Boundary(i) /\ Written(i)' = Written(i)
BY DEF made, Made, WholeFile, Boundary, BlockBytes, Written

LEMMA FileIs ==
  ASSUME Made
  PROVE  /\ file \in Seq(Byte)
         /\ Len(file) \in Nat /\ Len(file) <= Len(WholeFile) /\ Len(file) = Len(WholeFile) - cut
         /\ \A k \in 1 .. Len(file) : file[k] = WholeFile[k]
<1>1. WholeFile \in Seq(Byte) /\ Len(WholeFile) \in Nat
    BY Layout
<1>2. cut \in Nat /\ cut <= Len(WholeFile) /\ file = SubSeq(WholeFile, 1, Len(WholeFile) - cut)
    BY DEF Made
<1> QED
    BY <1>1, <1>2

LEMMA InitHolds == ASSUME Init PROVE InfoInv
<1> DEFINE Block == [block_size : BlockSizes, crc : Crcs]
<1>1. /\ blocks \in BoundedSeq(Block, MaxBlocks) /\ damaged \in 0 .. Len(blocks)
      /\ cut \in 0 .. MaxCut /\ cut <= Len(WholeFile)
      /\ file = SubSeq(WholeFile, 1, Len(WholeFile) - cut)
      /\ stage = "open" /\ offset = 0 /\ hd1 = BlankHeader
      /\ bid = 0 /\ seek_where = 0 /\ block_size_tot = 0 /\ listed = <<>>
    BY DEF Init
<1>2. blocks \in Seq(Block)
  <2>1. PICK n \in 0 .. MaxBlocks : blocks \in [1 .. n -> Block]
      BY <1>1 DEF BoundedSeq, SeqOf
  <2>2. n \in Nat
      BY <2>1, InfoAssumption
  <2> QED
      BY <2>1, <2>2, FunctionIsSeq
<1>3. Made
    BY <1>1, <1>2, InfoAssumption DEF Made
<1>4. Listed
  <2>1. Boundary(0) = 0
      BY <1>3, Layout
  <2>2. Len(blocks) \in Nat
      BY <1>2
  <2> QED
      BY <1>1, <2>1, <2>2 DEF Listed
<1>5. Walked
  <2>1. BlankHeader \in Fields
      BY Numbers DEF BlankHeader, Fields
  <2> QED
      BY <1>1, <2>1 DEF Walked
<1> QED
    BY <1>3, <1>4, <1>5 DEF InfoInv

\* What is read at the boundary of a block is the header that was written.
LEMMA ReadHeaderStep == ASSUME InfoInv, ReadHeader PROVE InfoInv'
<1>1. /\ stage = "read" /\ Available = HeaderSize /\ stage' = "header"
      /\ hd1' = Unpack(hd1, SubSeq(file, offset + 1, offset + HeaderSize))
      /\ offset' = offset + HeaderSize
      /\ UNCHANGED <<made, bid, seek_where, block_size_tot, listed>>
    BY DEF ReadHeader
<1>2. Made /\ Listed /\ Walked
    BY DEF InfoInv
<1>3. /\ offset \in Nat /\ hd1 \in Fields /\ offset = Boundary(bid)
      /\ bid \in 0 .. Len(blocks)
    BY <1>1, <1>2 DEF Walked, Listed
<1>4. /\ file \in Seq(Byte) /\ Len(file) \in Nat /\ Len(file) <= Len(WholeFile)
      /\ \A k \in 1 .. Len(file) : file[k] = WholeFile[k]
    BY <1>2, FileIs
<1>5. offset + HeaderSize <= Len(file)
    BY <1>1, <1>3, <1>4, AvailableIs
<1>6. bid < Len(blocks)
  <2>1. Boundary(Len(blocks)) = Len(WholeFile) /\ Len(blocks) \in Nat
      BY <1>2, Layout
  <2>2. bid # Len(blocks)
      BY <1>3, <1>4, <1>5, <2>1 DEF HeaderSize
  <2> QED
      BY <1>3, <2>1, <2>2
<1> DEFINE i == bid + 1
           buff == SubSeq(file, offset + 1, offset + HeaderSize)
<1>7. i \in 1 .. Len(blocks) /\ bid \in 0 .. Len(blocks) - 1
    BY <1>3, <1>6
<1>8. Written(i) \in Fields
    BY <1>2, <1>7, WrittenIsHeader
<1>9. \A k \in 1 .. HeaderSize : WholeFile[offset + k] = Pack(Written(i))[k]
    BY <1>2, <1>3, <1>7, Layout
<1>10. \A k \in 1 .. HeaderSize : buff[k] = Pack(Written(i))[k]
  <2> TAKE k \in 1 .. HeaderSize
  <2>1. offset + k \in 1 .. Len(file) /\ k \in 1 .. (offset + HeaderSize) - (offset + 1) + 1
    <3>1. /\ offset \in Nat /\ Len(file) \in Nat /\ HeaderSize = 16
          /\ offset + 16 <= Len(file) /\ k \in 1 .. 16
        BY <1>3, <1>4, <1>5 DEF HeaderSize
    <3> QED
        BY ONLY <3>1
  <2>2. buff[k] = file[offset + k]
    <3> DEFINE a == offset + 1
               b == offset + HeaderSize
               n == Len(file)
    <3>0. n \in Nat /\ offset \in Nat /\ offset + 16 <= n /\ k \in 1 .. 16
        BY <1>3, <1>4, <1>5 DEF HeaderSize
    <3>1. a \in 1 .. n /\ b \in 1 .. n /\ k \in 1 .. b - a + 1 /\ a + k - 1 = offset + k
      <4> HIDE DEF n
      <4> QED
          BY <3>0 DEF HeaderSize
    <3> HIDE DEF a, b
    <3>2. SubSeq(file, a, b)[k] = file[a + k - 1]
        BY <1>4, <3>1
    <3> QED
        BY <3>1, <3>2 DEF a, b
  <2> QED
      BY <1>4, <1>9, <2>1, <2>2
<1> HIDE DEF i, buff
<1>11. hd1' = [Written(i) EXCEPT !.model = hd1.model]
  <2> DEFINE p == Pack(Written(i))
  <2>1. Unpack(hd1, p) = [Written(i) EXCEPT !.model = hd1.model]
      BY <1>3, <1>8, HeaderRoundTrip
  <2> HIDE DEF p
  <2>2. /\ buff[1] = p[1] /\ buff[2] = p[2] /\ buff[3] = p[3] /\ buff[4] = p[4]
        /\ buff[5] = p[5] /\ buff[6] = p[6] /\ buff[7] = p[7] /\ buff[8] = p[8]
        /\ buff[9] = p[9] /\ buff[10] = p[10] /\ buff[11] = p[11] /\ buff[12] = p[12]
      BY <1>10 DEF p, HeaderSize
  <2>3. Unpack(hd1, buff) = Unpack(hd1, p)
      BY <2>2 DEF Unpack, GetU32
  <2> QED
      BY <1>1, <2>1, <2>3 DEF buff
<1>12. hd1'.model = hd1.model /\ hd1' \in Fields
    BY <1>3, <1>8, <1>11 DEF Fields
<1>13. UNCHANGED made
    BY <1>1
<1>14. Made' /\ Listed'
    BY <1>1, <1>2, <1>13, MadeKept DEF Listed
<1>15. Walked'
  <2>1. /\ stage' = "header" /\ bid' = bid /\ blocks' = blocks /\ bid < Len(blocks)
        /\ hd1' = [Written(i) EXCEPT !.model = hd1'.model]
        /\ offset' \in Nat /\ hd1' \in Fields
      BY <1>1, <1>3, <1>6, <1>11, <1>12, <1>13, MadeKept DEF HeaderSize
  <2>2. Written(bid + 1)' = Written(i)
      BY <1>13, <2>1, MadeKept DEF i
  <2> QED
      BY <2>1, <2>2 DEF Walked
<1> QED
    BY <1>14, <1>15 DEF InfoInv

\* Only a header that is not damaged is listed, and then the next block's is.
LEMMA ListBlockStep == ASSUME InfoInv, ListBlock PROVE InfoInv'
<1>1. /\ stage = "header" /\ IsHeader /\ stage' = "read"
      /\ listed' = Append(listed, Line(hd1)) /\ bid' = bid + 1
      /\ seek_where' = seek_where + hd1.block_size + HeaderSize
      /\ block_size_tot' = block_size_tot + hd1.block_size + HeaderSize
      /\ offset' = seek_where' /\ UNCHANGED made /\ hd1' = hd1
    BY DEF ListBlock
<1>2. Made /\ Listed /\ Walked
    BY DEF InfoInv
<1> DEFINE i == bid + 1
           h == Written(i)
<1>3. /\ bid \in 0 .. Len(blocks) - 1 /\ i \in 1 .. Len(blocks) /\ Len(blocks) \in Nat
      /\ bid \in Nat /\ hd1 = [h EXCEPT !.model = hd1.model]
  <2>1. bid < Len(blocks) /\ bid \in 0 .. Len(blocks) /\ hd1 = [h EXCEPT !.model = hd1.model]
      BY <1>1, <1>2 DEF Walked, Listed
  <2>2. Len(blocks) \in Nat
      BY <1>2, Layout
  <2> QED
      BY <2>1, <2>2
<1>4. /\ blocks[i] \in [block_size : BlockSizes, crc : Crcs] /\ blocks[i].block_size \in Nat
    BY <1>2, <1>3, WrittenIsHeader
<1>5. /\ hd1.block_size = blocks[i].block_size /\ hd1.crc = blocks[i].crc
      /\ hd1.id2 = IF i = damaged THEN 0 ELSE ID2
    BY <1>3 DEF Written
<1>6. i # damaged
    BY <1>1, <1>5, InfoAssumption DEF IsHeader
<1>7. Line(hd1) = blocks[i]
    BY <1>4, <1>5 DEF Line
<1>8. /\ Boundary(i) = Boundary(bid) + HeaderSize + blocks[i].block_size
      /\ Boundary(bid) \in Nat /\ Boundary(i) \in Nat
  <2>1. bid \in 0 .. Len(blocks) /\ i \in 0 .. Len(blocks)
      BY <1>3
  <2> QED
      BY <1>2, <1>3, <2>1, Layout
<1>9. Listed'
  <2>1. /\ listed \in Seq([block_size : BlockSizes, crc : Crcs]) /\ bid = Len(listed)
        /\ \A j \in 1 .. bid : listed[j] = blocks[j]
        /\ damaged > 0 => bid < damaged
        /\ seek_where = Boundary(bid) /\ block_size_tot = seek_where
      BY <1>2 DEF Listed
  <2>2. listed' = Append(listed, blocks[i])
      BY <1>1, <1>7
  <2>3. /\ listed' \in Seq([block_size : BlockSizes, crc : Crcs]) /\ bid' = Len(listed')
        /\ \A j \in 1 .. bid : listed'[j] = listed[j]
        /\ listed'[i] = blocks[i]
      BY <1>1, <1>4, <2>1, <2>2
  <2>4. ASSUME NEW j \in 1 .. bid' PROVE listed'[j] = blocks[j]
    <3>1. j \in 1 .. bid \/ j = i
        BY <1>1, <1>3
    <3> QED
        BY <2>1, <2>3, <3>1
  <2>5. damaged > 0 => i < damaged
    <3>1. damaged \in Nat
        BY <1>2, <1>3 DEF Made
    <3> QED
        BY <1>3, <1>6, <2>1, <3>1
  <2>6. seek_where' = Boundary(i) /\ block_size_tot' = seek_where'
    <3> DEFINE c == blocks[i].block_size
               a == Boundary(bid)
    <3>1. c \in Nat /\ a \in Nat /\ Boundary(i) = a + HeaderSize + c
        BY <1>4, <1>8
    <3>2. /\ seek_where' = a + c + HeaderSize
          /\ block_size_tot' = a + c + HeaderSize
        BY <1>1, <1>5, <2>1
    <3> HIDE DEF a, c
    <3> QED
        BY <3>1, <3>2 DEF HeaderSize
  <2>7. /\ blocks' = blocks /\ damaged' = damaged /\ bid' = i
        /\ \A j : Boundary(j)' = Boundary(j)
      BY <1>1, MadeKept
  <2>8. Boundary(bid)' = Boundary(i)
      BY <2>7
  <2>9. bid' \in 0 .. Len(blocks')
      BY <1>3, <2>7
  <2> QED
      BY <2>3, <2>4, <2>5, <2>6, <2>7, <2>8, <2>9 DEF Listed
<1>10. Made'
    BY <1>1, <1>2, MadeKept
<1>11. Walked'
  <2>1. seek_where' \in Nat
      BY <1>8, <1>9, <1>1, MadeKept DEF Listed
  <2> QED
      BY <1>1, <1>2, <2>1 DEF Walked
<1> QED
    BY <1>9, <1>10, <1>11 DEF InfoInv

\* The other steps only end the walk.
LEMMA WalkEnds ==
  ASSUME InfoInv, UNCHANGED <<made, offset, hd1, bid, seek_where, block_size_tot, listed>>,
         stage' \in {"read", "done", "abort", "invalid"}, stage' = "read" => stage = "open",
         stage' = "done" => damaged = bid + 1 \/ Boundary(bid) >= Len(file)
  PROVE  InfoInv'
<1>1. Made /\ Listed /\ Walked
    BY DEF InfoInv
<1>2. UNCHANGED made
    OBVIOUS
<1>3. Made' /\ Listed'
    BY <1>1, <1>2, MadeKept DEF Listed
<1>4. Walked'
    BY <1>1, <1>2, MadeKept DEF Walked
<1> QED
    BY <1>3, <1>4 DEF InfoInv

LEMMA ReadEndsStep == ASSUME InfoInv, ReadEnds PROVE InfoInv'
<1>1. /\ stage = "read" /\ stage' = IF Available = 0 THEN "done" ELSE "abort"
      /\ UNCHANGED <<made, offset, hd1, bid, seek_where, block_size_tot, listed>>
    BY DEF ReadEnds
<1>2. Made /\ offset \in Nat /\ offset = Boundary(bid)
    BY <1>1 DEF InfoInv, Walked, Listed
<1>3. Available = 0 => Boundary(bid) >= Len(file)
    BY <1>2, FileIs, AvailableIs
<1>4. stage' \in {"done", "abort"} /\ (stage' = "done" => Available = 0)
    BY <1>1
<1> QED
    BY <1>1, <1>3, <1>4, WalkEnds

LEMMA CorruptedStep == ASSUME InfoInv, Corrupted PROVE InfoInv'
<1>1. /\ stage = "header" /\ ~IsHeader /\ stage' = "done"
      /\ UNCHANGED <<made, offset, hd1, bid, seek_where, block_size_tot, listed>>
    BY DEF Corrupted
<1>2. hd1 = [Written(bid + 1) EXCEPT !.model = hd1.model]
    BY <1>1 DEF InfoInv, Walked
<1>3. damaged = bid + 1
  <2>1. hd1.id1 = ID1 /\ hd1.id2 = IF bid + 1 = damaged THEN 0 ELSE ID2
      BY <1>2 DEF Written
  <2> QED
      BY <1>1, <2>1 DEF IsHeader
<1> QED
    BY <1>1, <1>3, WalkEnds

LEMMA InfoStutter == ASSUME InfoInv, UNCHANGED vars PROVE InfoInv'
<1>1. /\ UNCHANGED made /\ UNCHANGED <<stage, offset, hd1, bid, seek_where, block_size_tot, listed>>
    BY DEF vars
<1>2. Made /\ Listed /\ Walked
    BY DEF InfoInv
<1>3. Made' /\ Listed'
    BY <1>1, <1>2, MadeKept DEF Listed
<1>4. Walked'
    BY <1>1, <1>2, MadeKept DEF Walked
<1> QED
    BY <1>3, <1>4 DEF InfoInv

LEMMA EveryStep == ASSUME InfoInv, [Next]_vars PROVE InfoInv'
<1>1. ASSUME Open PROVE InfoInv'
  <2>1. /\ stage = "open" /\ stage' \in {"invalid", "abort", "read"}
        /\ UNCHANGED <<made, offset, hd1, bid, seek_where, block_size_tot, listed>>
      BY <1>1 DEF Open
  <2> QED
      BY <2>1, WalkEnds
<1>2. ASSUME Stop \/ UNCHANGED vars PROVE InfoInv'
  <2>1. UNCHANGED vars
      BY <1>2 DEF Stop
  <2> QED
      BY <2>1, InfoStutter
<1> QED
    BY <1>1, <1>2, ReadHeaderStep, ReadEndsStep, ListBlockStep, CorruptedStep DEF Next, Walk

-----------------------------------------------------------------------------
(* The theorems *)

\* The invariant holds, for any number of blocks of any size.
THEOREM InfoInvariance == Spec => []InfoInv
<1>1. Init => InfoInv
    BY InitHolds
<1>2. InfoInv /\ [Next]_vars => InfoInv'
    BY EveryStep
<1> QED
    BY <1>1, <1>2, PTL DEF Spec

\* The variables of info have their types.
THEOREM InfoTypes == Spec => []TypeOK
<1>1. InfoInv => TypeOK
  <2> SUFFICES ASSUME InfoInv PROVE TypeOK
      OBVIOUS
  <2>1. Made /\ Listed /\ Walked
      BY DEF InfoInv
  <2>2. seek_where \in Nat /\ block_size_tot \in Nat /\ bid = Len(listed)
      BY <2>1, Layout DEF Listed
  <2>3. hd1 \in [id1 : Byte, id2 : Byte, maj : Byte, min : Byte, block_size : U32,
                 crc : U32, model : U32]
      BY <2>1 DEF Walked, Fields
  <2> QED
      BY <2>1, <2>2, <2>3 DEF TypeOK, Walked
<1> QED
    BY <1>1, InfoInvariance, PTL

\* Every read is at the header of a block, whatever the bytes of blocks look like.
THEOREM ReadsOnlyHeaders == Spec => []ReadsAtBoundaries
<1>1. InfoInv => ReadsAtBoundaries
  <2> SUFFICES ASSUME InfoInv, stage = "read"
               PROVE  /\ bid <= Len(blocks) /\ offset = Boundary(bid)
                      /\ seek_where = offset /\ block_size_tot = offset
      BY DEF ReadsAtBoundaries
  <2>1. Made /\ Listed /\ Walked
      BY DEF InfoInv
  <2>2. bid \in 0 .. Len(blocks) /\ Len(blocks) \in Nat
      BY <2>1, Layout DEF Listed
  <2> QED
      BY <2>1, <2>2 DEF Listed, Walked
<1> QED
    BY <1>1, InfoInvariance, PTL

\* The blocks listed are the first ones that were written.
THEOREM OnlyWrittenBlocksListed == Spec => []ListsAPrefix
<1>1. InfoInv => ListsAPrefix
  <2> SUFFICES ASSUME InfoInv PROVE IsPrefix(listed, blocks)
      BY DEF ListsAPrefix
  <2> DEFINE R == [block_size : BlockSizes, crc : Crcs]
  <2>1. /\ blocks \in Seq(R) /\ listed \in Seq(R) /\ Len(listed) \in 0 .. Len(blocks)
        /\ \A i \in 1 .. Len(listed) : listed[i] = blocks[i]
      BY DEF InfoInv, Made, Listed
  <2> HIDE DEF R
  <2>2. SubSeq(listed, 1, Len(listed)) = SubSeq(blocks, 1, Len(listed))
      BY <2>1
  <2> QED
      BY <2>1, <2>2 DEF IsPrefix
<1> QED
    BY <1>1, InfoInvariance, PTL

\* The walk that ends lists exactly the blocks before the damage, unless the file was
\* cut; then it leaves out only blocks whose headers the file does not reach.
THEOREM WholeFilesListed == Spec => []ListsWholeFiles
<1>1. InfoInv => ListsWholeFiles
  <2> SUFFICES ASSUME InfoInv PROVE ListsWholeFiles
      OBVIOUS
  <2> DEFINE R == [block_size : BlockSizes, crc : Crcs]
  <2>1. Made /\ Listed /\ Walked
      BY DEF InfoInv
  <2>2. /\ blocks \in Seq(R) /\ listed \in Seq(R) /\ bid = Len(listed)
        /\ bid \in 0 .. Len(blocks)
        /\ \A i \in 1 .. bid : listed[i] = blocks[i]
        /\ damaged > 0 => bid < damaged
        /\ stage = "done" => damaged = bid + 1 \/ Boundary(bid) >= Len(file)
      BY <2>1 DEF Made, Listed, Walked
  <2> HIDE DEF R
  <2>3. Len(blocks) \in Nat /\ damaged \in 0 .. Len(blocks)
      BY <2>1, Layout DEF Made
  <2>4. Len(listed) <= Sound
      BY <2>2, <2>3 DEF Sound
  <2>5. ASSUME stage = "done", Len(listed) < Sound PROVE Len(file) <= Boundary(Len(listed))
    <3>1. damaged # bid + 1
        BY <2>2, <2>3, <2>5 DEF Sound
    <3>2. Boundary(bid) >= Len(file)
        BY <2>2, <2>5, <3>1
    <3>3. Boundary(bid) \in Nat /\ Len(file) \in Nat
        BY <2>1, <2>2, FileIs, Layout
    <3> QED
        BY <2>2, <3>2, <3>3
  <2>6. ASSUME stage = "done", cut = 0 PROVE Len(listed) = Sound
    <3> SUFFICES ASSUME Len(listed) < Sound PROVE FALSE
        BY <2>2, <2>3, <2>4 DEF Sound
    <3>1. Boundary(bid) >= Len(file) /\ bid # Len(blocks)
      <4>1. Len(file) <= Boundary(bid) /\ Boundary(bid) \in Nat /\ Len(file) \in Nat
          BY <2>1, <2>2, <2>5, <2>6, FileIs, Layout
      <4> QED
          BY <2>2, <2>3, <4>1 DEF Sound
    <3>2. Len(file) = Len(WholeFile) /\ Len(WholeFile) \in Nat
        BY <2>1, <2>6, FileIs, Layout
    <3>3. FALSE
      <4>1. bid \in 0 .. Len(blocks) - 1 /\ bid + 1 \in 0 .. Len(blocks)
          BY <2>2, <2>3, <3>1
      <4>2. /\ blocks[bid + 1].block_size \in Nat
            /\ Boundary(bid + 1) = Boundary(bid) + HeaderSize + blocks[bid + 1].block_size
          BY <2>1, <4>1, Layout
      <4>3. Boundary(bid) \in Nat /\ Boundary(bid + 1) <= Len(WholeFile)
          BY <2>1, <2>2, <4>1, Layout
      <4> DEFINE c == blocks[bid + 1].block_size
                 a == Boundary(bid)
                 b == Boundary(bid + 1)
                 w == Len(WholeFile)
      <4>4. c \in Nat /\ a \in Nat /\ w \in Nat /\ b = a + HeaderSize + c /\ b <= w /\ a >= w
          BY <3>1, <3>2, <4>2, <4>3
      <4> HIDE DEF a, b, c, w
      <4> QED
          BY <4>4 DEF HeaderSize
    <3> QED
        BY <3>3
  <2> QED
      BY <2>4, <2>5, <2>6 DEF ListsWholeFiles
<1> QED
    BY <1>1, InfoInvariance, PTL
-----------------------------------------------------------------------------
(* How long the walk takes *)

\* What is ahead: two steps for each block that is not listed yet, and the end.
WalkLeft == CASE stage = "open" -> 2 * (Len(blocks) - bid) + 3
              [] stage = "read" -> 2 * (Len(blocks) - bid) + 2
              [] stage = "header" -> 2 * (Len(blocks) - bid) + 1
              [] OTHER -> 0

\* Every step of dach_info brings its end nearer: it takes at most two for each
\* block that was written and three more, also when blocks are empty and when the
\* file has been cut in the middle of one, so that the next seek is past its end.
THEOREM WalkGetsShorter ==
  Spec => /\ [](WalkLeft \in 0 .. 2 * Len(blocks) + 3)
          /\ [][WalkLeft' < WalkLeft]_vars
<1>1. ASSUME InfoInv
      PROVE  Len(blocks) \in Nat /\ bid \in 0 .. Len(blocks) /\ (stage = "header" => bid < Len(blocks))
  <2>1. Len(blocks) \in Nat
      BY <1>1, LenProperties DEF InfoInv, Made
  <2>2. bid \in 0 .. Len(blocks)
      BY <1>1, Zenon DEF InfoInv, Listed
  <2>3. stage = "header" => bid < Len(blocks)
      BY <1>1, Zenon DEF InfoInv, Walked
  <2> QED
      BY <2>1, <2>2, <2>3
<1>2. ASSUME InfoInv PROVE WalkLeft \in 0 .. 2 * Len(blocks) + 3
  <2> DEFINE m == 2 * (Len(blocks) - bid)
  <2>1. Len(blocks) \in Nat /\ m \in 0 .. 2 * Len(blocks)
      BY <1>1, <1>2
  <2> HIDE DEF m
  <2>2. WalkLeft \in {m + 3, m + 2, m + 1, 0}
      BY DEF WalkLeft, m
  <2> QED
      BY <2>1, <2>2
<1>3. ASSUME InfoInv, Walk PROVE WalkLeft' < WalkLeft
  <2> DEFINE n == Len(blocks)
  <2>1. n \in Nat /\ bid \in 0 .. n /\ (stage = "header" => bid < n)
      BY <1>1, <1>3
  <2>2. blocks' = blocks
      BY <1>3 DEF Walk, Open, ReadHeader, ReadEnds, ListBlock, Corrupted, made
  <2>3. CASE Open
    <3>1. /\ stage = "open" /\ stage' \in {"invalid", "abort", "read"} /\ bid' = bid
        BY <2>3 DEF Open
    <3>2. WalkLeft = 2 * (n - bid) + 3 /\ WalkLeft' \in {0, 2 * (n - bid) + 2}
        BY <2>2, <3>1 DEF WalkLeft
    <3> QED
        BY <2>1, <3>2
  <2>4. CASE ReadHeader
    <3>1. stage = "read" /\ stage' = "header" /\ bid' = bid
        BY <2>4 DEF ReadHeader
    <3>2. WalkLeft = 2 * (n - bid) + 2 /\ WalkLeft' = 2 * (n - bid) + 1
        BY <2>2, <3>1 DEF WalkLeft
    <3> QED
        BY <2>1, <3>2
  <2>5. CASE ReadEnds
    <3>1. stage = "read" /\ stage' \in {"done", "abort"}
        BY <2>5 DEF ReadEnds
    <3>2. WalkLeft = 2 * (n - bid) + 2 /\ WalkLeft' = 0
        BY <3>1 DEF WalkLeft
    <3> QED
        BY <2>1, <3>2
  <2>6. CASE ListBlock
    <3>1. stage = "header" /\ stage' = "read" /\ bid' = bid + 1
        BY <2>6 DEF ListBlock
    <3>2. WalkLeft = 2 * (n - bid) + 1 /\ WalkLeft' = 2 * (n - (bid + 1)) + 2
        BY <2>2, <3>1 DEF WalkLeft
    <3> QED
        BY <2>1, <3>1, <3>2
  <2>7. CASE Corrupted
    <3>1. stage = "header" /\ stage' = "done"
        BY <2>7 DEF Corrupted
    <3>2. WalkLeft = 2 * (n - bid) + 1 /\ WalkLeft' = 0
        BY <3>1 DEF WalkLeft
    <3> QED
        BY <2>1, <3>2
  <2> QED
      BY <1>3, <2>3, <2>4, <2>5, <2>6, <2>7 DEF Walk
<1>4. InfoInv /\ [Next]_vars => [WalkLeft' < WalkLeft]_vars
    BY <1>3 DEF Next, Stop
<1> QED
    BY <1>2, <1>4, InfoInvariance, PTL DEF Spec
=============================================================================
