----------------------------- MODULE PipeProofs ------------------------------
(***************************************************************************)
(* What a stream and its pipe keep for files of any length, blocks of any  *)
(* size and any number of operations: the blocks are the file, they are    *)
(* read once and in order, no position leaves its block, and the output is *)
(* what the handlers make of the blocks.                                   *)
(***************************************************************************)
EXTENDS Pipe, InductionLemmas

-----------------------------------------------------------------------------
(* The blocks of a file *)

\* Where block b begins; the block after the last begins at the end of the file.
Offset(b) == IF b = block_count THEN Len(file) ELSE b * block_size

LEMMA Division ==
  ASSUME NEW n \in Nat, NEW m \in Nat, m > 0
  PROVE  /\ n \div m \in Nat /\ n % m \in 0 .. m - 1
         /\ m * (n \div m) \in Nat /\ n = m * (n \div m) + (n % m)
<1>1. n \div m \in Nat
    OBVIOUS
<1>2. n % m \in 0 .. m - 1
    OBVIOUS
<1>3. m * (n \div m) \in Nat
    BY <1>1
<1>4. n = m * (n \div m) + (n % m)
    OBVIOUS
<1> QED
    BY <1>1, <1>2, <1>3, <1>4

LEMMA Products ==
  ASSUME NEW m \in Nat, NEW a \in Nat, NEW b \in Nat, a <= b
  PROVE  /\ m * a \in Nat /\ m * b \in Nat /\ m * a = a * m
         /\ m * (a + 1) = m * a + m
         /\ m * a <= m * b
<1> DEFINE c == b - a
<1>1. c \in Nat /\ b = a + c
    OBVIOUS
<1> HIDE DEF c
<1>2. m * (a + c) = m * a + m * c /\ m * c \in Nat /\ m * a \in Nat /\ m * a = a * m
    BY <1>1
<1>3. m * (a + 1) = m * a + m
    OBVIOUS
<1> QED
    BY <1>1, <1>2, <1>3

\* The last block ends where the file does, whether or not the sizes divide.
LEMMA LastBlock ==
  ASSUME NEW n \in Nat, n > 0, NEW m \in Nat, m > 0,
         NEW last, last = IF n % m # 0 THEN n % m ELSE m
  PROVE  /\ BlockCount(n, m) \in Nat /\ BlockCount(n, m) > 0
         /\ last \in 1 .. m
         /\ m * (BlockCount(n, m) - 1) + last = n
<1>1. /\ n \div m \in Nat /\ n % m \in 0 .. m - 1 /\ m * (n \div m) \in Nat
      /\ n = m * (n \div m) + (n % m)
    BY Division
<1>2. last \in 1 .. m
    BY <1>1
<1>3. CASE m > n
  <2>1. BlockCount(n, m) = 1 /\ n % m = n
      BY <1>3 DEF BlockCount
  <2> QED
      BY <1>2, <2>1
<1>4. CASE m = n
  <2>1. BlockCount(n, m) = 1 /\ n % m = 0
      BY <1>4 DEF BlockCount
  <2> QED
      BY <1>2, <1>4, <2>1
<1>5. CASE m < n
  <2> DEFINE q == n \div m
  <2>1. BlockCount(n, m) = q + (IF n % m = 0 THEN 0 ELSE 1)
      BY <1>5 DEF BlockCount
  <2>2. q # 0
    <3> SUFFICES ASSUME q = 0 PROVE FALSE
        OBVIOUS
    <3>1. m * q = 0
        OBVIOUS
    <3> QED
        BY <1>1, <1>5, <3>1
  <2> HIDE DEF q
  <2>3. q \in Nat /\ n = m * q + (n % m) /\ m * q \in Nat /\ n % m \in 0 .. m - 1
      BY <1>1 DEF q
  <2>4. m * (q - 1) = m * q - m
    <3>1. q - 1 \in Nat /\ q - 1 + 1 = q
        BY <2>2, <2>3
    <3>2. m * (q - 1 + 1) = m * (q - 1) + m /\ m * (q - 1) \in Nat
        BY <3>1, Products
    <3> QED
        BY <2>3, <3>1, <3>2
  <2>5. CASE n % m = 0
    <3>1. BlockCount(n, m) = q /\ last = m
        BY <2>1, <2>3, <2>5
    <3> QED
        BY <1>2, <2>2, <2>3, <2>4, <2>5, <3>1
  <2>6. CASE n % m # 0
    <3>1. BlockCount(n, m) = q + 1 /\ last = n % m
        BY <2>1, <2>3, <2>6
    <3>2. BlockCount(n, m) - 1 = q
        BY <2>3, <3>1
    <3>3. m * (BlockCount(n, m) - 1) + last = n
        BY <2>3, <3>1, <3>2, Zenon
    <3> QED
        BY <1>2, <2>3, <3>1, <3>3
  <2> QED
      BY <2>5, <2>6
<1> QED
    BY <1>3, <1>4, <1>5

\* Each block begins where the one before it ends, and none is empty.
LEMMA Cuts ==
  ASSUME Len(file) \in Nat, Len(file) > 0, block_size \in Nat, block_size > 0
  PROVE  /\ block_count \in Nat /\ block_count > 0
         /\ Offset(0) = 0 /\ Offset(block_count) = Len(file)
         /\ \A b \in 0 .. block_count - 1 :
               /\ BlockLength(b) \in Nat /\ BlockLength(b) > 0
               /\ Offset(b) = b * block_size /\ Offset(b) \in Nat
               /\ Offset(b + 1) = Offset(b) + BlockLength(b)
               /\ Offset(b + 1) <= Len(file)
<1> DEFINE n == Len(file)
           m == block_size
           c == block_count
           last == IF n % m # 0 THEN n % m ELSE m
<1>1. /\ c \in Nat /\ c > 0 /\ last \in 1 .. m /\ m * (c - 1) + last = n
    BY LastBlock DEF block_count
<1>2. \A b : BlockLength(b) = IF b = c - 1 THEN last ELSE m
    BY DEF BlockLength, LastBlockSize
<1> HIDE DEF n, last, c
<1>3. ASSUME NEW b \in 0 .. c - 1
      PROVE  /\ BlockLength(b) \in Nat /\ BlockLength(b) > 0
             /\ Offset(b) = b * m /\ Offset(b) \in Nat
             /\ Offset(b + 1) = Offset(b) + BlockLength(b)
             /\ Offset(b + 1) <= n
  <2>1. BlockLength(b) \in Nat /\ BlockLength(b) > 0 /\ b \in Nat /\ b # c /\ b <= c - 1
        /\ c - 1 \in Nat
      BY <1>1, <1>2, <1>3
  <2>2. Offset(b) = b * m
      BY <2>1 DEF Offset, c
  <2>3. /\ m * b \in Nat /\ m * b = b * m /\ m * (b + 1) = m * b + m /\ m * b <= m * (c - 1)
        /\ m * (c - 1) \in Nat
      BY <2>1, Products
  <2>4. CASE b = c - 1
    <3>1. Offset(b + 1) = n
        BY <1>1, <2>4 DEF Offset, c, n
    <3> QED
        BY <1>1, <1>2, <2>1, <2>2, <2>3, <2>4, <3>1
  <2>5. CASE b # c - 1
    <3>1. b + 1 # c /\ b + 1 <= c - 1 /\ b + 1 \in Nat
        BY <1>1, <2>1, <2>5
    <3>2. Offset(b + 1) = (b + 1) * m
        BY <3>1 DEF Offset, c
    <3>3. m * (b + 1) = (b + 1) * m /\ m * (b + 1) <= m * (c - 1)
        BY <2>1, <3>1, Products
    <3>4. BlockLength(b) = m
        BY <1>2, <2>5
    <3> QED
        BY <1>1, <2>1, <2>2, <2>3, <3>2, <3>3, <3>4
  <2> QED
      BY <2>4, <2>5
<1>4. Offset(0) = 0
    BY <1>1, <1>3
<1>5. Offset(c) = n
    BY DEF Offset, c, n
<1> QED
    BY <1>1, <1>3, <1>4, <1>5 DEF c, n

-----------------------------------------------------------------------------
(* The inductive invariant *)

Opened == {"user", "get_c", "add", "start", "blocks", "callback", "tofile", "done"}

\* Block b of the file when p of its bytes have been read.
InBlock(b, p) == [id |-> b, data |-> [i \in 1 .. BlockLength(b) |-> file[Offset(b) + i]],
                  pos |-> p, size |-> BlockLength(b), length |-> BlockLength(b),
                  bytes_written |-> 0]

\* What can be in the memory of an output block.
Value == Int \cup {Unwritten}
OutBlock == {o \in [id : Int, data : Seq(Value), pos : Nat, size : Nat, length : Nat,
                    bytes_written : Nat] : o.pos <= o.length /\ o.length <= Len(o.data)}

\* A stream that is open has all its blocks; those not yet returned are unread.
Blocks ==
    /\ file \in Seq(Int) /\ block_size \in Nat
    /\ \/ in = <<>> /\ out = <<>> /\ stage \notin Opened
       \/ /\ Len(file) > 0 /\ block_size > 0
          /\ DOMAIN in = 0 .. block_count - 1 /\ DOMAIN out = 0 .. block_count - 1
          /\ \A b \in 0 .. block_count - 1 :
                /\ in[b].pos \in 0 .. BlockLength(b)
                /\ in[b] = InBlock(b, in[b].pos)
                /\ b >= blocks_returned => in[b].pos = 0
                /\ out[b] \in OutBlock
          /\ blocks_returned <= block_count

\* Where the stream is: the block in use is the last one returned.
Position ==
    /\ stage \in Opened \cup {"open", "freed", "aborted"}
    /\ blocks_returned \in Nat /\ current \in Nat
    /\ stage \in {"get_c", "callback"} => blocks_returned = current + 1
    /\ stage = "open" => blocks_returned = 0 /\ got = <<>>
    /\ stage = "tofile" => current <= block_count

\* The bytes of the file that have been handed out.
Consumed == IF stage \in {"get_c", "callback"} THEN Offset(current) + in[current].pos
            ELSE Offset(blocks_returned)

Reading == /\ got \in Seq(Int) /\ Len(got) <= Len(file)
           /\ \A i \in 1 .. Len(got) : got[i] = file[i]
           /\ stage \in Opened => Len(got) = Consumed

\* Where the pipe is.  Its first operation is given all blocks that are left.
Operations ==
    /\ oper_array \in Seq(Callbacks) /\ Len(oper_array) <= MaxOps
    /\ oper \in 1 .. Len(oper_array) + 1
    /\ stage \in {"add", "start", "blocks", "callback", "tofile", "done"} => oper_array # <<>>
    /\ stage \in {"open", "user", "get_c"} => oper_array = <<>>
    /\ stage \in {"blocks", "callback"} => oper <= Len(oper_array)
    /\ bid \in Nat /\ bcount \in Nat /\ bid <= bcount
    /\ stage \in {"add", "callback"} => oper = 1
    /\ stage = "blocks" => bcount - bid = block_count - blocks_returned
    /\ stage = "callback" => bcount - bid = block_count - blocks_returned + 1
    /\ (stage \in Opened /\ oper > 1) \/ stage \in {"tofile", "done"}
          => blocks_returned = block_count

\* Who was given the blocks: the user, or the first operation.
FirstOperationOnly ==
    \A i \in DOMAIN handlers :
       handlers[i] \in ByHand \cup (IF oper_array = <<>> THEN {} ELSE {oper_array[1]})
Handling == handlers \in Seq(ByHand \cup Callbacks) /\ FirstOperationOnly

PipeInv == Blocks /\ Position /\ Reading /\ Operations /\ Handling
-----------------------------------------------------------------------------
(* What callbacks make of bytes, and what it does to a block *)

\* The recursive function behind OddOnes exists, and gives sequences.
LEMMA OddOnesAre ==
  ASSUME NEW bytes \in Seq(Int)
  PROVE  \E kept : /\ OddOnes(bytes) = kept[Len(bytes)]
                   /\ \A i \in 0 .. Len(bytes) : kept[i] \in Seq(Int)
                   /\ kept[0] = <<>>
                   /\ \A i \in 1 .. Len(bytes) :
                         kept[i] = IF bytes[i] % 2 = 1 THEN Append(kept[i - 1], bytes[i])
                                   ELSE kept[i - 1]
<1> DEFINE n == Len(bytes)
           Next1(k, i) == IF i = 0 THEN <<>>
                          ELSE IF bytes[i] % 2 = 1 THEN Append(k[i - 1], bytes[i])
                          ELSE k[i - 1]
           Kept(m, k) == k = [i \in 0 .. m |-> Next1(k, i)]
           kept == CHOOSE k : Kept(n, k)
<1>1. n \in Nat /\ \A i \in 1 .. n : bytes[i] \in Int
    OBVIOUS
<1>2. OddOnes(bytes) = kept[n]
    BY DEF OddOnes
<1>3. \A m \in Nat : \E k : Kept(m, k)
  <2> DEFINE S == {m \in Nat : ~\E k : Kept(m, k)}
  <2> SUFFICES ASSUME S # {} PROVE FALSE
      OBVIOUS
  <2>1. PICK m \in S : \A j \in S : m <= j
    <3>1. S \in SUBSET Nat
        OBVIOUS
    <3> HIDE DEF S
    <3> QED
        BY <3>1, Least
  <2>2. m \in Nat /\ ~\E k : Kept(m, k)
      BY <2>1
  <2>3. m # 0
    <3>1. Kept(0, [i \in {0} |-> <<>>])
        OBVIOUS
    <3> QED
        BY <2>2, <3>1
  <2>4. m - 1 \in Nat /\ m - 1 \notin S
    <3>1. m - 1 \in Nat /\ ~(m <= m - 1)
        BY <2>2, <2>3
    <3> HIDE DEF S
    <3> QED
        BY <2>1, <3>1
  <2>5. PICK k : Kept(m - 1, k)
      BY <2>4
  <2> DEFINE h == [i \in 0 .. m |-> IF i < m THEN k[i] ELSE Next1(k, i)]
  <2>6. \A i \in 0 .. m - 1 : k[i] = Next1(k, i)
      BY <2>2, <2>5
  <2>7. ASSUME NEW i \in 0 .. m
        PROVE  h[i] = Next1(h, i)
    <3>1. i = 0 \/ (i - 1 \in 0 .. m /\ i - 1 < m)
        BY <2>2
    <3>2. i = 0 \/ h[i - 1] = k[i - 1]
        BY <3>1
    <3>3. Next1(h, i) = Next1(k, i)
        BY <3>2
    <3>4. h[i] = Next1(k, i)
      <4>1. CASE i < m
        <5>1. h[i] = k[i] /\ i \in 0 .. m - 1
            BY <2>2, <4>1
        <5> QED
            BY <2>6, <5>1
      <4>2. CASE ~(i < m)
          BY <4>2
      <4> QED
          BY <4>1, <4>2
    <3> QED
        BY <3>3, <3>4
  <2>8. Kept(m, h)
    <3> HIDE DEF Next1
    <3>1. h = [i \in 0 .. m |-> h[i]]
        OBVIOUS
    <3> HIDE DEF h
    <3> QED
        BY <2>7, <3>1
  <2> QED
      BY <2>2, <2>8
<1>4. Kept(n, kept)
    BY <1>1, <1>3
<1> HIDE DEF kept
<1>5. \A i \in 0 .. n : kept[i] = Next1(kept, i)
    BY <1>4
<1> DEFINE T == {i \in 0 .. n : kept[i] \notin Seq(Int)}
<1>6. T = {}
  <2> SUFFICES ASSUME T # {} PROVE FALSE
      OBVIOUS
  <2>1. PICK i \in T : \A j \in T : i <= j
    <3>1. T \in SUBSET Nat
        BY <1>1
    <3> HIDE DEF T
    <3> QED
        BY <3>1, Least
  <2>2. kept[i] = Next1(kept, i) /\ i \in 0 .. n /\ kept[i] \notin Seq(Int)
      BY <1>5, <2>1
  <2>3. CASE i = 0
      BY <2>2, <2>3
  <2>4. CASE i # 0
    <3>1. i - 1 \in 0 .. n /\ ~(i <= i - 1) /\ i \in 1 .. n
        BY <1>1, <2>2, <2>4
    <3>2. kept[i - 1] \in Seq(Int)
        BY <2>1, <3>1
    <3>3. bytes[i] \in Int
        BY <1>1, <3>1
    <3>4. Append(kept[i - 1], bytes[i]) \in Seq(Int)
        BY <3>2, <3>3
    <3> QED
        BY <2>2, <2>4, <3>2, <3>4
  <2> QED
      BY <2>3, <2>4
<1>7. /\ 0 \in 0 .. n /\ \A i \in 1 .. n : i \in 0 .. n /\ i # 0
    BY <1>1
<1>8. /\ \A i \in 0 .. n : kept[i] \in Seq(Int)
      /\ kept[0] = <<>>
      /\ \A i \in 1 .. n : kept[i] = IF bytes[i] % 2 = 1 THEN Append(kept[i - 1], bytes[i])
                                     ELSE kept[i - 1]
    BY <1>5, <1>6, <1>7
<1> QED
    BY <1>2, <1>8

LEMMA AppendToConcat ==
  ASSUME NEW a \in Seq(Int), NEW b \in Seq(Int), NEW x \in Int
  PROVE  Append(a \o b, x) = a \o Append(b, x)
<1>1. <<x>> \in Seq(Int) /\ a \o b \in Seq(Int)
    BY ConcatProperties
<1>2. Append(a \o b, x) = (a \o b) \o <<x>> /\ Append(b, x) = b \o <<x>>
    BY <1>1, AppendIsConcat
<1>3. (a \o b) \o <<x>> = a \o (b \o <<x>>)
    BY <1>1, ConcatAssociative
<1> QED
    BY <1>2, <1>3, Zenon

LEMMA OddOnesOfBoth ==
  ASSUME NEW s \in Seq(Int), NEW t \in Seq(Int)
  PROVE  OddOnes(s \o t) = OddOnes(s) \o OddOnes(t)
<1> DEFINE u == s \o t
           n == Len(s)
           m == Len(t)
<1>1. /\ u \in Seq(Int) /\ n \in Nat /\ m \in Nat /\ Len(u) = n + m
      /\ \A i \in 1 .. n : u[i] = s[i] /\ s[i] \in Int
      /\ \A j \in 1 .. m : u[n + j] = t[j] /\ t[j] \in Int
    BY ConcatElements
<1> HIDE DEF u
<1>2. PICK f : /\ OddOnes(s) = f[n] /\ \A i \in 0 .. n : f[i] \in Seq(Int)
               /\ f[0] = <<>>
               /\ \A i \in 1 .. n : f[i] = IF s[i] % 2 = 1 THEN Append(f[i - 1], s[i])
                                           ELSE f[i - 1]
    BY OddOnesAre
<1>3. PICK g : /\ OddOnes(t) = g[m] /\ \A i \in 0 .. m : g[i] \in Seq(Int)
               /\ g[0] = <<>>
               /\ \A i \in 1 .. m : g[i] = IF t[i] % 2 = 1 THEN Append(g[i - 1], t[i])
                                           ELSE g[i - 1]
    BY OddOnesAre
<1>4. PICK h : /\ OddOnes(u) = h[Len(u)] /\ \A i \in 0 .. Len(u) : h[i] \in Seq(Int)
               /\ h[0] = <<>>
               /\ \A i \in 1 .. Len(u) : h[i] = IF u[i] % 2 = 1 THEN Append(h[i - 1], u[i])
                                                ELSE h[i - 1]
  <2>1. u \in Seq(Int)
      BY <1>1
  <2> QED
      BY <2>1, OddOnesAre
<1> HIDE DEF n, m
<1>a. n \in Nat /\ m \in Nat /\ n \in 0 .. n /\ m \in 0 .. m
    BY <1>1
<1>5. \A i \in 1 .. n + m : h[i] = IF u[i] % 2 = 1 THEN Append(h[i - 1], u[i]) ELSE h[i - 1]
    BY <1>1, <1>4
<1>6. h[n] = f[n]
  <2> DEFINE T == {i \in 0 .. n : h[i] # f[i]}
  <2> SUFFICES ASSUME T # {} PROVE FALSE
      BY <1>a
  <2>1. PICK i \in T : \A j \in T : i <= j
    <3>1. T \in SUBSET Nat
        BY <1>a
    <3> HIDE DEF T
    <3> QED
        BY <3>1, Least
  <2>2. i \in 0 .. n /\ h[i] # f[i] /\ i # 0
      BY <1>2, <1>4, <2>1
  <2>3. i - 1 \in 0 .. n /\ ~(i <= i - 1) /\ i \in 1 .. n /\ i \in 1 .. n + m
      BY <1>1, <2>2
  <2>4. h[i - 1] = f[i - 1]
      BY <2>1, <2>3
  <2> QED
      BY <1>1, <1>2, <1>5, <2>2, <2>3, <2>4
<1>7. h[n + m] = f[n] \o g[m]
  <2> DEFINE T == {j \in 0 .. m : h[n + j] # f[n] \o g[j]}
  <2> SUFFICES ASSUME T # {} PROVE FALSE
      BY <1>a
  <2>1. PICK j \in T : \A k \in T : j <= k
    <3>1. T \in SUBSET Nat
      <4>1. 0 .. m \subseteq Nat
          BY <1>a
      <4>2. T \subseteq 0 .. m
          BY Zenon
      <4> HIDE DEF T
      <4> QED
          BY <4>1, <4>2
    <3> HIDE DEF T
    <3> QED
        BY <3>1, Least
  <2>2. j \in 0 .. m /\ h[n + j] # f[n] \o g[j]
      BY <2>1
  <2>3. f[n] \in Seq(Int)
      BY <1>1, <1>2
  <2>4. j # 0
    <3>1. f[n] \o g[0] = f[n] /\ n + 0 = n
        BY <1>1, <1>3, <2>3, ConcatEmptySeq
    <3> QED
        BY <1>6, <2>2, <3>1
  <2>5. /\ j - 1 \in 0 .. m /\ ~(j <= j - 1) /\ j \in 1 .. m /\ n + j \in 1 .. n + m
        /\ n + j - 1 = n + (j - 1)
      BY <1>1, <2>2, <2>4
  <2>6. h[n + (j - 1)] = f[n] \o g[j - 1] /\ g[j - 1] \in Seq(Int)
      BY <1>3, <2>1, <2>5
  <2>7. u[n + j] = t[j] /\ t[j] \in Int
      BY <1>1, <2>5
  <2>8. h[n + j] = IF t[j] % 2 = 1 THEN Append(f[n] \o g[j - 1], t[j]) ELSE f[n] \o g[j - 1]
    <3> DEFINE k == n + j
    <3>1. k \in 1 .. n + m /\ k - 1 = n + (j - 1)
        BY <1>a, <2>5
    <3>2. h[k] = IF u[k] % 2 = 1 THEN Append(h[k - 1], u[k]) ELSE h[k - 1]
        BY <1>5, <3>1
    <3>3. h[k - 1] = f[n] \o g[j - 1] /\ u[k] = t[j]
        BY <2>6, <2>7, <3>1
    <3> QED
        BY <3>2, <3>3
  <2>9. Append(f[n] \o g[j - 1], t[j]) = f[n] \o Append(g[j - 1], t[j])
      BY <2>3, <2>6, <2>7, AppendToConcat
  <2>10. g[j] = IF t[j] % 2 = 1 THEN Append(g[j - 1], t[j]) ELSE g[j - 1]
      BY <1>3, <2>5 DEF m
  <2> QED
      BY <2>2, <2>8, <2>9, <2>10
<1> QED
    BY <1>1, <1>2, <1>3, <1>4, <1>7 DEF u, n, m

LEMMA OddOnesFits ==
  ASSUME NEW bytes \in Seq(Int)
  PROVE  OddOnes(bytes) \in Seq(Int)
<1>1. Len(bytes) \in 0 .. Len(bytes)
    OBVIOUS
<1> QED
    BY <1>1, OddOnesAre

\* Callbacks and users write numbers.
LEMMA ApplyFits ==
  ASSUME NEW h \in Callbacks \cup ByHand, NEW bytes \in Seq(Int)
  PROVE  Apply(h, bytes) \in Seq(Int)
<1>1. h \in {"copy", "negate", "twice", "odd", "get_c", "dach_copy"}
    BY PipeAssumption
<1>2. Len(bytes) \in Nat /\ \A i \in 1 .. Len(bytes) : bytes[i] \in Int
    OBVIOUS
<1>3. CASE h = "negate"
  <2>1. Apply(h, bytes) = [i \in DOMAIN bytes |-> -bytes[i]]
      BY <1>3 DEF Apply
  <2>2. Apply(h, bytes) = [i \in 1 .. Len(bytes) |-> -bytes[i]]
      BY <2>1
  <2>3. \A i \in 1 .. Len(bytes) : -bytes[i] \in Int
      BY <1>2
  <2> QED
      BY <1>2, <2>2, <2>3
<1>4. CASE h = "twice"
  <2>1. Apply(h, bytes) = [i \in 1 .. 2 * Len(bytes) |-> bytes[(i + 1) \div 2]]
      BY <1>4 DEF Apply
  <2>2. \A i \in 1 .. 2 * Len(bytes) : (i + 1) \div 2 \in 1 .. Len(bytes)
      BY <1>2
  <2>3. \A i \in 1 .. 2 * Len(bytes) : bytes[(i + 1) \div 2] \in Int
      BY <1>2, <2>2
  <2>4. 2 * Len(bytes) \in Nat
      BY <1>2
  <2> QED
      BY <2>1, <2>3, <2>4
<1>5. CASE h = "odd"
  <2>1. Apply(h, bytes) = OddOnes(bytes)
      BY <1>5 DEF Apply
  <2> QED
      BY <2>1, OddOnesFits
<1>6. CASE h = "copy" \/ h = "dach_copy"
  <2>1. Apply(h, bytes) = bytes
      BY <1>6 DEF Apply
  <2> QED
      BY <2>1
<1>7. CASE h = "get_c"
  <2>1. Apply(h, bytes) = <<>>
      BY <1>7 DEF Apply
  <2> QED
      BY <2>1
<1> QED
    BY <1>1, <1>3, <1>4, <1>5, <1>6, <1>7

\* A handler makes the same of some bytes as of their parts: where a block is cut
\* into reads does not matter.
LEMMA ApplyToBoth ==
  ASSUME NEW h \in Callbacks \cup ByHand, NEW s \in Seq(Int), NEW t \in Seq(Int)
  PROVE  Apply(h, s \o t) = Apply(h, s) \o Apply(h, t)
<1> DEFINE u == s \o t
           a == Apply(h, s)
           b == Apply(h, t)
           n == Len(s)
           m == Len(t)
<1>1. h \in {"copy", "negate", "twice", "odd", "get_c", "dach_copy"}
    BY PipeAssumption
<1>2. /\ u \in Seq(Int) /\ n \in Nat /\ m \in Nat /\ Len(u) = n + m
      /\ \A i \in 1 .. n : u[i] = s[i] /\ s[i] \in Int
      /\ \A i \in 1 .. m : u[n + i] = t[i] /\ t[i] \in Int
    BY ConcatElements
<1>3. a \in Seq(Int) /\ b \in Seq(Int) /\ Apply(h, u) \in Seq(Int)
    BY <1>2, ApplyFits
<1>4. /\ a \o b \in Seq(Int) /\ Len(a) \in Nat /\ Len(b) \in Nat
      /\ Len(a \o b) = Len(a) + Len(b)
      /\ \A i \in 1 .. Len(a) : (a \o b)[i] = a[i]
      /\ \A i \in 1 .. Len(b) : (a \o b)[Len(a) + i] = b[i]
    BY <1>3, ConcatElements
<1>5. CASE h = "negate"
  <2> DEFINE c == [i \in 1 .. n + m |-> -u[i]]
  <2>1. /\ a = [i \in 1 .. n |-> -s[i]] /\ b = [i \in 1 .. m |-> -t[i]]
        /\ Apply(h, u) = c
      BY <1>2, <1>5 DEF Apply
  <2> HIDE DEF u, n, m
  <2>2. Len(a) = n /\ Len(b) = m /\ Len(c) = n + m
      BY <1>2, <2>1
  <2>3. ASSUME NEW i \in 1 .. n + m PROVE c[i] = (a \o b)[i]
    <3>1. CASE i <= n
      <4>1. i \in 1 .. n /\ c[i] = -s[i] /\ a[i] = -s[i]
          BY <1>2, <2>1, <3>1
      <4> QED
          BY <1>4, <2>2, <4>1
    <3>2. CASE ~(i <= n)
      <4> DEFINE j == i - n
      <4>1. j \in 1 .. m /\ i = n + j
          BY <1>2, <3>2
      <4> HIDE DEF j
      <4>2. c[i] = -t[j] /\ b[j] = -t[j]
          BY <1>2, <2>1, <4>1
      <4> QED
          BY <1>4, <2>2, <4>1, <4>2
    <3> QED
        BY <3>1, <3>2
  <2> HIDE DEF a, b, c
  <2>a. c \in Seq(Int) /\ a \o b \in Seq(Int) /\ Len(c) = Len(a \o b)
      BY <1>2, <1>3, <1>4, <2>1, <2>2
  <2>b. \A i \in 1 .. Len(c) : c[i] = (a \o b)[i]
      BY <2>2, <2>3
  <2>4. c = a \o b
      BY <2>a, <2>b, SeqEqual
  <2> QED
      BY <2>1, <2>4 DEF a, b, u
<1>6. CASE h = "twice"
  <2> DEFINE c == [i \in 1 .. 2 * (n + m) |-> u[(i + 1) \div 2]]
  <2>1. /\ a = [i \in 1 .. 2 * n |-> s[(i + 1) \div 2]]
        /\ b = [i \in 1 .. 2 * m |-> t[(i + 1) \div 2]]
        /\ Apply(h, u) = c
      BY <1>2, <1>6 DEF Apply
  <2> HIDE DEF u, n, m
  <2>2. Len(a) = 2 * n /\ Len(b) = 2 * m /\ Len(c) = 2 * n + 2 * m
      BY <1>2, <2>1
  <2>3. ASSUME NEW i \in 1 .. 2 * n + 2 * m PROVE c[i] = (a \o b)[i]
    <3>1. CASE i <= 2 * n
      <4>1. i \in 1 .. 2 * n /\ (i + 1) \div 2 \in 1 .. n /\ i \in 1 .. 2 * (n + m)
          BY <1>2, <3>1
      <4>2. c[i] = s[(i + 1) \div 2] /\ a[i] = s[(i + 1) \div 2]
          BY <1>2, <2>1, <4>1
      <4> QED
          BY <1>4, <2>2, <4>1, <4>2
    <3>2. CASE ~(i <= 2 * n)
      <4> DEFINE j == i - 2 * n
      <4>1. /\ j \in 1 .. 2 * m /\ i = 2 * n + j /\ (j + 1) \div 2 \in 1 .. m
            /\ (i + 1) \div 2 = n + ((j + 1) \div 2) /\ i \in 1 .. 2 * (n + m)
          BY <1>2, <3>2
      <4> HIDE DEF j
      <4>2. c[i] = t[(j + 1) \div 2] /\ b[j] = t[(j + 1) \div 2]
          BY <1>2, <2>1, <4>1
      <4> QED
          BY <1>4, <2>2, <4>1, <4>2
    <3> QED
        BY <3>1, <3>2
  <2> HIDE DEF a, b, c
  <2>a. c \in Seq(Int) /\ a \o b \in Seq(Int) /\ Len(c) = Len(a \o b)
      BY <1>2, <1>3, <1>4, <2>1, <2>2
  <2>b. \A i \in 1 .. Len(c) : c[i] = (a \o b)[i]
      BY <2>2, <2>3
  <2>4. c = a \o b
      BY <2>a, <2>b, SeqEqual
  <2> QED
      BY <2>1, <2>4 DEF a, b, u
<1>7. CASE h = "odd"
  <2>1. a = OddOnes(s) /\ b = OddOnes(t) /\ Apply(h, u) = OddOnes(u)
      BY <1>7 DEF Apply
  <2> QED
      BY <2>1, OddOnesOfBoth
<1>8. CASE h = "copy" \/ h = "dach_copy"
  <2>1. a = s /\ b = t /\ Apply(h, u) = u
      BY <1>8 DEF Apply
  <2> QED
      BY <2>1
<1>9. CASE h = "get_c"
  <2>1. a = <<>> /\ b = <<>> /\ Apply(h, u) = <<>>
      BY <1>9 DEF Apply
  <2>2. a \o b = <<>>
      BY <1>3, <2>1, ConcatEmptySeq
  <2> QED
      BY <2>1, <2>2
<1> QED
    BY <1>1, <1>5, <1>6, <1>7, <1>8, <1>9

\* Writing leaves the position inside the block, and its length inside the memory.
LEMMA OutWrite ==
  ASSUME NEW o \in OutBlock, NEW bytes \in Seq(Int)
  PROVE  AfterWrite(o, bytes) \in OutBlock
<1> DEFINE n == Len(bytes)
           r == Room(o, n)
           w == AfterWrite(o, bytes)
           d == [i \in DOMAIN r.data |-> IF i - o.pos \in DOMAIN bytes
                                         THEN bytes[i - o.pos] ELSE r.data[i]]
           Fields == [id : Int, data : Seq(Value), pos : Nat, size : Nat, length : Nat,
                      bytes_written : Nat]
<1>1. /\ n \in Nat /\ DOMAIN bytes = 1 .. n /\ \A i \in 1 .. n : bytes[i] \in Int
      /\ o \in Fields /\ o.pos <= o.length /\ o.length <= Len(o.data)
      /\ Len(o.data) \in Nat /\ o.data \in Seq(Value)
      /\ o.pos \in Nat /\ o.length \in Nat
    BY DEF OutBlock
<1>2. /\ r \in Fields /\ r.pos = o.pos /\ r.pos + n <= r.length /\ r.length <= Len(r.data)
      /\ r.bytes_written \in Nat
  <2>1. CASE n + o.pos >= o.length
    <3> DEFINE k == n + o.pos
               mem == Resized(o.data, k)
    <3>1. k \in Nat
        BY <1>1
    <3>2. mem \in Seq(Value) /\ Len(mem) = k
      <4>1. \A i \in 1 .. Len(o.data) : o.data[i] \in Value
          BY <1>1
      <4>2. \A i \in 1 .. k : (IF i <= Len(o.data) THEN o.data[i] ELSE Unwritten) \in Value
          BY <1>1, <3>1, <4>1 DEF Value
      <4>3. mem = [i \in 1 .. k |-> IF i <= Len(o.data) THEN o.data[i] ELSE Unwritten]
          BY DEF Resized
      <4>4. mem \in [1 .. k -> Value]
          BY <4>2, <4>3
      <4> QED
          BY <3>1, <4>4, FunctionIsSeq
    <3>3. r = [o EXCEPT !.data = mem, !.length = k]
        BY <2>1 DEF Room
    <3> HIDE DEF mem
    <3>4. r = [id |-> o.id, data |-> mem, pos |-> o.pos, size |-> o.size, length |-> k,
               bytes_written |-> o.bytes_written]
        BY <1>1, <3>3
    <3> QED
        BY <1>1, <3>1, <3>2, <3>4
  <2>2. CASE ~(n + o.pos >= o.length)
    <3>1. r = o
        BY <2>2 DEF Room
    <3> QED
        BY <1>1, <2>2, <3>1
  <2> QED
      BY <2>1, <2>2
<1>3. w = [r EXCEPT !.data = d, !.pos = r.pos + n, !.bytes_written = r.bytes_written + n]
    BY DEF AfterWrite
<1> HIDE DEF r, w
<1>4. w = [id |-> r.id, data |-> d, pos |-> r.pos + n, size |-> r.size, length |-> r.length,
           bytes_written |-> r.bytes_written + n]
    BY <1>2, <1>3
<1>5. d \in Seq(Value) /\ Len(d) = Len(r.data)
  <2>1. DOMAIN r.data = 1 .. Len(r.data) /\ Len(r.data) \in Nat
        /\ \A i \in 1 .. Len(r.data) : r.data[i] \in Value
      BY <1>2
  <2>2. \A i \in 1 .. Len(r.data) : d[i] \in Value
      BY <1>1, <2>1 DEF Value
  <2>3. d = [i \in 1 .. Len(r.data) |-> d[i]]
      BY <2>1
  <2>4. d \in [1 .. Len(r.data) -> Value]
      BY <2>2, <2>3
  <2> QED
      BY <2>1, <2>4, FunctionIsSeq
<1> HIDE DEF d, n
<1>6. r.pos + n \in Nat /\ r.bytes_written + n \in Nat
    BY <1>1, <1>2
<1> QED
    BY <1>2, <1>4, <1>5, <1>6 DEF w, OutBlock

LEMMA OutSeek ==
  ASSUME NEW o \in OutBlock
  PROVE  AfterSeek(o) \in OutBlock
<1>1. AfterSeek(o) = [id |-> o.id, data |-> o.data, pos |-> 0, size |-> o.size,
                      length |-> o.length, bytes_written |-> o.bytes_written]
    BY DEF AfterSeek, OutBlock
<1> QED
    BY <1>1 DEF OutBlock

-----------------------------------------------------------------------------
(* What is read of a block of the file *)

LEMMA ReadsOf ==
  ASSUME file \in Seq(Int), NEW b, BlockLength(b) \in Nat, Offset(b) \in Nat,
         Offset(b) + BlockLength(b) <= Len(file),
         NEW p \in 0 .. BlockLength(b)
  PROVE  LET o == InBlock(b, p)
             r == Readable(o, ReadSize)
             bytes == BytesRead(o, ReadSize)
         IN  /\ r \in 0 .. BlockLength(b) - p /\ (p < BlockLength(b) <=> r > 0)
             /\ AfterRead(o, ReadSize) = InBlock(b, p + r)
             /\ bytes \in Seq(Int) /\ Len(bytes) = r
             /\ \A i \in 1 .. r : bytes[i] = file[Offset(b) + p + i]
             /\ p < BlockLength(b) => /\ GetC(o) = file[Offset(b) + p + 1]
                                      /\ GetC(o) \in Int
                                      /\ AfterGetC(o) = InBlock(b, p + 1)
<1> DEFINE n == BlockLength(b)
           off == Offset(b)
           d == [i \in 1 .. n |-> file[off + i]]
           o == InBlock(b, p)
           r == Readable(o, ReadSize)
<1>1. /\ n \in Nat /\ off \in Nat /\ p \in 0 .. n /\ ReadSize \in Nat \ {0}
      /\ Len(file) \in Nat /\ off + n <= Len(file)
      /\ \A i \in 1 .. Len(file) : file[i] \in Int
    BY PipeAssumption
<1>2. o = [id |-> b, data |-> d, pos |-> p, size |-> n, length |-> n, bytes_written |-> 0]
    BY DEF InBlock
<1> HIDE DEF n, off, o
<1>3. r = IF ReadSize + p >= n THEN n - p ELSE ReadSize
    BY <1>2 DEF Readable
<1>4. r \in 0 .. n - p /\ (p < n <=> r > 0)
    BY <1>1, <1>3
<1> HIDE DEF r
<1>5. AfterRead(o, ReadSize) = [id |-> b, data |-> d, pos |-> p + r, size |-> n,
                                length |-> n, bytes_written |-> 0]
  <2>1. AfterRead(o, ReadSize) = [o EXCEPT !.pos = o.pos + r]
      BY DEF AfterRead, r
  <2> QED
      BY <1>2, <2>1
<1>6. InBlock(b, p + r) = [id |-> b, data |-> d, pos |-> p + r, size |-> n,
                           length |-> n, bytes_written |-> 0]
    BY DEF InBlock, n, off
<1>7. d \in Seq(Int) /\ Len(d) = n
  <2>1. \A i \in 1 .. n : off + i \in 1 .. Len(file)
      BY <1>1
  <2>2. d \in [1 .. n -> Int]
      BY <1>1, <2>1
  <2> QED
      BY <1>1, <2>2, FunctionIsSeq
<1>8. BytesRead(o, ReadSize) = SubSeq(d, p + 1, p + r)
    BY <1>2 DEF BytesRead, r
<1>9. \A i \in 1 .. n : d[i] = file[off + i]
    OBVIOUS
<1> HIDE DEF d
<1>10. LET bytes == BytesRead(o, ReadSize)
       IN  /\ bytes \in Seq(Int) /\ Len(bytes) = r
           /\ \A i \in 1 .. r : bytes[i] = file[off + p + i]
  <2> DEFINE s == SubSeq(d, p + 1, p + r)
  <2>1. p + r <= n /\ p + 1 \in 1 .. n + 1 /\ p + r \in Nat
      BY <1>1, <1>4
  <2>2. s \in Seq(Int)
      BY <1>7, <2>1
  <2>3. Len(s) = r
      BY <1>1, <1>4, <1>7, <2>1
  <2>4. ASSUME NEW i \in 1 .. r PROVE s[i] = file[off + p + i]
    <3>1. p + i \in 1 .. n /\ off + (p + i) = off + p + i
        BY <1>1, <1>4
    <3>2. s[i] = d[p + i]
        BY <1>1, <1>4, <1>7, <2>1
    <3> QED
        BY <1>9, <3>1, <3>2
  <2> QED
      BY <1>8, <2>2, <2>3, <2>4
<1>11. ASSUME p < n
       PROVE  /\ GetC(o) = file[off + p + 1] /\ GetC(o) \in Int
              /\ AfterGetC(o) = InBlock(b, p + 1)
  <2>1. p + 1 \in 1 .. n /\ off + (p + 1) = off + p + 1 /\ off + p + 1 \in 1 .. Len(file)
      BY <1>1, <1>11
  <2>2. GetC(o) = d[p + 1]
      BY <1>2 DEF GetC
  <2>3. AfterGetC(o) = [id |-> b, data |-> d, pos |-> p + 1, size |-> n, length |-> n,
                        bytes_written |-> 0]
      BY <1>2 DEF AfterGetC
  <2> QED
      BY <1>1, <1>9, <2>1, <2>2, <2>3 DEF InBlock, d, n, off
<1> QED
    BY <1>4, <1>5, <1>6, <1>10, <1>11 DEF n, off, o, r

-----------------------------------------------------------------------------
(* The steps *)

\* No step changes the file or how it is cut.
LEMMA Same ==
  ASSUME UNCHANGED stream
  PROVE  /\ file' = file /\ block_size' = block_size /\ block_count' = block_count
         /\ \A b : Offset(b)' = Offset(b) /\ BlockLength(b)' = BlockLength(b)
         /\ \A b, p : InBlock(b, p)' = InBlock(b, p)
BY DEF stream, block_count, Offset, BlockLength, InBlock

LEMMA Opening ==
  ASSUME Blocks, stage \in Opened
  PROVE  /\ file \in Seq(Int) /\ Len(file) \in Nat
         /\ block_count \in Nat /\ block_count > 0
         /\ Offset(0) = 0 /\ Offset(block_count) = Len(file)
         /\ DOMAIN in = 0 .. block_count - 1 /\ DOMAIN out = 0 .. block_count - 1
         /\ blocks_returned <= block_count
         /\ \A b \in 0 .. block_count - 1 :
               /\ BlockLength(b) \in Nat /\ BlockLength(b) > 0 /\ Offset(b) \in Nat
               /\ Offset(b + 1) = Offset(b) + BlockLength(b) /\ Offset(b + 1) <= Len(file)
               /\ in[b].pos \in 0 .. BlockLength(b)
               /\ in[b] = InBlock(b, in[b].pos)
               /\ in[b].id = b /\ in[b].length = BlockLength(b)
               /\ b >= blocks_returned => in[b].pos = 0
               /\ out[b] \in OutBlock
<1>1. /\ file \in Seq(Int) /\ Len(file) \in Nat /\ Len(file) > 0
      /\ block_size \in Nat /\ block_size > 0
      /\ DOMAIN in = 0 .. block_count - 1 /\ DOMAIN out = 0 .. block_count - 1
      /\ blocks_returned <= block_count
      /\ \A b \in 0 .. block_count - 1 :
            /\ in[b].pos \in 0 .. BlockLength(b)
            /\ in[b] = InBlock(b, in[b].pos)
            /\ b >= blocks_returned => in[b].pos = 0
            /\ out[b] \in OutBlock
    BY DEF Blocks
<1>2. \A b, p : InBlock(b, p).id = b /\ InBlock(b, p).length = BlockLength(b)
    BY DEF InBlock
<1>3. \A b \in 0 .. block_count - 1 : in[b].id = b /\ in[b].length = BlockLength(b)
    BY <1>1, <1>2, ZenonT(60)
<1> QED
    BY <1>1, <1>3, Cuts

\* Blocks are read, and written to, one at a time.
LEMMA BlocksStep ==
  ASSUME Blocks, stage \in Opened, UNCHANGED stream,
         blocks_returned \in Nat, blocks_returned' \in blocks_returned .. block_count,
         DOMAIN in' = DOMAIN in, DOMAIN out' = DOMAIN out,
         \A b \in 0 .. block_count - 1 :
            /\ \/ in'[b] = in[b]
               \/ \E p \in 0 .. BlockLength(b) : in'[b] = InBlock(b, p) /\ b < blocks_returned'
            /\ out'[b] \in OutBlock
  PROVE  Blocks'
<1>1. /\ file \in Seq(Int) /\ block_size \in Nat /\ Len(file) > 0 /\ block_size > 0
      /\ DOMAIN in = 0 .. block_count - 1 /\ DOMAIN out = 0 .. block_count - 1
      /\ \A b \in 0 .. block_count - 1 :
            /\ in[b].pos \in 0 .. BlockLength(b)
            /\ in[b] = InBlock(b, in[b].pos)
            /\ b >= blocks_returned => in[b].pos = 0
    BY DEF Blocks
<1>2. /\ file' = file /\ block_size' = block_size /\ block_count' = block_count
      /\ \A b : Offset(b)' = Offset(b) /\ BlockLength(b)' = BlockLength(b)
      /\ \A b, p : InBlock(b, p)' = InBlock(b, p)
    BY Same
<1>3. block_count \in Nat
    BY Opening
<1>4. ASSUME NEW b \in 0 .. block_count - 1
      PROVE  /\ in'[b].pos \in 0 .. BlockLength(b)
             /\ in'[b] = InBlock(b, in'[b].pos)
             /\ b >= blocks_returned' => in'[b].pos = 0
  <2>1. CASE in'[b] = in[b]
      BY <1>1, <1>3, <2>1
  <2>2. ASSUME NEW p \in 0 .. BlockLength(b), in'[b] = InBlock(b, p), b < blocks_returned'
        PROVE  /\ in'[b].pos \in 0 .. BlockLength(b)
               /\ in'[b] = InBlock(b, in'[b].pos)
               /\ b >= blocks_returned' => in'[b].pos = 0
    <3>1. in'[b].pos = p
        BY <2>2 DEF InBlock
    <3> QED
        BY <1>3, <2>2, <3>1
  <2> QED
      BY <2>1, <2>2
<1>5. \A b \in 0 .. block_count' - 1 :
         /\ (in[b].pos \in 0 .. BlockLength(b))'
         /\ (in[b] = InBlock(b, in[b].pos))'
         /\ (b >= blocks_returned => in[b].pos = 0)'
         /\ (out[b] \in OutBlock)'
    BY <1>2, <1>4
<1> QED
    BY <1>1, <1>2, <1>3, <1>5 DEF Blocks, OutBlock

LEMMA InitHolds == ASSUME Init PROVE PipeInv
<1>1. file \in Seq(Int) /\ Len(file) \in Nat
    BY PipeAssumption DEF Init
<1>2. block_size \in Nat
    BY PipeAssumption DEF Init
<1>3. Blocks
    BY <1>1, <1>2 DEF Init, Blocks, Opened
<1>4. Position
    BY DEF Init, Position, Opened
<1>5. Reading
    BY <1>1 DEF Init, Reading, Opened
<1>6. Operations
    BY PipeAssumption DEF Init, Operations, Opened
<1>7. Handling
    BY DEF Init, Handling, FirstOperationOnly
<1> QED
    BY <1>3, <1>4, <1>5, <1>6, <1>7 DEF PipeInv

LEMMA OpenStreamStep == ASSUME PipeInv, OpenStream PROVE PipeInv'
<1>0. Blocks /\ Position /\ Reading /\ Operations /\ Handling
    BY DEF PipeInv
<1>1. /\ stage = "open" /\ file # <<>> /\ block_size # 0 /\ stage' = "user"
      /\ in' = [b \in 0 .. block_count - 1 |->
                   ReadableBlock(b, file, b * block_size, BlockLength(b))]
      /\ out' = [b \in 0 .. block_count - 1 |-> WritableBlock(b, BlockLength(b))]
      /\ UNCHANGED <<stream, pipe, taken, got, outfile>>
    BY DEF OpenStream
<1>2. /\ file \in Seq(Int) /\ Len(file) \in Nat /\ Len(file) > 0
      /\ block_size \in Nat /\ block_size > 0
      /\ blocks_returned = 0 /\ got = <<>> /\ oper_array = <<>>
  <2>1. file \in Seq(Int) /\ block_size \in Nat
      BY <1>0 DEF Blocks
  <2>2. Len(file) \in Nat /\ Len(file) > 0
    <3>1. file # <<>>
        BY <1>1
    <3>2. file \in Seq(Int)
        BY <2>1
    <3> QED
        BY ONLY <3>1, <3>2, EmptySeq
  <2>3. blocks_returned = 0 /\ got = <<>>
      BY <1>0, <1>1 DEF Position
  <2>4. oper_array = <<>>
      BY <1>0, <1>1 DEF Operations
  <2> QED
      BY <1>1, <2>1, <2>2, <2>3, <2>4
<1>3. /\ block_count \in Nat /\ block_count > 0 /\ Offset(0) = 0
      /\ \A b \in 0 .. block_count - 1 :
               /\ BlockLength(b) \in Nat
               /\ Offset(b) = b * block_size /\ Offset(b) \in Nat
               /\ Offset(b + 1) = Offset(b) + BlockLength(b)
               /\ Offset(b + 1) <= Len(file)
    BY <1>2, Cuts
<1>4. /\ file' = file /\ block_size' = block_size /\ block_count' = block_count
      /\ \A b : Offset(b)' = Offset(b) /\ BlockLength(b)' = BlockLength(b)
      /\ \A b, p : InBlock(b, p)' = InBlock(b, p)
    BY <1>1, Same
<1>5. ASSUME NEW b \in 0 .. block_count - 1
      PROVE  in'[b] = InBlock(b, 0) /\ out'[b] \in OutBlock
  <2> DEFINE n == BlockLength(b)
             off == Offset(b)
  <2>1. in'[b] = ReadableBlock(b, file, off, n) /\ out'[b] = WritableBlock(b, n)
      BY <1>1, <1>3
  <2>2. n \in Nat /\ off \in Nat /\ off + n <= Len(file) /\ b \in Int
      BY <1>3
  <2>3. InBlock(b, 0) = [id |-> b, data |-> [i \in 1 .. n |-> file[off + i]], pos |-> 0,
                         size |-> n, length |-> n, bytes_written |-> 0]
      BY DEF InBlock
  <2> HIDE DEF n, off
  <2>4. \A i \in 1 .. n : off + i <= Len(file)
      BY <1>2, <2>2
  <2>5. in'[b] = InBlock(b, 0)
      BY <2>1, <2>3, <2>4 DEF ReadableBlock
  <2>6. Memory(n) \in Seq(Value) /\ Len(Memory(n)) = n
    <3>1. Memory(n) \in [1 .. n -> Value]
        BY DEF Memory, Value
    <3> QED
        BY <2>2, <3>1, FunctionIsSeq
  <2>7. WritableBlock(b, n) = [id |-> b, data |-> Memory(n), pos |-> 0, size |-> n,
                               length |-> n, bytes_written |-> 0]
      BY DEF WritableBlock
  <2>8. WritableBlock(b, n) \in OutBlock
      BY <2>2, <2>6, <2>7 DEF OutBlock
  <2> QED
      BY <2>1, <2>5, <2>8
<1>6. Blocks'
  <2>1. \A b \in 0 .. block_count - 1 : in'[b] = InBlock(b, 0) /\ in'[b].pos = 0
      BY <1>5 DEF InBlock
  <2>2. \A b \in 0 .. block_count' - 1 :
           /\ (in[b].pos \in 0 .. BlockLength(b))' /\ (in[b] = InBlock(b, in[b].pos))'
           /\ in'[b].pos = 0 /\ (out[b] \in OutBlock)'
    <3>1. block_count' = block_count
        BY <1>4
    <3>2. ASSUME NEW b \in 0 .. block_count - 1
          PROVE  /\ in'[b].pos \in 0 .. BlockLength(b)'
                 /\ in'[b] = InBlock(b, 0)' /\ in'[b].pos = 0
      <4>1. 0 \in 0 .. BlockLength(b) /\ BlockLength(b)' = BlockLength(b)
          BY <1>3, <1>4
      <4> QED
          BY <1>4, <2>1, <4>1
    <3> QED
        BY <1>5, <3>1, <3>2
  <2>3. DOMAIN in' = 0 .. block_count - 1 /\ DOMAIN out' = 0 .. block_count - 1
      BY <1>1
  <2>4. blocks_returned' <= block_count'
    <3>1. blocks_returned' = 0
        BY <1>1, <1>2 DEF taken
    <3> QED
        BY <1>3, <1>4, <3>1
  <2> QED
      BY <1>2, <1>4, <2>2, <2>3, <2>4 DEF Blocks, OutBlock
<1>7. Position'
    BY <1>0, <1>1 DEF Position, Opened, taken
<1>8. Reading'
  <2>1. Consumed' = 0 /\ got' = <<>>
    <3>1. stage' = "user" /\ blocks_returned' = 0 /\ got' = <<>>
        BY <1>1, <1>2 DEF taken
    <3>2. Consumed' = Offset(0)'
        BY <3>1 DEF Consumed
    <3> QED
        BY <1>3, <1>4, <3>1, <3>2
  <2> QED
      BY <1>0, <1>1, <1>2, <1>4, <2>1 DEF Reading
<1>9. Operations'
  <2>1. /\ oper_array' = <<>> /\ oper' = oper /\ bid' = bid /\ bcount' = bcount
        /\ stage' = "user"
      BY <1>1, <1>2 DEF pipe
  <2>2. oper = 1 /\ bid \in Nat /\ bcount \in Nat /\ bid <= bcount
      BY <1>0, <1>2 DEF Operations
  <2>3. oper_array' \in Seq(Callbacks) /\ Len(oper_array') = 0
      BY <2>1
  <2>4. Len(oper_array') <= MaxOps
      BY <2>3, PipeAssumption
  <2>5. oper' = 1
      BY <2>1, <2>2
  <2> QED
      BY <2>1, <2>2, <2>3, <2>4, <2>5 DEF Operations, Opened
<1>10. Handling'
    BY <1>0, <1>1 DEF Handling, FirstOperationOnly, pipe, taken
<1> QED
    BY <1>6, <1>7, <1>8, <1>9, <1>10 DEF PipeInv

\* The next block is handed out: its bytes are the next ones of the file.
LEMMA NewBlockStep ==
  ASSUME PipeInv, NEW handler, NewBlock(handler), stage \in Opened, blocks_returned < block_count,
         stage \notin {"get_c", "callback"}, stage' \in {"get_c", "callback"},
         UNCHANGED <<stream, in, out, got>>
  PROVE  /\ Blocks' /\ Position' /\ Reading'
         /\ blocks_returned' = blocks_returned + 1 /\ handlers' = Append(handlers, handler)
<1>1. Blocks /\ Position /\ Reading
    BY DEF PipeInv
<1>2. /\ file \in Seq(Int) /\ Len(file) \in Nat /\ block_count \in Nat
      /\ blocks_returned \in Nat /\ blocks_returned \in 0 .. block_count - 1
    BY <1>1, Opening DEF Position
<1>3. /\ in[blocks_returned].id = blocks_returned /\ in[blocks_returned].pos = 0
      /\ Offset(blocks_returned) \in Nat
      /\ \A b \in 0 .. block_count - 1 : out[b] \in OutBlock
  <2>1. \A b \in 0 .. block_count - 1 :
           /\ in[b].id = b /\ (b >= blocks_returned => in[b].pos = 0) /\ Offset(b) \in Nat
           /\ out[b] \in OutBlock
      BY <1>1, Opening
  <2> QED
      BY <1>2, <2>1
<1>4. /\ current' = blocks_returned /\ blocks_returned' = blocks_returned + 1
      /\ handlers' = Append(handlers, handler)
      /\ in' = in /\ out' = out /\ got' = got
    BY <1>3 DEF NewBlock
<1>5. UNCHANGED stream
    OBVIOUS
<1>6. Blocks'
  <2>1. blocks_returned' \in blocks_returned .. block_count
      BY <1>2, <1>4
  <2> QED
      BY <1>1, <1>2, <1>3, <1>4, <1>5, <2>1, BlocksStep
<1>7. Position'
    BY <1>2, <1>4 DEF Position, Opened
<1>8. Reading'
  <2>1. Consumed = Offset(blocks_returned)
      BY DEF Consumed
  <2>2. Consumed' = (Offset(current) + in[current].pos)'
      BY DEF Consumed
  <2>3. Consumed' = Offset(blocks_returned) + in[blocks_returned].pos
    <3>1. \A b : Offset(b)' = Offset(b)
        BY <1>5, Same
    <3> QED
        BY <1>4, <2>2, <3>1
  <2>4. Consumed' = Offset(blocks_returned)
      BY <1>3, <2>3
  <2> QED
      BY <1>1, <1>4, <1>5, <2>1, <2>4, Same DEF Reading, Opened
<1> QED
    BY <1>4, <1>6, <1>7, <1>8

\* What was given to the user or to the first operation stays so.
LEMMA GivenStep ==
  ASSUME Handling, NEW handler,
         handler \in ByHand \/ (handler \in Callbacks /\ oper_array # <<>> /\ handler = oper_array[1]),
         oper_array' = oper_array, handlers' = Append(handlers, handler)
  PROVE  Handling'
<1>1. handlers \in Seq(ByHand \cup Callbacks) /\ handler \in ByHand \cup Callbacks
    BY DEF Handling
<1>2. /\ handlers' \in Seq(ByHand \cup Callbacks)
      /\ DOMAIN handlers = 1 .. Len(handlers) /\ Len(handlers) \in Nat
      /\ DOMAIN handlers' = 1 .. Len(handlers) + 1
      /\ \A i \in 1 .. Len(handlers) : handlers'[i] = handlers[i]
      /\ handlers'[Len(handlers) + 1] = handler
    BY <1>1
<1> DEFINE Givers == ByHand \cup (IF oper_array = <<>> THEN {} ELSE {oper_array[1]})
<1>3. handler \in Givers /\ \A i \in 1 .. Len(handlers) : handlers[i] \in Givers
    BY <1>2 DEF Handling, FirstOperationOnly
<1> HIDE DEF Givers
<1>4. \A i \in DOMAIN handlers' : handlers'[i] \in Givers
  <2> SUFFICES ASSUME NEW i \in 1 .. Len(handlers) + 1 PROVE handlers'[i] \in Givers
      BY <1>2
  <2>1. i \in 1 .. Len(handlers) \/ i = Len(handlers) + 1
      BY <1>2
  <2> QED
      BY <1>2, <1>3, <2>1
<1> QED
    BY <1>2, <1>4 DEF Handling, FirstOperationOnly, Givers

LEMMA TakeBlockStep ==
  ASSUME PipeInv, NEW handler \in ByHand, TakeBlock(handler)
  PROVE  PipeInv'
<1>1. /\ stage = "user" /\ blocks_returned < block_count /\ NewBlock(handler)
      /\ stage' = "get_c" /\ UNCHANGED <<stream, in, out, got>> /\ UNCHANGED pipe
    BY DEF TakeBlock
<1>2. stage \in Opened
    BY <1>1 DEF Opened
<1>3. /\ Blocks' /\ Position' /\ Reading'
      /\ blocks_returned' = blocks_returned + 1 /\ handlers' = Append(handlers, handler)
    BY <1>1, <1>2, NewBlockStep
<1>4. oper_array' = oper_array /\ oper' = oper /\ bid' = bid /\ bcount' = bcount
    BY <1>1 DEF pipe
<1>5. Handling'
    BY <1>3, <1>4, GivenStep DEF PipeInv
<1>6. Operations'
  <2>1. Operations /\ oper_array = <<>>
      BY <1>1 DEF PipeInv, Operations
  <2>2. oper = 1
      BY <2>1 DEF Operations
  <2> QED
      BY <1>1, <1>4, <2>1, <2>2 DEF Operations, Opened
<1> QED
    BY <1>3, <1>5, <1>6 DEF PipeInv

LEMMA NextBlockStep == ASSUME PipeInv, NextBlock PROVE PipeInv'
<1>1. /\ stage = "blocks" /\ bid < bcount /\ blocks_returned < block_count
      /\ NewBlock(oper_array[oper])
      /\ stage' = "callback" /\ UNCHANGED <<stream, in, out, got>> /\ UNCHANGED pipe
    BY DEF NextBlock
<1>2. stage \in Opened
    BY <1>1 DEF Opened
<1>3. /\ Blocks' /\ Position' /\ Reading'
      /\ blocks_returned' = blocks_returned + 1
      /\ handlers' = Append(handlers, oper_array[oper])
    BY <1>1, <1>2, NewBlockStep
<1>4. oper_array' = oper_array /\ oper' = oper /\ bid' = bid /\ bcount' = bcount
    BY <1>1 DEF pipe
<1>5. blocks_returned \in Nat /\ block_count \in Nat
    BY <1>2, Opening DEF PipeInv, Position
<1>6. Operations /\ oper_array # <<>> /\ oper_array[1] \in Callbacks /\ oper = 1
  <2>1. Operations
      BY DEF PipeInv
  <2>2. /\ oper_array \in Seq(Callbacks) /\ oper \in 1 .. Len(oper_array) + 1
        /\ oper <= Len(oper_array) /\ ~(oper > 1)
      BY <1>1, <1>2, <1>5, <2>1 DEF Operations
  <2> QED
      BY <2>1, <2>2
<1>7. Handling'
    BY <1>3, <1>4, <1>6, GivenStep DEF PipeInv
<1>8. block_count' = block_count
    BY <1>1, Same
<1>9. Operations'
    BY <1>1, <1>2, <1>3, <1>4, <1>5, <1>6, <1>8 DEF Operations
<1> QED
    BY <1>3, <1>7, <1>9 DEF PipeInv

\* The block in use is one of the blocks, and it is the last one returned.
LEMMA InUse ==
  ASSUME PipeInv, stage \in {"get_c", "callback"}
  PROVE  /\ current \in 0 .. block_count - 1 /\ blocks_returned = current + 1
         /\ in[current] = InBlock(current, in[current].pos)
         /\ in[current].pos \in 0 .. BlockLength(current)
         /\ BlockLength(current) \in Nat /\ Offset(current) \in Nat
         /\ Offset(current + 1) = Offset(current) + BlockLength(current)
         /\ Offset(current) + BlockLength(current) <= Len(file)
         /\ in[current].length = BlockLength(current)
         /\ out[current] \in OutBlock
         /\ file \in Seq(Int) /\ Len(file) \in Nat
<1>1. Blocks /\ Position /\ stage \in Opened
    BY DEF PipeInv, Opened
<1>2. /\ blocks_returned = current + 1 /\ current \in Nat
      /\ blocks_returned <= block_count /\ block_count \in Nat
    BY <1>1, Opening DEF Position
<1>3. current \in 0 .. block_count - 1
    BY <1>2
<1>4. \A b \in 0 .. block_count - 1 :
         /\ in[b] = InBlock(b, in[b].pos) /\ in[b].pos \in 0 .. BlockLength(b)
         /\ BlockLength(b) \in Nat /\ Offset(b) \in Nat
         /\ Offset(b + 1) = Offset(b) + BlockLength(b) /\ Offset(b + 1) <= Len(file)
         /\ in[b].length = BlockLength(b) /\ out[b] \in OutBlock
    BY <1>1, Opening
<1>5. file \in Seq(Int) /\ Len(file) \in Nat
    BY <1>1, Opening
<1> QED
    BY <1>2, <1>3, <1>4, <1>5

\* Some bytes of the block in use are read, and perhaps something is written.
LEMMA ReadStep ==
  ASSUME PipeInv, stage \in {"get_c", "callback"}, stage' = stage,
         UNCHANGED <<stream, blocks_returned, current>>,
         NEW bytes \in Seq(Int),
         in[current].pos + Len(bytes) <= BlockLength(current),
         \A i \in 1 .. Len(bytes) : bytes[i] = file[Offset(current) + in[current].pos + i],
         in' = [in EXCEPT ![current] = InBlock(current, in[current].pos + Len(bytes))],
         NEW o \in OutBlock, out' = out \/ out' = [out EXCEPT ![current] = o],
         got' = got \o bytes
  PROVE  Blocks' /\ Position' /\ Reading'
<1> DEFINE p == in[current].pos
           n == Len(bytes)
<1>1. Blocks /\ Position /\ Reading /\ stage \in Opened
    BY DEF PipeInv, Opened
<1>2. /\ current \in 0 .. block_count - 1 /\ blocks_returned = current + 1
      /\ p \in 0 .. BlockLength(current) /\ BlockLength(current) \in Nat
      /\ Offset(current) \in Nat
      /\ Offset(current) + BlockLength(current) <= Len(file) /\ Len(file) \in Nat
    BY InUse
<1>3. /\ DOMAIN in = 0 .. block_count - 1 /\ DOMAIN out = 0 .. block_count - 1
      /\ block_count \in Nat /\ blocks_returned <= block_count
      /\ \A b \in 0 .. block_count - 1 : out[b] \in OutBlock
    BY <1>1, Opening
<1>4. n \in Nat /\ p + n \in 0 .. BlockLength(current)
    BY <1>2
<1>5. UNCHANGED stream
    OBVIOUS
<1>6. Blocks'
  <2>1. DOMAIN in' = DOMAIN in /\ DOMAIN out' = DOMAIN out
      BY <1>3
  <2>2. blocks_returned \in Nat /\ blocks_returned' \in blocks_returned .. block_count
      BY <1>2, <1>3
  <2>3. current < blocks_returned'
      BY <1>2
  <2>4. ASSUME NEW b \in 0 .. block_count - 1
        PROVE  /\ \/ in'[b] = in[b]
                  \/ \E k \in 0 .. BlockLength(b) : in'[b] = InBlock(b, k) /\ b < blocks_returned'
               /\ out'[b] \in OutBlock
    <3>1. out'[b] \in OutBlock
        BY <1>3
    <3>2. CASE b = current
      <4>1. in'[b] = InBlock(b, p + n) /\ p + n \in 0 .. BlockLength(b) /\ b < blocks_returned'
          BY <1>3, <1>4, <2>3, <3>2
      <4> HIDE DEF p, n
      <4> QED
          BY <3>1, <4>1
    <3>3. CASE b # current
        BY <1>3, <3>1, <3>3
    <3> QED
        BY <3>2, <3>3
  <2> QED
      BY <1>1, <1>5, <2>1, <2>2, <2>4, BlocksStep
<1>7. Position'
  <2>1. block_count' = block_count
      BY <1>5, Same
  <2> QED
      BY <1>1, <2>1 DEF Position
<1>8. Reading'
  <2>1. Consumed = Offset(current) + p
      BY DEF Consumed
  <2>2. Consumed' = Offset(current) + (p + n)
    <3>1. Consumed' = (Offset(current) + in[current].pos)'
        BY DEF Consumed
    <3>2. \A b : Offset(b)' = Offset(b)
        BY <1>5, Same
    <3>3. in'[current] = InBlock(current, p + n)
        BY <1>2, <1>3
    <3>4. in'[current].pos = p + n
        BY <3>3 DEF InBlock
    <3> QED
        BY <3>1, <3>2, <3>4
  <2> HIDE DEF p, n
  <2>3. /\ got \in Seq(Int) /\ Len(got) <= Len(file) /\ Len(got) = Offset(current) + p
        /\ \A i \in 1 .. Len(got) : got[i] = file[i]
      BY <1>1, <2>1 DEF Reading
  <2>4. /\ got' \in Seq(Int) /\ Len(got') = Len(got) + n
        /\ \A i \in 1 .. Len(got) : got'[i] = got[i]
        /\ \A i \in 1 .. n : got'[Len(got) + i] = bytes[i]
    <3>1. got \in Seq(Int) /\ bytes \in Seq(Int) /\ got' = got \o bytes
        BY <2>3
    <3>2. /\ got' \in Seq(Int) /\ Len(got') = Len(got) + Len(bytes)
          /\ Len(got) \in Nat /\ Len(bytes) \in Nat
          /\ \A i \in 1 .. Len(got) + Len(bytes) :
                got'[i] = IF i <= Len(got) THEN got[i] ELSE bytes[i - Len(got)]
        BY ONLY <3>1, ConcatProperties
    <3>3. ASSUME NEW i \in 1 .. Len(got) PROVE got'[i] = got[i]
      <4>1. i \in 1 .. Len(got) + Len(bytes) /\ i <= Len(got)
          BY <3>2
      <4> QED
          BY <3>2, <4>1
    <3>4. ASSUME NEW i \in 1 .. Len(bytes) PROVE got'[Len(got) + i] = bytes[i]
      <4>1. /\ Len(got) + i \in 1 .. Len(got) + Len(bytes) /\ ~(Len(got) + i <= Len(got))
            /\ Len(got) + i - Len(got) = i
          BY <3>2
      <4> QED
          BY <3>2, <4>1
    <3> QED
        BY <3>2, <3>3, <3>4 DEF n
  <2>5. \A i \in 1 .. n : got'[Len(got) + i] = file[Len(got) + i]
      BY <2>3, <2>4 DEF p, n
  <2>6. Len(got) \in Nat /\ Len(got') <= Len(file)
      BY <1>2, <1>4, <2>3, <2>4
  <2>7. ASSUME NEW i \in 1 .. Len(got') PROVE got'[i] = file[i]
    <3>1. CASE i <= Len(got)
        BY <2>3, <2>4, <2>6, <3>1
    <3>2. CASE ~(i <= Len(got))
      <4>1. i - Len(got) \in 1 .. n /\ Len(got) + (i - Len(got)) = i
          BY <1>4, <2>4, <2>6, <3>2
      <4> QED
          BY <2>5, <4>1
    <3> QED
        BY <3>1, <3>2
  <2>8. Len(got') = Consumed'
      BY <1>2, <1>4, <2>2, <2>3, <2>4
  <2>9. file' = file
      BY <1>5, Same
  <2> QED
      BY <2>4, <2>6, <2>7, <2>8, <2>9 DEF Reading
<1> QED
    BY <1>6, <1>7, <1>8

\* Who was given the blocks, and the pipe, are as they were.
LEMMA PipeKept ==
  ASSUME PipeInv, stage' = stage, UNCHANGED <<stream, pipe, taken>>
  PROVE  Operations' /\ Handling'
<1>1. block_count' = block_count
    BY Same
<1>2. Operations'
    BY <1>1 DEF PipeInv, Operations, pipe, taken
<1>3. Handling'
    BY DEF PipeInv, Handling, FirstOperationOnly, pipe, taken
<1> QED
    BY <1>2, <1>3

\* The byte that get_c returns.
LEMMA ByteOf ==
  ASSUME PipeInv, stage \in {"get_c", "callback"}, in[current].pos < in[current].length
  PROVE  LET c == GetC(in[current])
             p == in[current].pos
         IN  /\ c = file[Offset(current) + p + 1] /\ c \in Int
             /\ AfterGetC(in[current]) = InBlock(current, p + 1) /\ p < BlockLength(current)
<1> DEFINE c == GetC(in[current])
           p == in[current].pos
<1>1. p < in[current].length /\ stage \in {"get_c", "callback"}
    OBVIOUS
<1>2. /\ in[current] = InBlock(current, p) /\ p \in 0 .. BlockLength(current)
      /\ BlockLength(current) \in Nat /\ Offset(current) \in Nat
      /\ Offset(current) + BlockLength(current) <= Len(file)
      /\ in[current].length = BlockLength(current) /\ out[current] \in OutBlock
      /\ file \in Seq(Int)
    BY <1>1, InUse
<1> HIDE DEF p
<1>3. /\ c = file[Offset(current) + p + 1] /\ c \in Int
      /\ AfterGetC(in[current]) = InBlock(current, p + 1) /\ p < BlockLength(current)
  <2>1. p < BlockLength(current)
      BY <1>1, <1>2
  <2>2. /\ GetC(InBlock(current, p)) = file[Offset(current) + p + 1]
        /\ GetC(InBlock(current, p)) \in Int
        /\ AfterGetC(InBlock(current, p)) = InBlock(current, p + 1)
      BY <1>2, <2>1, ReadsOf
  <2> QED
      BY <1>2, <2>1, <2>2
<1> QED
    BY <1>3 DEF p

LEMMA ReadByteStep == ASSUME PipeInv, ReadByte PROVE PipeInv'
<1> DEFINE c == GetC(in[current])
           p == in[current].pos
<1>1. /\ stage = "get_c" /\ p < in[current].length /\ got' = Append(got, c)
      /\ out' = out \/ out' = [out EXCEPT ![current] = AfterWrite(out[current], <<c>>)]
      /\ in' = [in EXCEPT ![current] = AfterGetC(in[current])]
      /\ stage' = stage /\ UNCHANGED <<stream, pipe, taken>>
    BY DEF ReadByte
<1>2. /\ in[current] = InBlock(current, p) /\ p \in 0 .. BlockLength(current)
      /\ BlockLength(current) \in Nat /\ Offset(current) \in Nat
      /\ Offset(current) + BlockLength(current) <= Len(file)
      /\ in[current].length = BlockLength(current) /\ out[current] \in OutBlock
      /\ file \in Seq(Int)
    BY <1>1, InUse
<1>3. /\ c = file[Offset(current) + p + 1] /\ c \in Int
      /\ AfterGetC(in[current]) = InBlock(current, p + 1) /\ p < BlockLength(current)
    BY <1>1, ByteOf
<1> HIDE DEF p
<1> HIDE DEF c
<1>4. /\ <<c>> \in Seq(Int) /\ Len(<<c>>) = 1 /\ <<c>>[1] = c
      /\ got' = got \o <<c>>
  <2>1. got \in Seq(Int)
      BY DEF PipeInv, Reading
  <2> QED
      BY <1>1, <1>3, <2>1
<1>5. AfterWrite(out[current], <<c>>) \in OutBlock
    BY <1>2, <1>4, OutWrite
<1>6. UNCHANGED <<stream, blocks_returned, current>>
    BY <1>1 DEF taken
<1>7. Blocks' /\ Position' /\ Reading'
  <2> DEFINE bytes == <<c>>
  <2>1. bytes \in Seq(Int) /\ Len(bytes) = 1 /\ bytes[1] = c /\ got' = got \o bytes
      BY <1>4
  <2> HIDE DEF bytes
  <2>2. p + Len(bytes) <= BlockLength(current)
      BY <1>2, <1>3, <2>1
  <2>3. \A i \in 1 .. Len(bytes) : bytes[i] = file[Offset(current) + p + i]
      BY <1>3, <2>1
  <2>4. in' = [in EXCEPT ![current] = InBlock(current, p + Len(bytes))]
      BY <1>1, <1>3, <2>1
  <2>5. stage \in {"get_c", "callback"} /\ stage' = stage
      BY <1>1
  <2>6. \E o \in OutBlock : out' = out \/ out' = [out EXCEPT ![current] = o]
      BY <1>1, <1>5
  <2> QED
      BY <1>6, <2>1, <2>2, <2>3, <2>4, <2>5, <2>6, ReadStep DEF p
<1>8. Operations' /\ Handling'
    BY <1>1, PipeKept
<1> QED
    BY <1>7, <1>8 DEF PipeInv

\* The bytes that a callback reads.
LEMMA BytesOf ==
  ASSUME PipeInv, stage \in {"get_c", "callback"}
  PROVE  LET b == in[current]
             p == b.pos
             bytes == BytesRead(b, ReadSize)
         IN  /\ bytes \in Seq(Int) /\ Len(bytes) \in 0 .. BlockLength(current) - p
             /\ AfterRead(b, ReadSize) = InBlock(current, p + Len(bytes))
             /\ \A i \in 1 .. Len(bytes) : bytes[i] = file[Offset(current) + p + i]
<1> DEFINE b == in[current]
           p == b.pos
           bytes == BytesRead(b, ReadSize)
<1>1. stage \in {"get_c", "callback"}
    OBVIOUS
<1>2. /\ b = InBlock(current, p) /\ p \in 0 .. BlockLength(current)
      /\ BlockLength(current) \in Nat /\ Offset(current) \in Nat
      /\ Offset(current) + BlockLength(current) <= Len(file)
      /\ out[current] \in OutBlock /\ file \in Seq(Int)
    BY <1>1, InUse
<1> HIDE DEF p, b
<1>3. /\ bytes \in Seq(Int) /\ Len(bytes) \in 0 .. BlockLength(current) - p
      /\ AfterRead(b, ReadSize) = InBlock(current, p + Len(bytes))
      /\ \A i \in 1 .. Len(bytes) : bytes[i] = file[Offset(current) + p + i]
  <2> DEFINE o == InBlock(current, p)
             r == Readable(o, ReadSize)
  <2>1. /\ r \in 0 .. BlockLength(current) - p
        /\ AfterRead(o, ReadSize) = InBlock(current, p + r)
        /\ BytesRead(o, ReadSize) \in Seq(Int) /\ Len(BytesRead(o, ReadSize)) = r
        /\ \A i \in 1 .. r : BytesRead(o, ReadSize)[i] = file[Offset(current) + p + i]
      BY <1>2, ReadsOf
  <2> HIDE DEF r, o
  <2>2. b = o
      BY <1>2 DEF o
  <2> QED
      BY <2>1, <2>2
<1> QED
    BY <1>3 DEF p, b

LEMMA CallbackReadsStep == ASSUME PipeInv, CallbackReads PROVE PipeInv'
<1> DEFINE b == in[current]
           p == b.pos
           bytes == BytesRead(b, ReadSize)
           made == Apply(oper_array[oper], bytes)
<1>1. /\ stage = "callback" /\ got' = got \o bytes
      /\ out' = out \/ out' = [out EXCEPT ![current] = AfterWrite(out[current], made)]
      /\ in' = [in EXCEPT ![current] = AfterRead(b, ReadSize)]
      /\ stage' = stage /\ UNCHANGED <<stream, pipe, taken>>
    BY DEF CallbackReads
<1>2. /\ b = InBlock(current, p) /\ p \in 0 .. BlockLength(current)
      /\ BlockLength(current) \in Nat /\ Offset(current) \in Nat
      /\ Offset(current) + BlockLength(current) <= Len(file)
      /\ out[current] \in OutBlock /\ file \in Seq(Int)
    BY <1>1, InUse
<1>3. /\ bytes \in Seq(Int) /\ Len(bytes) \in 0 .. BlockLength(current) - p
      /\ AfterRead(b, ReadSize) = InBlock(current, p + Len(bytes))
      /\ \A i \in 1 .. Len(bytes) : bytes[i] = file[Offset(current) + p + i]
    BY <1>1, BytesOf
<1> HIDE DEF p, b
<1>4. made \in Seq(Int)
  <2>1. /\ oper_array \in Seq(Callbacks) /\ oper \in 1 .. Len(oper_array) + 1
        /\ oper <= Len(oper_array)
      BY <1>1 DEF PipeInv, Operations
  <2>2. oper_array[oper] \in Callbacks \cup ByHand
      BY <2>1
  <2> QED
      BY <1>3, <2>2, ApplyFits
<1> HIDE DEF bytes, made
<1>5. AfterWrite(out[current], made) \in OutBlock
    BY <1>2, <1>4, OutWrite
<1>6. UNCHANGED <<stream, blocks_returned, current>>
    BY <1>1 DEF taken
<1>7. Blocks' /\ Position' /\ Reading'
  <2>1. p + Len(bytes) <= BlockLength(current)
      BY <1>2, <1>3
  <2>2. in' = [in EXCEPT ![current] = InBlock(current, p + Len(bytes))]
      BY <1>1, <1>3
  <2>3. stage \in {"get_c", "callback"} /\ stage' = stage
      BY <1>1
  <2>4. \E o \in OutBlock : out' = out \/ out' = [out EXCEPT ![current] = o]
      BY <1>1, <1>5
  <2> QED
      BY <1>1, <1>3, <1>6, <2>1, <2>2, <2>3, <2>4, ReadStep DEF p, b
<1>8. Operations' /\ Handling'
    BY <1>1, PipeKept
<1> QED
    BY <1>7, <1>8 DEF PipeInv

\* A block is at its end, or none is in use.
LEMMA StaysOpen ==
  ASSUME PipeInv, stage \in Opened, stage' \in Opened, stage' \notin {"get_c", "callback"},
         UNCHANGED <<stream, in, got, blocks_returned>>,
         DOMAIN out' = DOMAIN out, \A b \in 0 .. block_count - 1 : out'[b] \in OutBlock,
         current' \in Nat, stage' = "tofile" => current' <= block_count,
         Consumed = Offset(blocks_returned)
  PROVE  Blocks' /\ Position' /\ Reading'
<1>1. Blocks /\ Position /\ Reading
    BY DEF PipeInv
<1>2. UNCHANGED stream
    OBVIOUS
<1>3. blocks_returned \in Nat /\ blocks_returned <= block_count /\ block_count \in Nat
    BY <1>1, Opening DEF Position
<1>4. Blocks'
  <2>1. blocks_returned' \in blocks_returned .. block_count
      BY <1>3
  <2> QED
      BY <1>1, <1>2, <1>3, <2>1, BlocksStep
<1>5. block_count' = block_count /\ file' = file /\ \A b : Offset(b)' = Offset(b)
    BY <1>2, Same
<1>6. Position'
    BY <1>1, <1>5 DEF Position, Opened
<1>7. Reading'
  <2>1. Consumed' = Offset(blocks_returned)'
      BY DEF Consumed
  <2>2. Consumed' = Consumed
      BY <1>5, <2>1
  <2> QED
      BY <1>1, <1>5, <2>2 DEF Reading
<1> QED
    BY <1>4, <1>6, <1>7

\* The same, when the memory of the blocks is as it was.
LEMMA StaysQuiet ==
  ASSUME PipeInv, stage \in Opened, stage' \in Opened, stage' \notin {"get_c", "callback"},
         UNCHANGED <<stream, in, out, got, blocks_returned>>,
         current' \in Nat, stage' = "tofile" => current' <= block_count,
         Consumed = Offset(blocks_returned)
  PROVE  Blocks' /\ Position' /\ Reading'
<1>1. \A b \in 0 .. block_count - 1 : out[b] \in OutBlock
    BY Opening DEF PipeInv
<1> QED
    BY <1>1, StaysOpen

\* Who was given the blocks is as it was.
LEMMA HandlersKept ==
  ASSUME PipeInv, UNCHANGED <<handlers, oper_array>>
  PROVE  Handling'
BY DEF PipeInv, Handling, FirstOperationOnly

LEMMA Abort ==
  ASSUME PipeInv, stage' = "aborted", UNCHANGED <<stream, pipe, taken, in, out, got>>
  PROVE  PipeInv'
<1>1. Blocks /\ Position /\ Reading /\ Operations
    BY DEF PipeInv
<1>2. /\ file' = file /\ block_size' = block_size /\ block_count' = block_count
      /\ \A b : Offset(b)' = Offset(b) /\ BlockLength(b)' = BlockLength(b)
      /\ \A b, p : InBlock(b, p)' = InBlock(b, p)
    BY Same
<1>3. Blocks'
    BY <1>1, <1>2 DEF Blocks, Opened, taken, OutBlock
<1>4. Position'
    BY <1>1 DEF Position, taken, Opened
<1>5. Reading'
    BY <1>1, <1>2 DEF Reading, Opened
<1>6. Operations'
    BY <1>1 DEF Operations, Opened, pipe
<1>7. Handling'
    BY HandlersKept DEF pipe, taken
<1> QED
    BY <1>3, <1>4, <1>5, <1>6, <1>7 DEF PipeInv

LEMMA FreeStreamStep == ASSUME PipeInv, FreeStream PROVE PipeInv'
<1>1. /\ stage' = "freed" /\ in' = <<>> /\ out' = <<>>
      /\ UNCHANGED <<stream, pipe, taken, got>>
    BY DEF FreeStream
<1>2. Blocks /\ Position /\ Reading /\ Operations
    BY DEF PipeInv
<1>3. file' = file /\ block_size' = block_size
    BY <1>1, Same
<1>4. Blocks'
    BY <1>1, <1>2, <1>3 DEF Blocks, Opened
<1>5. Position'
    BY <1>1, <1>2 DEF Position, taken, Opened
<1>6. Reading'
    BY <1>1, <1>2, <1>3 DEF Reading, Opened
<1>7. Operations'
    BY <1>1, <1>2 DEF Operations, Opened, pipe
<1>8. Handling'
    BY <1>1, HandlersKept DEF pipe, taken
<1> QED
    BY <1>4, <1>5, <1>6, <1>7, <1>8 DEF PipeInv

LEMMA FreeBlockStep == ASSUME PipeInv, FreeBlock PROVE PipeInv'
<1>1. /\ stage = "user" /\ stage' \in {"user", "aborted"}
      /\ UNCHANGED <<stream, pipe, taken, in, out, got>>
    BY DEF FreeBlock
<1>2. CASE stage' = "aborted"
    BY <1>1, <1>2, Abort
<1>3. CASE stage' = "user"
  <2>1. /\ Consumed = Offset(blocks_returned) /\ stage \in Opened /\ stage' \in Opened
        /\ stage' # "tofile" /\ stage' \notin {"get_c", "callback"}
      BY <1>1, <1>3 DEF Consumed, Opened
  <2>2. current' \in Nat /\ UNCHANGED <<stream, in, out, got, blocks_returned>>
      BY <1>1 DEF PipeInv, Position, taken
  <2>3. Blocks' /\ Position' /\ Reading'
      BY <2>1, <2>2, StaysQuiet
  <2>4. Operations' /\ Handling'
      BY <1>1, <1>3, PipeKept
  <2> QED
      BY <2>3, <2>4 DEF PipeInv
<1> QED
    BY <1>1, <1>2, <1>3

LEMMA BlockReadStep == ASSUME PipeInv, BlockRead PROVE PipeInv'
<1>1. /\ stage = "get_c" /\ in[current].pos = in[current].length /\ stage' = "user"
      /\ UNCHANGED <<stream, pipe, taken, in, out, got>>
    BY DEF BlockRead
<1>2. Consumed = Offset(blocks_returned)
  <2>1. /\ blocks_returned = current + 1 /\ in[current].length = BlockLength(current)
        /\ Offset(current + 1) = Offset(current) + BlockLength(current)
      BY <1>1, InUse
  <2> QED
      BY <1>1, <2>1 DEF Consumed
<1>3. stage \in Opened /\ stage' \in Opened /\ stage' # "tofile"
      /\ stage' \notin {"get_c", "callback"}
    BY <1>1 DEF Opened
<1>4. current' \in Nat /\ UNCHANGED <<stream, in, out, got, blocks_returned>>
    BY <1>1 DEF PipeInv, Position, taken
<1>5. Blocks' /\ Position' /\ Reading'
    BY <1>2, <1>3, <1>4, StaysQuiet
<1>6. Operations'
    BY <1>1, Same DEF PipeInv, Operations, Opened, pipe, taken
<1>7. Handling'
    BY <1>1, HandlersKept DEF pipe, taken
<1> QED
    BY <1>5, <1>6, <1>7 DEF PipeInv

LEMMA CallbackReturnsStep == ASSUME PipeInv, CallbackReturns PROVE PipeInv'
<1>1. /\ stage = "callback" /\ Readable(in[current], ReadSize) = 0
      /\ bid' = bid + 1 /\ stage' = "blocks"
      /\ UNCHANGED <<stream, oper_array, oper, bcount, taken, in, out, got>>
    BY DEF CallbackReturns
<1>2. Consumed = Offset(blocks_returned)
  <2> DEFINE p == in[current].pos
  <2>1. /\ blocks_returned = current + 1 /\ in[current].length = BlockLength(current)
        /\ Offset(current + 1) = Offset(current) + BlockLength(current)
        /\ p \in 0 .. BlockLength(current) /\ BlockLength(current) \in Nat
      BY <1>1, InUse
  <2> HIDE DEF p
  <2>2. p = BlockLength(current)
      BY <1>1, <2>1, PipeAssumption DEF Readable, p
  <2> QED
      BY <1>1, <2>1, <2>2 DEF Consumed, p
<1>3. stage \in Opened /\ stage' \in Opened /\ stage' # "tofile"
      /\ stage' \notin {"get_c", "callback"}
    BY <1>1 DEF Opened
<1>4. current' \in Nat /\ UNCHANGED <<stream, in, out, got, blocks_returned>>
    BY <1>1 DEF PipeInv, Position, taken
<1>5. Blocks' /\ Position' /\ Reading'
    BY <1>2, <1>3, <1>4, StaysQuiet
<1>6. Operations'
  <2>1. /\ block_count \in Nat /\ blocks_returned \in Nat /\ blocks_returned <= block_count
        /\ block_count' = block_count /\ blocks_returned' = blocks_returned
      BY <1>1, <1>3, Opening, Same DEF PipeInv, Position, taken
  <2>2. Operations
      BY DEF PipeInv
  <2> QED
      BY <1>1, <1>3, <2>1, <2>2 DEF Operations
<1>7. Handling'
    BY <1>1, HandlersKept DEF taken
<1> QED
    BY <1>5, <1>6, <1>7 DEF PipeInv

\* What the user, or the loop over the operations, decides touches no block.
LEMMA NewPipeStep ==
  ASSUME PipeInv, NEW c \in Callbacks, NewPipe(c)
  PROVE  PipeInv'
<1>1. /\ stage = "user" /\ oper_array' = <<c>> /\ stage' = "add"
      /\ UNCHANGED <<stream, oper, bcount, bid, taken, in, out, got>>
    BY DEF NewPipe
<1>2. /\ Consumed = Offset(blocks_returned) /\ stage \in Opened /\ stage' \in Opened
      /\ stage' # "tofile" /\ stage' \notin {"get_c", "callback"}
    BY <1>1 DEF Consumed, Opened
<1>3. current' \in Nat /\ UNCHANGED <<stream, in, out, got, blocks_returned>>
    BY <1>1 DEF PipeInv, Position, taken
<1>4. Blocks' /\ Position' /\ Reading'
    BY <1>2, <1>3, StaysQuiet
<1>5. /\ oper_array = <<>> /\ oper = 1 /\ bid \in Nat /\ bcount \in Nat /\ bid <= bcount
  <2>1. Operations /\ oper_array = <<>>
      BY <1>1 DEF PipeInv, Operations
  <2> QED
      BY <2>1 DEF Operations
<1>6. Operations'
  <2>1. <<c>> \in Seq(Callbacks) /\ Len(<<c>>) = 1 /\ <<c>> # <<>>
      OBVIOUS
  <2>2. 1 <= MaxOps
      BY PipeAssumption
  <2> QED
      BY <1>1, <1>5, <2>1, <2>2 DEF Operations, Opened
<1>7. Handling'
  <2>1. handlers \in Seq(ByHand \cup Callbacks) /\ \A i \in DOMAIN handlers : handlers[i] \in ByHand
      BY <1>5 DEF PipeInv, Handling, FirstOperationOnly
  <2> QED
      BY <1>1, <2>1 DEF Handling, FirstOperationOnly, taken
<1> QED
    BY <1>4, <1>6, <1>7 DEF PipeInv

LEMMA AddOperationStep ==
  ASSUME PipeInv, NEW c \in Callbacks, AddOperation(c)
  PROVE  PipeInv'
<1>1. /\ stage = "add" /\ Len(oper_array) < MaxOps
      /\ oper_array' = Append(oper_array, c) /\ stage' = "add"
      /\ UNCHANGED <<stream, oper, bcount, bid, taken, in, out, got>>
    BY DEF AddOperation
<1>2. /\ Consumed = Offset(blocks_returned) /\ stage \in Opened /\ stage' \in Opened
      /\ stage' # "tofile" /\ stage' \notin {"get_c", "callback"}
    BY <1>1 DEF Consumed, Opened
<1>3. current' \in Nat /\ UNCHANGED <<stream, in, out, got, blocks_returned>>
    BY <1>1 DEF PipeInv, Position, taken
<1>4. Blocks' /\ Position' /\ Reading'
    BY <1>2, <1>3, StaysQuiet
<1>5. /\ oper_array \in Seq(Callbacks) /\ oper_array # <<>> /\ oper = 1
      /\ bid \in Nat /\ bcount \in Nat /\ bid <= bcount
    BY <1>1 DEF PipeInv, Operations
<1>6. /\ oper_array' \in Seq(Callbacks) /\ Len(oper_array') = Len(oper_array) + 1
      /\ Len(oper_array) \in Nat \ {0} /\ oper_array' # <<>>
      /\ oper_array'[1] = oper_array[1]
    BY <1>1, <1>5
<1>7. Operations'
  <2>1. Len(oper_array') <= MaxOps /\ oper \in 1 .. Len(oper_array') + 1
      BY <1>1, <1>5, <1>6, PipeAssumption
  <2> QED
      BY <1>1, <1>5, <1>6, <2>1 DEF Operations, Opened
<1>8. Handling'
    BY <1>1, <1>5, <1>6 DEF PipeInv, Handling, FirstOperationOnly, taken
<1> QED
    BY <1>4, <1>7, <1>8 DEF PipeInv

LEMMA StartStep == ASSUME PipeInv, Start PROVE PipeInv'
<1>1. /\ stage = "add" /\ stage' = "start"
      /\ UNCHANGED <<stream, pipe, taken, in, out, got>>
    BY DEF Start
<1>2. /\ Consumed = Offset(blocks_returned) /\ stage \in Opened /\ stage' \in Opened
      /\ stage' # "tofile" /\ stage' \notin {"get_c", "callback"}
    BY <1>1 DEF Consumed, Opened
<1>3. current' \in Nat /\ UNCHANGED <<stream, in, out, got, blocks_returned>>
    BY <1>1 DEF PipeInv, Position, taken
<1>4. Blocks' /\ Position' /\ Reading'
    BY <1>2, <1>3, StaysQuiet
<1>5. block_count' = block_count
    BY <1>1, Same
<1>6. Operations'
    BY <1>1, <1>2, <1>3, <1>5 DEF PipeInv, Operations, pipe
<1>7. Handling'
    BY <1>1, HandlersKept DEF pipe, taken
<1> QED
    BY <1>4, <1>6, <1>7 DEF PipeInv

LEMMA NextOperationStep == ASSUME PipeInv, NextOperation PROVE PipeInv'
<1>1. /\ stage = "start" /\ oper <= Len(oper_array)
      /\ bcount' = block_count - blocks_returned /\ bid' = 0 /\ stage' = "blocks"
      /\ UNCHANGED <<stream, oper_array, oper, taken, in, out, got>>
    BY DEF NextOperation, BlocksLeft
<1>2. /\ Consumed = Offset(blocks_returned) /\ stage \in Opened /\ stage' \in Opened
      /\ stage' # "tofile" /\ stage' \notin {"get_c", "callback"}
    BY <1>1 DEF Consumed, Opened
<1>3. current' \in Nat /\ UNCHANGED <<stream, in, out, got, blocks_returned>>
    BY <1>1 DEF PipeInv, Position, taken
<1>4. Blocks' /\ Position' /\ Reading'
    BY <1>2, <1>3, StaysQuiet
<1>5. /\ block_count \in Nat /\ blocks_returned \in Nat /\ blocks_returned <= block_count
      /\ block_count' = block_count
    BY <1>1, <1>2, Opening, Same DEF PipeInv, Position
<1>6. Operations'
    BY <1>1, <1>2, <1>3, <1>5 DEF PipeInv, Operations
<1>7. Handling'
    BY <1>1, HandlersKept DEF taken
<1> QED
    BY <1>4, <1>6, <1>7 DEF PipeInv

LEMMA OperationDoneStep == ASSUME PipeInv, OperationDone PROVE PipeInv'
<1>1. /\ stage = "blocks" /\ bid = bcount /\ oper' = oper + 1 /\ stage' = "start"
      /\ UNCHANGED <<stream, oper_array, bcount, bid, taken, in, out, got>>
    BY DEF OperationDone
<1>2. /\ Consumed = Offset(blocks_returned) /\ stage \in Opened /\ stage' \in Opened
      /\ stage' # "tofile" /\ stage' \notin {"get_c", "callback"}
    BY <1>1 DEF Consumed, Opened
<1>3. current' \in Nat /\ UNCHANGED <<stream, in, out, got, blocks_returned>>
    BY <1>1 DEF PipeInv, Position, taken
<1>4. Blocks' /\ Position' /\ Reading'
    BY <1>2, <1>3, StaysQuiet
<1>5. /\ block_count \in Nat /\ blocks_returned \in Nat /\ block_count' = block_count
    BY <1>1, <1>2, Opening, Same DEF PipeInv, Position
<1>6. Operations /\ blocks_returned = block_count
  <2>1. Operations /\ bid \in Nat /\ bcount \in Nat /\ bcount - bid = block_count - blocks_returned
      BY <1>1 DEF PipeInv, Operations
  <2> QED
      BY <1>1, <1>5, <2>1
<1>7. Operations'
  <2>1. oper' \in 1 .. Len(oper_array) + 1 /\ oper_array # <<>> /\ Len(oper_array) \in Nat
      BY <1>1, <1>6 DEF Operations
  <2> QED
      BY <1>1, <1>3, <1>5, <1>6, <2>1 DEF Operations
<1>8. Handling'
    BY <1>1, HandlersKept DEF taken
<1> QED
    BY <1>4, <1>7, <1>8 DEF PipeInv

LEMMA StartToFileStep == ASSUME PipeInv, StartToFile PROVE PipeInv'
<1>1. /\ stage = "start" /\ oper > Len(oper_array) /\ current' = 0 /\ stage' = "tofile"
      /\ UNCHANGED <<stream, pipe, blocks_returned, handlers, in, out, got>>
    BY DEF StartToFile
<1>2. /\ Consumed = Offset(blocks_returned) /\ stage \in Opened /\ stage' \in Opened
      /\ stage' \notin {"get_c", "callback"}
    BY <1>1 DEF Consumed, Opened
<1>3. block_count \in Nat /\ block_count' = block_count
    BY <1>1, <1>2, Opening, Same DEF PipeInv
<1>4. Blocks' /\ Position' /\ Reading'
    BY <1>1, <1>2, <1>3, StaysQuiet
<1>5. Operations /\ blocks_returned = block_count /\ oper_array # <<>>
  <2>1. /\ Operations /\ oper_array \in Seq(Callbacks) /\ oper_array # <<>>
        /\ oper \in 1 .. Len(oper_array) + 1
      BY <1>1 DEF PipeInv, Operations
  <2>2. oper > 1
      BY <1>1, <2>1, EmptySeq
  <2> QED
      BY <1>2, <2>1, <2>2 DEF Operations
<1>6. Operations'
    BY <1>1, <1>3, <1>5 DEF Operations, pipe
<1>7. Handling'
    BY <1>1, HandlersKept DEF pipe
<1> QED
    BY <1>4, <1>6, <1>7 DEF PipeInv

LEMMA FinishStep == ASSUME PipeInv, Finish PROVE PipeInv'
<1>1. /\ stage = "tofile" /\ stage' = "done"
      /\ UNCHANGED <<stream, pipe, taken, in, out, got>>
    BY DEF Finish
<1>2. /\ Consumed = Offset(blocks_returned) /\ stage \in Opened /\ stage' \in Opened
      /\ stage' # "tofile" /\ stage' \notin {"get_c", "callback"}
    BY <1>1 DEF Consumed, Opened
<1>3. current' \in Nat /\ UNCHANGED <<stream, in, out, got, blocks_returned>>
    BY <1>1 DEF PipeInv, Position, taken
<1>4. Blocks' /\ Position' /\ Reading'
    BY <1>2, <1>3, StaysQuiet
<1>5. block_count' = block_count
    BY <1>1, Same
<1>6. Operations'
    BY <1>1, <1>2, <1>3, <1>5 DEF PipeInv, Operations, pipe
<1>7. Handling'
    BY <1>1, HandlersKept DEF pipe, taken
<1> QED
    BY <1>4, <1>6, <1>7 DEF PipeInv

LEMMA ToFileStep == ASSUME PipeInv, ToFile PROVE PipeInv'
<1>1. /\ stage = "tofile" /\ stage' = stage /\ current < block_count /\ current' = current + 1
      /\ out' = [out EXCEPT ![current] = AfterSeek(out[current])]
      /\ UNCHANGED <<stream, pipe, blocks_returned, handlers, in, got>>
    BY DEF ToFile
<1>2. /\ Consumed = Offset(blocks_returned) /\ stage \in Opened /\ stage' \in Opened
      /\ stage' \notin {"get_c", "callback"}
    BY <1>1 DEF Consumed, Opened
<1>3. /\ block_count \in Nat /\ block_count' = block_count /\ current \in Nat
      /\ DOMAIN out = 0 .. block_count - 1
      /\ \A b \in 0 .. block_count - 1 : out[b] \in OutBlock
    BY <1>1, <1>2, Opening, Same DEF PipeInv, Position
<1>4. AfterSeek(out[current]) \in OutBlock
    BY <1>1, <1>3, OutSeek
<1>5. DOMAIN out' = DOMAIN out /\ \A b \in 0 .. block_count - 1 : out'[b] \in OutBlock
    BY <1>1, <1>3, <1>4
<1>6. current' \in Nat /\ current' <= block_count
    BY <1>1, <1>3
<1>7. Blocks' /\ Position' /\ Reading'
    BY <1>1, <1>2, <1>5, <1>6, StaysOpen
<1>8. Operations'
    BY <1>1, <1>3 DEF PipeInv, Operations, pipe
<1>9. Handling'
    BY <1>1, HandlersKept DEF pipe
<1> QED
    BY <1>7, <1>8, <1>9 DEF PipeInv

LEMMA ToFileFailsStep == ASSUME PipeInv, ToFileFails PROVE PipeInv'
<1>1. /\ stage = "tofile" /\ stage' = "aborted" /\ current < block_count
      /\ out' = [out EXCEPT ![current] = AfterSeek(out[current])]
      /\ UNCHANGED <<stream, pipe, taken, in, got>>
    BY DEF ToFileFails
<1>2. Blocks /\ Position /\ Reading /\ Operations /\ stage \in Opened
    BY <1>1 DEF PipeInv, Opened
<1>3. /\ block_count \in Nat /\ current \in Nat /\ file' = file
      /\ blocks_returned \in Nat /\ blocks_returned <= block_count
      /\ DOMAIN out = 0 .. block_count - 1 /\ blocks_returned' = blocks_returned
      /\ \A b \in 0 .. block_count - 1 : out[b] \in OutBlock
    BY <1>1, <1>2, Opening, Same DEF Position, taken
<1>4. AfterSeek(out[current]) \in OutBlock
    BY <1>1, <1>3, OutSeek
<1>5. DOMAIN out' = DOMAIN out /\ \A b \in 0 .. block_count - 1 : out'[b] \in OutBlock
    BY <1>1, <1>3, <1>4
<1>6. Blocks'
  <2>1. blocks_returned' \in blocks_returned .. block_count
      BY <1>3
  <2> QED
      BY <1>1, <1>2, <1>3, <1>5, <2>1, BlocksStep
<1>7. Position'
    BY <1>1, <1>2 DEF Position, taken, Opened
<1>8. Reading'
    BY <1>1, <1>2, <1>3 DEF Reading, Opened
<1>9. Operations'
    BY <1>1, <1>2 DEF Operations, Opened, pipe
<1>10. Handling'
    BY <1>1, HandlersKept DEF pipe, taken
<1> QED
    BY <1>6, <1>7, <1>8, <1>9, <1>10 DEF PipeInv

LEMMA PipeStutter == ASSUME PipeInv, UNCHANGED vars PROVE PipeInv'
<1>1. stage' = stage /\ UNCHANGED <<stream, pipe, taken, in, out, got>>
    BY DEF vars
<1>2. Operations' /\ Handling'
    BY <1>1, PipeKept
<1>3. /\ file' = file /\ block_size' = block_size /\ block_count' = block_count
      /\ \A b : Offset(b)' = Offset(b) /\ BlockLength(b)' = BlockLength(b)
      /\ \A b, p : InBlock(b, p)' = InBlock(b, p)
    BY <1>1, Same
<1>4. blocks_returned' = blocks_returned /\ current' = current
    BY <1>1 DEF taken
<1>5. Blocks'
    BY <1>1, <1>3, <1>4 DEF PipeInv, Blocks, OutBlock
<1>6. Position'
    BY <1>1, <1>3, <1>4 DEF PipeInv, Position
<1>7. Reading'
  <2>1. Consumed' = Consumed
      BY <1>1, <1>3, <1>4 DEF Consumed
  <2> QED
      BY <1>1, <1>3, <2>1 DEF PipeInv, Reading
<1> QED
    BY <1>2, <1>5, <1>6, <1>7 DEF PipeInv

-----------------------------------------------------------------------------
(* The theorems *)

LEMMA EveryStep == ASSUME PipeInv, [Next]_vars PROVE PipeInv'
<1>1. ASSUME NEW h \in ByHand, TakeBlock(h) PROVE PipeInv'
    BY <1>1, TakeBlockStep
<1>2. ASSUME NEW c \in Callbacks, NewPipe(c) PROVE PipeInv'
    BY <1>2, NewPipeStep
<1>3. ASSUME NEW c \in Callbacks, AddOperation(c) PROVE PipeInv'
    BY <1>3, AddOperationStep
<1>4. ASSUME OpenFails \/ AddFails PROVE PipeInv'
  <2>1. stage' = "aborted" /\ UNCHANGED <<stream, pipe, taken, in, out, got>>
      BY <1>4 DEF OpenFails, AddFails
  <2> QED
      BY <2>1, Abort
<1>5. ASSUME NoBlockLeft \/ Ended \/ UNCHANGED vars PROVE PipeInv'
  <2>1. UNCHANGED vars
      BY <1>5 DEF NoBlockLeft, Ended
  <2> QED
      BY <2>1, PipeStutter
<1>6. ASSUME User PROVE PipeInv'
    BY <1>1, <1>2, <1>3, <1>4, <1>5, <1>6, FreeBlockStep, FreeStreamStep, StartStep DEF User
<1>7. ASSUME Run PROVE PipeInv'
    BY <1>4, <1>7, OpenStreamStep, ReadByteStep, BlockReadStep, NextOperationStep, NextBlockStep,
       OperationDoneStep, CallbackReadsStep, CallbackReturnsStep, StartToFileStep, ToFileStep,
       ToFileFailsStep, FinishStep DEF Run
<1> QED
    BY <1>5, <1>6, <1>7 DEF Next

\* The invariant holds, for files and blocks of every size and any number of
\* operations.
THEOREM PipeInvariance == Spec => []PipeInv
<1>1. Init => PipeInv
    BY InitHolds
<1>2. PipeInv /\ [Next]_vars => PipeInv'
    BY EveryStep
<1> QED
    BY <1>1, <1>2, PTL DEF Spec

\* Positions stay inside their blocks, and lengths inside the memory allocated,
\* however much is written (the asserts of block_read, block_write and block_seek).
THEOREM PipeTypes == Spec => []TypeOK
<1>1. PipeInv => TypeOK
  <2> SUFFICES ASSUME PipeInv PROVE TypeOK
      OBVIOUS
  <2>1. Blocks /\ Position /\ Operations
      BY DEF PipeInv
  <2>2. ASSUME NEW b \in DOMAIN in PROVE BlockOK(in[b]) /\ BlockOK(out[b])
    <3>1. CASE in = <<>>
        BY <3>1
    <3>2. CASE in # <<>>
      <4>1. /\ Len(file) \in Nat /\ Len(file) > 0 /\ block_size \in Nat /\ block_size > 0
            /\ b \in 0 .. block_count - 1
            /\ in[b].pos \in 0 .. BlockLength(b) /\ in[b] = InBlock(b, in[b].pos)
            /\ out[b] \in OutBlock
        <5>1. /\ Len(file) > 0 /\ block_size \in Nat /\ block_size > 0 /\ file \in Seq(Int)
              /\ DOMAIN in = 0 .. block_count - 1
              /\ \A k \in 0 .. block_count - 1 :
                    /\ in[k].pos \in 0 .. BlockLength(k) /\ in[k] = InBlock(k, in[k].pos)
                    /\ out[k] \in OutBlock
            BY <2>1, <3>2 DEF Blocks
        <5>2. Len(file) \in Nat
            BY <5>1
        <5>3. b \in 0 .. block_count - 1
            BY <5>1
        <5> QED
            BY <5>1, <5>2, <5>3
      <4>2. BlockLength(b) \in Nat
          BY <4>1, Cuts
      <4>3. /\ in[b].length = BlockLength(b) /\ in[b].bytes_written = 0
            /\ in[b].data = [i \in 1 .. BlockLength(b) |-> file[Offset(b) + i]]
          BY <4>1 DEF InBlock
      <4>4. Len(in[b].data) = BlockLength(b)
          BY <4>2, <4>3
      <4>5. BlockOK(in[b])
          BY <4>1, <4>2, <4>3, <4>4 DEF BlockOK
      <4>6. BlockOK(out[b])
          BY <4>1 DEF OutBlock, BlockOK
      <4> QED
          BY <4>5, <4>6
    <3> QED
        BY <3>1, <3>2
  <2>3. Len(oper_array) \in Nat /\ Len(oper_array) <= MaxOps /\ oper \in 1 .. MaxOps + 1
      BY <2>1, PipeAssumption DEF Operations
  <2>4. bid \in 0 .. bcount
      BY <2>1 DEF Operations
  <2> QED
      BY <2>1, <2>2, <2>3, <2>4 DEF TypeOK, Position, Opened
<1> QED
    BY <1>1, PipeInvariance, PTL

\* What has been read is the file from its start, each byte once, and all of it
\* when dach_pipe_start has returned.
THEOREM FileReadInOrder == Spec => []ReadsFileInOrder
<1>1. PipeInv => ReadsFileInOrder
  <2> SUFFICES ASSUME PipeInv PROVE ReadsFileInOrder
      OBVIOUS
  <2>1. /\ file \in Seq(Int) /\ got \in Seq(Int) /\ Len(got) <= Len(file)
        /\ \A i \in 1 .. Len(got) : got[i] = file[i]
      BY DEF PipeInv, Blocks, Reading
  <2>3. IsPrefix(got, file)
      BY <2>1, PrefixByElements
  <2>4. ASSUME stage \in {"tofile", "done"} PROVE got = file
    <3>1. blocks_returned = block_count /\ stage \in Opened /\ Len(got) = Consumed
        BY <2>4 DEF PipeInv, Operations, Reading, Opened
    <3>2. Consumed = Len(file)
        BY <2>4, <3>1, Opening DEF PipeInv, Consumed
    <3> QED
        BY <2>1, <3>1, <3>2, SeqEqual
  <2> QED
      BY <2>3, <2>4 DEF ReadsFileInOrder
<1> QED
    BY <1>1, PipeInvariance, PTL

\* Every block that was handed out went to the user or to the first operation.
THEOREM LaterOperationsGetNothing == Spec => []FirstOperationOnly
<1>1. PipeInv => FirstOperationOnly
    BY DEF PipeInv, Handling
<1> QED
    BY <1>1, PipeInvariance, PTL

\* The blocks of an open stream, put together, are the file; none is empty.
THEOREM BlocksAreTheFile == Spec => []BlocksPartitionFile
<1>1. PipeInv => BlocksPartitionFile
  <2> SUFFICES ASSUME PipeInv, DOMAIN in # {}
               PROVE  /\ \A b \in DOMAIN in : in[b].length > 0
                      /\ Pieces(in) = file
      BY DEF BlocksPartitionFile
  <2>1. /\ file \in Seq(Int) /\ Len(file) \in Nat /\ Len(file) > 0
        /\ block_size \in Nat /\ block_size > 0
        /\ DOMAIN in = 0 .. block_count - 1
        /\ \A b \in 0 .. block_count - 1 : in[b] = InBlock(b, in[b].pos)
      BY DEF PipeInv, Blocks
  <2>2. /\ block_count \in Nat /\ block_count > 0
        /\ Offset(0) = 0 /\ Offset(block_count) = Len(file)
        /\ \A b \in 0 .. block_count - 1 :
              /\ BlockLength(b) \in Nat /\ BlockLength(b) > 0 /\ Offset(b) \in Nat
              /\ Offset(b + 1) = Offset(b) + BlockLength(b) /\ Offset(b + 1) <= Len(file)
      BY <2>1, Cuts
  <2>3. \A b \in 0 .. block_count - 1 :
           /\ in[b].length = BlockLength(b)
           /\ in[b].data = [i \in 1 .. BlockLength(b) |-> file[Offset(b) + i]]
    <3>1. \A b, p : /\ InBlock(b, p).length = BlockLength(b)
                    /\ InBlock(b, p).data = [i \in 1 .. BlockLength(b) |-> file[Offset(b) + i]]
        BY DEF InBlock
    <3> TAKE b \in 0 .. block_count - 1
    <3> DEFINE p == in[b].pos
    <3>2. in[b] = InBlock(b, p)
        BY <2>1
    <3> HIDE DEF p
    <3> QED
        BY <3>1, <3>2
  <2> DEFINE n == block_count
             seqs == [i \in 1 .. n |-> FileBytes(in[i - 1])]
             g == [i \in 1 .. n |-> SubSeq(file, 1, Offset(i))]
  <2>4. Len(seqs) = n /\ n \in Nat \ {0}
      BY <2>2
  <2>5. ASSUME NEW i \in 1 .. n
        PROVE  g[i] = IF i = 1 THEN seqs[i] ELSE g[i - 1] \o seqs[i]
    <3> DEFINE b == i - 1
               off == Offset(b)
               len == BlockLength(b)
    <3>1. b \in 0 .. n - 1 /\ b + 1 = i
        BY <2>2
    <3>2. /\ len \in Nat /\ len > 0 /\ off \in Nat /\ Offset(i) = off + len
          /\ off + len <= Len(file)
        BY <2>2, <3>1
    <3>3. seqs[i] = FileBytes(in[b]) /\ g[i] = SubSeq(file, 1, off + len)
        BY <3>2
    <3>4. FileBytes(in[b]) = SubSeq([k \in 1 .. len |-> file[off + k]], 1, len)
        BY <2>3, <3>1 DEF FileBytes
    <3>5. i # 1 => g[i - 1] = SubSeq(file, 1, off)
      <4>1. i # 1 => b \in 1 .. n
          BY <2>4, <3>1
      <4> HIDE DEF n
      <4>2. b \in 1 .. n => g[b] = SubSeq(file, 1, Offset(b))
          BY Zenon
      <4> QED
          BY <4>1, <4>2
    <3>6. i = 1 => off = 0
        BY <2>2
    <3> HIDE DEF b, off, len, n, g, seqs
    <3>7. FileBytes(in[b]) \in Seq(Int) /\ Len(FileBytes(in[b])) = len
          /\ \A k \in 1 .. len : FileBytes(in[b])[k] = file[off + k]
      <4> DEFINE d == [k \in 1 .. len |-> file[off + k]]
      <4>1. \A k \in 1 .. len : d[k] = file[off + k] /\ d[k] \in Int
        <5>1. \A k \in 1 .. len : off + k \in 1 .. Len(file)
            BY <2>1, <3>2
        <5>2. \A k \in 1 .. Len(file) : file[k] \in Int
            BY <2>1
        <5> QED
            BY <5>1, <5>2
      <4> HIDE DEF d
      <4>2. /\ SubSeq(d, 1, len) \in Seq(Int) /\ Len(SubSeq(d, 1, len)) = len
            /\ \A k \in 1 .. len : SubSeq(d, 1, len)[k] = d[k]
          BY <3>2, <4>1
      <4> QED
          BY <3>4, <4>1, <4>2 DEF d
    <3>8. SubSeq(file, 1, off) \in Seq(Int) /\ Len(SubSeq(file, 1, off)) = off
          /\ \A k \in 1 .. off : SubSeq(file, 1, off)[k] = file[k]
        BY <2>1, <3>2
    <3>9. SubSeq(file, 1, off + len) \in Seq(Int) /\ Len(SubSeq(file, 1, off + len)) = off + len
          /\ \A k \in 1 .. off + len : SubSeq(file, 1, off + len)[k] = file[k]
        BY <2>1, <3>2
    <3>10. SubSeq(file, 1, off + len) = SubSeq(file, 1, off) \o FileBytes(in[b])
      <4> DEFINE s == SubSeq(file, 1, off)
                 t == FileBytes(in[b])
                 u == SubSeq(file, 1, off + len)
      <4> HIDE DEF s, t, u
      <4>1. /\ s \o t \in Seq(Int) /\ Len(s \o t) = off + len
            /\ \A k \in 1 .. off + len : (s \o t)[k] = IF k <= off THEN s[k] ELSE t[k - off]
          BY <3>7, <3>8, ConcatProperties DEF s, t
      <4>2. ASSUME NEW k \in 1 .. off + len PROVE u[k] = (s \o t)[k]
        <5>1. u[k] = file[k]
            BY <3>9 DEF u
        <5>2. CASE k <= off
            BY <3>2, <3>8, <4>1, <5>1, <5>2 DEF s
        <5>3. CASE ~(k <= off)
          <6>1. k - off \in 1 .. len /\ off + (k - off) = k
              BY <3>2, <5>3
          <6>2. t[k - off] = file[k]
              BY <3>7, <6>1 DEF t
          <6> QED
              BY <4>1, <5>1, <5>3, <6>2
        <5> QED
            BY <5>2, <5>3
      <4> QED
          BY <3>9, <4>1, <4>2, SeqEqual DEF s, t, u
    <3>11. i = 1 => SubSeq(file, 1, off) \o FileBytes(in[b]) = FileBytes(in[b])
      <4>1. i = 1 => SubSeq(file, 1, off) = <<>>
          BY <3>6, <3>8
      <4> QED
          BY <3>7, <4>1, ConcatEmptySeq
    <3> QED
        BY <3>3, <3>5, <3>10, <3>11
  <2>6. Concats(seqs, g)
      BY <2>4, <2>5, ZenonT(60) DEF Concats
  <2> HIDE DEF n, g, seqs
  <2>7. FlattenSeq(seqs) = g[n]
      BY <2>4, <2>6, FlattenIs
  <2>8. g[n] = file
    <3>1. g[n] = SubSeq(file, 1, Len(file))
        BY <2>2 DEF g, n
    <3> QED
        BY <2>1, <3>1
  <2>9. Pieces(in) = FlattenSeq(seqs)
      BY DEF Pieces, seqs, n
  <2> QED
      BY <2>1, <2>2, <2>3, <2>7, <2>8, <2>9
<1> QED
    BY <1>1, PipeInvariance, PTL
-----------------------------------------------------------------------------
(* What becomes of the blocks *)

\* n elements of a sequence, from the one after off; one sequence and another; a
\* sequence that is part of another.
Piece(s, off, n) == SubSeq(s, off + 1, off + n)
Joined(s, t) == s \o t
FoundAt(bytes, s, off) == \A i \in 1 .. Len(bytes) : bytes[i] = s[off + i]

\* The bytes read of block b, and what its handler has made of them.
Seen(b) == Piece(file, Offset(b), in[b].pos)
MadeOf(b) == IF b < blocks_returned THEN Apply(handlers[b + 1], Seen(b)) ELSE <<>>

\* Memory for n values, or for what has been written if that is more.
Padded(made, n) == made \o Memory(IF Len(made) < n THEN n - Len(made) ELSE 0)

\* The memory of an output block is what its handler made of the bytes read so far,
\* and behind it what nobody has written; the block in use may have bytes to read.
HoldsMade(b) ==
    /\ out[b].data = Padded(MadeOf(b), BlockLength(b))
    /\ out[b].length = Len(out[b].data)
    /\ stage \notin {"tofile", "done"} => out[b].pos = Len(MadeOf(b))
    /\ \/ b >= blocks_returned
       \/ in[b].pos = BlockLength(b)
       \/ stage \in {"get_c", "callback"} /\ b = current

Memories == stage \in Opened => \A b \in 0 .. block_count - 1 : HoldsMade(b)

\* The last handler is the one at work.
AtWork == /\ Len(handlers) = blocks_returned
          /\ stage = "callback" => handlers[blocks_returned] = oper_array[1]

\* The output file has the first blocks, or when fwrite fails part of them.
Whole == [i \in 1 .. block_count |-> Expected(i - 1)]
OnDisk == /\ stage \notin {"tofile", "done", "freed", "aborted"} => outfile = <<>>
          /\ stage = "tofile" => outfile = Part(Whole, current)
          /\ stage = "done" => outfile = Part(Whole, block_count)
          /\ outfile = <<>> \/ IsPrefix(outfile, FlattenSeq(Whole))

OutInv == AtWork /\ Memories /\ OnDisk

LEMMA PaddedIs ==
  ASSUME NEW made \in Seq(Int), NEW n \in Nat
  PROVE  /\ Padded(made, n) \in Seq(Value)
         /\ Len(Padded(made, n)) = IF Len(made) < n THEN n ELSE Len(made)
         /\ \A k \in 1 .. Len(Padded(made, n)) :
               Padded(made, n)[k] = IF k <= Len(made) THEN made[k] ELSE Unwritten
<1> DEFINE m == Len(made)
           r == IF m < n THEN n - m ELSE 0
           rest == Memory(r)
           p == Padded(made, n)
<1>1. made \in Seq(Value) /\ m \in Nat
    BY SeqMonotonic DEF Value
<1>2. r \in Nat /\ m + r = IF m < n THEN n ELSE m
    BY <1>1
<1> HIDE DEF r
<1>3. rest \in Seq(Value) /\ Len(rest) = r /\ \A k \in 1 .. r : rest[k] = Unwritten
  <2>1. rest = [k \in 1 .. r |-> Unwritten] /\ rest \in [1 .. r -> Value]
      BY DEF Memory, Value
  <2> QED
      BY <1>2, <2>1, FunctionIsSeq
<1>4. p = made \o rest
    BY DEF Padded, r
<1> HIDE DEF rest, p
<1>5. /\ p \in Seq(Value) /\ Len(p) = m + r
      /\ \A k \in 1 .. m : p[k] = made[k]
      /\ \A k \in 1 .. r : p[m + k] = rest[k]
  <2>1. made \in Seq(Value) /\ rest \in Seq(Value)
      BY <1>1, <1>3
  <2>2. /\ p \in Seq(Value) /\ Len(p) = Len(made) + Len(rest)
        /\ \A k \in 1 .. Len(made) : p[k] = made[k]
        /\ \A k \in 1 .. Len(rest) : p[Len(made) + k] = rest[k]
      BY ONLY <1>4, <2>1, ConcatElements
  <2> QED
      BY <1>3, <2>2
<1>6. ASSUME NEW k \in 1 .. m + r PROVE p[k] = IF k <= m THEN made[k] ELSE Unwritten
  <2>1. CASE k <= m
      BY <1>1, <1>5, <2>1
  <2>2. CASE ~(k <= m)
    <3> DEFINE j == k - m
    <3>1. j \in 1 .. r /\ k = m + j
        BY <1>1, <1>2, <2>2
    <3> HIDE DEF j
    <3> QED
        BY <1>3, <1>5, <2>2, <3>1
  <2> QED
      BY <2>1, <2>2
<1> QED
    BY <1>2, <1>5, <1>6 DEF p

\* Writing more appends it to what has been made, growing the memory if need be.
LEMMA WriteMore ==
  ASSUME NEW made \in Seq(Int), NEW more \in Seq(Int), NEW n \in Nat,
         NEW o \in OutBlock, o.data = Padded(made, n), o.length = Len(o.data),
         o.pos = Len(made)
  PROVE  LET w == AfterWrite(o, more)
         IN  /\ w.data = Padded(made \o more, n) /\ w.length = Len(w.data)
             /\ w.pos = Len(made \o more)
<1> DEFINE m == Len(made)
           k == Len(more)
           both == made \o more
           r == Room(o, k)
           w == AfterWrite(o, more)
           d == [i \in DOMAIN r.data |-> IF i - o.pos \in DOMAIN more
                                         THEN more[i - o.pos] ELSE r.data[i]]
           old == IF m < n THEN n ELSE m
           new == IF m + k < n THEN n ELSE m + k
<1>1. /\ both \in Seq(Int) /\ m \in Nat /\ k \in Nat /\ Len(both) = m + k
      /\ \A i \in 1 .. m : both[i] = made[i]
      /\ \A i \in 1 .. k : both[m + i] = more[i]
      /\ DOMAIN more = 1 .. k
    BY ConcatElements
<1>2. /\ Len(o.data) = old /\ o.length = old /\ o.pos = m /\ DOMAIN o.data = 1 .. old
      /\ \A i \in 1 .. old : o.data[i] = IF i <= m THEN made[i] ELSE Unwritten
    BY PaddedIs, LenProperties, SMTT(40) DEF OutBlock
<1>3. /\ Padded(both, n) \in Seq(Value) /\ Len(Padded(both, n)) = new
      /\ \A i \in 1 .. new : Padded(both, n)[i] = IF i <= m + k THEN both[i] ELSE Unwritten
  <2> HIDE DEF both
  <2>1. both \in Seq(Int)
      BY <1>1
  <2>2. /\ Padded(both, n) \in Seq(Value)
        /\ Len(Padded(both, n)) = IF Len(both) < n THEN n ELSE Len(both)
        /\ \A i \in 1 .. Len(Padded(both, n)) :
              Padded(both, n)[i] = IF i <= Len(both) THEN both[i] ELSE Unwritten
      BY <2>1, PaddedIs
  <2>3. Len(both) = m + k
      BY <1>1
  <2> HIDE DEF m, k
  <2> QED
      BY <2>2, <2>3
<1> HIDE DEF both, m, k
<1>4. /\ r.pos = m /\ r.length = new /\ DOMAIN r.data = 1 .. new
      /\ \A i \in 1 .. new : r.data[i] = IF i <= m THEN made[i] ELSE Unwritten
  <2>1. CASE k + m >= old
    <3>1. /\ k + m = new /\ r = [o EXCEPT !.data = Resized(o.data, k + m), !.length = k + m]
        BY <1>1, <1>2, <2>1 DEF Room
    <3>2. r.pos = m /\ r.length = new /\ r.data = Resized(o.data, new)
        BY <1>2, <3>1 DEF OutBlock
    <3>3. r.data = [i \in 1 .. new |-> IF i <= old THEN o.data[i] ELSE Unwritten]
        BY <1>2, <3>2 DEF Resized
    <3>4. m <= old /\ old \in Nat
        BY <1>1
    <3> HIDE DEF r, old
    <3> QED
        BY <1>1, <1>2, <3>2, <3>3, <3>4
  <2>2. CASE ~(k + m >= old)
    <3>1. r = o /\ new = old
        BY <1>1, <1>2, <2>2 DEF Room
    <3> QED
        BY <1>2, <3>1
  <2> QED
      BY <2>1, <2>2
<1>5. w = [r EXCEPT !.data = d, !.pos = r.pos + k, !.bytes_written = r.bytes_written + k]
    BY DEF AfterWrite, k
<1>6. DOMAIN r = DOMAIN o
    BY DEF Room, OutBlock
<1>7. w.data = d /\ w.pos = m + k /\ w.length = new
    BY <1>4, <1>5, <1>6 DEF OutBlock
<1> HIDE DEF w, r
<1>8. d = [i \in 1 .. new |-> IF i - m \in 1 .. k THEN more[i - m] ELSE r.data[i]]
    BY <1>1, <1>2, <1>4
<1>9. new \in Nat /\ m + k <= new
    BY <1>1
<1> HIDE DEF new, d
<1>10. ASSUME NEW i \in 1 .. new PROVE d[i] = Padded(both, n)[i]
  <2>1. CASE i <= m
    <3>1. i \in 1 .. m /\ i <= m + k /\ i - m \notin 1 .. k
        BY <1>1, <1>9, <2>1
    <3>2. d[i] = r.data[i]
        BY <1>8, <3>1
    <3> QED
        BY <1>1, <1>3, <1>4, <3>1, <3>2
  <2>2. CASE m < i /\ i <= m + k
    <3> DEFINE j == i - m
    <3>1. j \in 1 .. k /\ i = m + j
        BY <1>1, <2>2
    <3> HIDE DEF j
    <3>2. d[i] = more[j] /\ both[i] = more[j]
        BY <1>1, <1>8, <3>1 DEF j
    <3> QED
        BY <1>3, <2>2, <3>2
  <2>3. CASE m + k < i
    <3>1. i - m \notin 1 .. k /\ ~(i <= m) /\ ~(i <= m + k)
        BY <1>1, <2>3
    <3>2. d[i] = r.data[i]
        BY <1>8, <3>1
    <3> QED
        BY <1>3, <1>4, <3>1, <3>2
  <2> QED
      BY <1>1, <1>9, <2>1, <2>2, <2>3
<1>11. d = Padded(both, n)
  <2>1. Padded(both, n) = [i \in 1 .. new |-> Padded(both, n)[i]]
      BY <1>3, LenProperties
  <2>2. d = [i \in 1 .. new |-> d[i]]
      BY <1>8
  <2> QED
      BY <1>10, <2>1, <2>2
<1> QED
    BY <1>1, <1>3, <1>7, <1>11 DEF w, both

LEMMA Window ==
  ASSUME NEW s \in Seq(Int), NEW off \in Nat, NEW n \in Nat, off + n <= Len(s)
  PROVE  /\ Piece(s, off, n) \in Seq(Int) /\ Len(Piece(s, off, n)) = n
         /\ \A i \in 1 .. n : Piece(s, off, n)[i] = s[off + i]
<1> DEFINE w == SubSeq(s, off + 1, off + n)
<1>1. Len(s) \in Nat /\ off + n \in Nat /\ off + 1 \in 1 .. Len(s) + 1
    BY LenProperties
<1>2. w \in Seq(Int)
    BY <1>1
<1>3. Len(w) = n
    BY <1>1
<1>4. ASSUME NEW i \in 1 .. n PROVE w[i] = s[off + i]
    BY <1>1, <1>4
<1> QED
    BY <1>2, <1>3, <1>4 DEF Piece

\* A piece grows by the elements that follow it.
LEMMA WindowGrows ==
  ASSUME NEW s \in Seq(Int), NEW off \in Nat, NEW p \in Nat, NEW bytes \in Seq(Int),
         NEW q, q = p + Len(bytes), off + q <= Len(s),
         NEW from, from = off + p, FoundAt(bytes, s, from)
  PROVE  Piece(s, off, q) = Joined(Piece(s, off, p), bytes)
<1> DEFINE n == Len(bytes)
           v == Piece(s, off, p)
           w == Piece(s, off, q)
<1>1. /\ n \in Nat /\ off + q <= Len(s) /\ off + p <= Len(s) /\ Len(s) \in Nat
      /\ q \in Nat /\ q = p + n
    BY LenProperties
<1>2. v \in Seq(Int) /\ Len(v) = p /\ \A i \in 1 .. p : v[i] = s[off + i]
    BY <1>1, Window
<1>3. w \in Seq(Int) /\ Len(w) = q /\ \A i \in 1 .. q : w[i] = s[off + i]
    BY <1>1, Window
<1> HIDE DEF v, w
<1> DEFINE x == v \o bytes
<1>0. x = v \o bytes
    OBVIOUS
<1> HIDE DEF x
<1>4. /\ x \in Seq(Int) /\ Len(x) = q
      /\ \A i \in 1 .. p : x[i] = v[i]
      /\ \A i \in 1 .. n : x[p + i] = bytes[i]
  <2>1. v \in Seq(Int) /\ bytes \in Seq(Int) /\ Len(v) = p
      BY <1>2
  <2>2. x \in Seq(Int) /\ Len(x) = Len(v) + Len(bytes)
      BY <1>0, <2>1, ConcatElements
  <2>3. \A i \in 1 .. Len(v) : x[i] = v[i]
      BY <1>0, <2>1, ConcatElements
  <2>4. ASSUME NEW i \in 1 .. Len(bytes) PROVE x[Len(v) + i] = bytes[i]
    <3>1. \A k \in 1 .. Len(bytes) : (v \o bytes)[Len(v) + k] = bytes[k]
        BY ONLY <2>1, ConcatElements
    <3> QED
        BY <1>0, <3>1
  <2> HIDE DEF n
  <2>5. Len(x) = q
      BY <1>1, <2>1, <2>2 DEF n
  <2> QED
      BY <2>1, <2>2, <2>3, <2>4, <2>5 DEF n
<1> HIDE DEF n
<1>5. ASSUME NEW i \in 1 .. q PROVE w[i] = x[i]
  <2>1. CASE i <= p
    <3>1. i \in 1 .. p
        BY <1>1, <2>1
    <3> QED
        BY <1>2, <1>3, <1>4, <3>1
  <2>2. CASE ~(i <= p)
    <3> DEFINE j == i - p
    <3>1. j \in 1 .. n /\ i = p + j /\ from + j = off + i
        BY <1>1, <2>2
    <3> HIDE DEF j
    <3>2. bytes[j] = s[from + j]
        BY <3>1 DEF n, FoundAt
    <3> QED
        BY <1>3, <1>4, <3>1, <3>2
  <2> QED
      BY <2>1, <2>2
<1>6. w = x
    BY <1>3, <1>4, <1>5, SeqEqual
<1> QED
    BY <1>0, <1>6 DEF v, w, n, Joined

LEMMA Seeing ==
  ASSUME PipeInv, AtWork, stage \in Opened, NEW b \in 0 .. block_count - 1
  PROVE  /\ BlockLength(b) \in Nat /\ Offset(b) \in Nat /\ in[b].pos \in 0 .. BlockLength(b)
         /\ Offset(b) + BlockLength(b) <= Len(file)
         /\ Seen(b) \in Seq(Int) /\ Len(Seen(b)) = in[b].pos
         /\ \A i \in 1 .. in[b].pos : Seen(b)[i] = file[Offset(b) + i]
         /\ b < blocks_returned => handlers[b + 1] \in Callbacks \cup ByHand
         /\ MadeOf(b) \in Seq(Int)
<1> DEFINE p == in[b].pos
           off == Offset(b)
           n == BlockLength(b)
<1>1. /\ file \in Seq(Int) /\ Len(file) \in Nat /\ n \in Nat /\ off \in Nat /\ p \in 0 .. n
      /\ off + n <= Len(file)
  <2>1. /\ file \in Seq(Int) /\ Len(file) \in Nat
        /\ \A c \in 0 .. block_count - 1 :
              /\ BlockLength(c) \in Nat /\ Offset(c) \in Nat /\ in[c].pos \in 0 .. BlockLength(c)
              /\ Offset(c + 1) = Offset(c) + BlockLength(c) /\ Offset(c + 1) <= Len(file)
      BY Opening DEF PipeInv
  <2> QED
      BY <2>1
<1>2. Seen(b) = Piece(file, off, p)
    BY DEF Seen
<1> HIDE DEF p, off, n
<1>3. /\ Seen(b) \in Seq(Int) /\ Len(Seen(b)) = p
      /\ \A i \in 1 .. p : Seen(b)[i] = file[off + i]
  <2>1. p \in Nat /\ off \in Nat /\ off + p <= Len(file) /\ file \in Seq(Int)
      BY <1>1
  <2> DEFINE w == Piece(file, off, p)
  <2>2. w \in Seq(Int) /\ Len(w) = p /\ \A i \in 1 .. p : w[i] = file[off + i]
      BY <2>1, Window
  <2> QED
      BY <1>2, <2>2
<1>4. ASSUME b < blocks_returned PROVE handlers[b + 1] \in Callbacks \cup ByHand
  <2>1. handlers \in Seq(ByHand \cup Callbacks) /\ Len(handlers) = blocks_returned
      BY DEF PipeInv, Handling, AtWork
  <2>2. b + 1 \in 1 .. Len(handlers)
      BY <1>4, <2>1 DEF PipeInv, Position
  <2> QED
      BY <2>1, <2>2
<1>5. MadeOf(b) \in Seq(Int)
  <2>1. CASE b < blocks_returned
      BY <1>3, <1>4, <2>1, ApplyFits DEF MadeOf
  <2>2. CASE ~(b < blocks_returned)
      BY <2>2 DEF MadeOf
  <2> QED
      BY <2>1, <2>2
<1> QED
    BY <1>1, <1>3, <1>4, <1>5 DEF p, off, n

\* Steps that touch no block; the one in use is at its end if it is given back.
LEMMA MemoriesQuiet ==
  ASSUME Memories, stage \in Opened,
         UNCHANGED <<stream, in, out, blocks_returned, handlers>>,
         stage \in {"tofile", "done"} => stage' \in {"tofile", "done"},
         \A b \in 0 .. block_count - 1 :
            \/ b >= blocks_returned
            \/ in[b].pos = BlockLength(b)
            \/ stage' \in {"get_c", "callback"} /\ b = current'
  PROVE  Memories'
<1>1. /\ file' = file /\ block_count' = block_count
      /\ \A b : Offset(b)' = Offset(b) /\ BlockLength(b)' = BlockLength(b)
    BY Same
<1>2. \A b : MadeOf(b)' = MadeOf(b)
    BY <1>1 DEF MadeOf, Seen
<1>3. \A b \in 0 .. block_count - 1 : HoldsMade(b)
    BY DEF Memories
<1> QED
    BY <1>1, <1>2, <1>3 DEF Memories, HoldsMade

\* Between blocks, all that were returned have been read to their end.
LEMMA AllRead ==
  ASSUME Memories, stage \in Opened, stage \notin {"get_c", "callback"}
  PROVE  \A b \in 0 .. block_count - 1 : b >= blocks_returned \/ in[b].pos = BlockLength(b)
BY DEF Memories, HoldsMade

\* A handler makes nothing of no bytes.
LEMMA ApplyNone == ASSUME NEW h \in Callbacks \cup ByHand PROVE Apply(h, <<>>) = <<>>
<1> DEFINE e == <<>>
<1>1. e \in Seq(Int) /\ e \o e = e
    BY ConcatEmptySeq, EmptySeq
<1> HIDE DEF e
<1>2. Apply(h, e \o e) = Apply(h, e) \o Apply(h, e) /\ Apply(h, e) \in Seq(Int)
    BY <1>1, ApplyToBoth, ApplyFits
<1>3. Apply(h, e) \o Apply(h, e) = Apply(h, e)
    BY <1>1, <1>2
<1>4. Apply(h, e) = <<>>
    BY <1>2, <1>3, ConcatEqualIffEmpty
<1> QED
    BY <1>4 DEF e

\* A block is handed out.
LEMMA MemoriesNew ==
  ASSUME PipeInv, PipeInv', AtWork, Memories, stage \in Opened, blocks_returned < block_count,
         stage \notin {"get_c", "callback", "tofile", "done"}, stage' \in {"get_c", "callback"},
         UNCHANGED <<stream, in, out>>, NEW handler \in Callbacks \cup ByHand,
         blocks_returned' = blocks_returned + 1, handlers' = Append(handlers, handler)
  PROVE  /\ Len(handlers') = blocks_returned' /\ handlers'[blocks_returned'] = handler
         /\ Memories'
<1>1. /\ file' = file /\ block_count' = block_count
      /\ \A b : Offset(b)' = Offset(b) /\ BlockLength(b)' = BlockLength(b)
    BY Same
<1>2. /\ blocks_returned \in Nat /\ Len(handlers) = blocks_returned
      /\ handlers \in Seq(ByHand \cup Callbacks) /\ current' = blocks_returned
  <2>1. /\ blocks_returned \in Nat /\ Len(handlers) = blocks_returned
        /\ handlers \in Seq(ByHand \cup Callbacks)
      BY DEF PipeInv, Position, AtWork, Handling
  <2> DEFINE c == current'
             r == blocks_returned'
  <2>2. c \in Nat /\ r = c + 1 /\ r = blocks_returned + 1
      BY DEF PipeInv, Position
  <2> HIDE DEF c, r
  <2>3. c = blocks_returned
      BY <2>1, <2>2
  <2> QED
      BY <2>1, <2>3 DEF c
<1>3. /\ Len(handlers') = blocks_returned + 1
      /\ handlers'[blocks_returned + 1] = handler
      /\ \A b \in 0 .. blocks_returned - 1 : handlers'[b + 1] = handlers[b + 1]
    BY <1>2
<1>4. \A b : Seen(b)' = Seen(b)
    BY <1>1 DEF Seen
<1>5. ASSUME NEW b \in 0 .. block_count - 1
      PROVE  /\ MadeOf(b)' = MadeOf(b)
             /\ \/ b >= blocks_returned'
                \/ in[b].pos = BlockLength(b)
                \/ b = current'
  <2>1. b < blocks_returned \/ b = blocks_returned \/ b >= blocks_returned + 1
      BY <1>2
  <2>2. CASE b < blocks_returned
    <3>1. b \in 0 .. blocks_returned - 1 /\ b < blocks_returned' /\ in[b].pos = BlockLength(b)
        BY <1>2, <2>2, AllRead
    <3> QED
        BY <1>3, <1>4, <2>2, <3>1 DEF MadeOf
  <2>3. CASE b = blocks_returned
    <3>1. in[b].pos = 0 /\ MadeOf(b) = <<>>
      <4>1. \A c \in 0 .. block_count - 1 : c >= blocks_returned => in[c].pos = 0
          BY Opening DEF PipeInv
      <4> QED
          BY <1>2, <2>3, <4>1 DEF MadeOf
    <3>2. Seen(b) = <<>>
        BY <3>1, Seeing, EmptySeq
    <3>3. MadeOf(b)' = Apply(handler, <<>>)
        BY <1>2, <1>3, <1>4, <2>3, <3>2 DEF MadeOf
    <3> QED
        BY <1>2, <2>3, <3>1, <3>3, ApplyNone
  <2>4. CASE b >= blocks_returned + 1
      BY <1>2, <2>4 DEF MadeOf
  <2> QED
      BY <2>1, <2>2, <2>3, <2>4
<1>6. \A b \in 0 .. block_count - 1 : HoldsMade(b)
    BY DEF Memories
<1>7. \A b \in 0 .. block_count - 1 : HoldsMade(b)'
    BY <1>1, <1>5, <1>6 DEF HoldsMade
<1> QED
    BY <1>1, <1>3, <1>7 DEF Memories

\* Some bytes of the block in use are read, and what its handler makes of them is
\* written.
LEMMA MemoriesRead ==
  ASSUME PipeInv, AtWork, Memories, stage \in {"get_c", "callback"}, stage' = stage,
         UNCHANGED <<stream, blocks_returned, current, handlers>>,
         NEW bytes \in Seq(Int),
         in[current].pos + Len(bytes) <= BlockLength(current),
         \A i \in 1 .. Len(bytes) : bytes[i] = file[Offset(current) + in[current].pos + i],
         in'[current].pos = in[current].pos + Len(bytes),
         \A b \in 0 .. block_count - 1 : b # current => in'[b] = in[b],
         NEW more, more = Apply(handlers[current + 1], bytes),
         \/ more = <<>> /\ out' = out
         \/ out' = [out EXCEPT ![current] = AfterWrite(out[current], more)]
  PROVE  Memories'
<1> DEFINE c == current
           h == handlers[current + 1]
<1>1. /\ file' = file /\ block_count' = block_count
      /\ \A b : Offset(b)' = Offset(b) /\ BlockLength(b)' = BlockLength(b)
    BY Same
<1>2. /\ stage \in Opened /\ c \in 0 .. block_count - 1 /\ c < blocks_returned
      /\ c' = c /\ out[c] \in OutBlock
    BY InUse DEF Opened
<1>3. /\ BlockLength(c) \in Nat /\ Seen(c) \in Seq(Int) /\ Len(Seen(c)) = in[c].pos
      /\ \A i \in 1 .. in[c].pos : Seen(c)[i] = file[Offset(c) + i]
      /\ h \in Callbacks \cup ByHand /\ MadeOf(c) \in Seq(Int)
      /\ Offset(c) \in Nat /\ in[c].pos \in Nat
    BY <1>2, Seeing
<1>4. /\ in'[c].pos = in[c].pos + Len(bytes) /\ Offset(c) + in[c].pos + Len(bytes) <= Len(file)
      /\ Len(bytes) \in Nat /\ file \in Seq(Int)
  <2>1. /\ file \in Seq(Int) /\ Len(file) \in Nat /\ BlockLength(c) \in Nat
        /\ Offset(c) + BlockLength(c) <= Len(file)
      BY InUse
  <2>2. Len(bytes) \in Nat
      BY LenProperties
  <2>3. in'[c].pos = in[c].pos + Len(bytes) /\ in[c].pos + Len(bytes) <= BlockLength(c)
      OBVIOUS
  <2> HIDE DEF c
  <2> QED
      BY <1>3, <2>1, <2>2, <2>3
<1>5. Seen(c)' = Seen(c) \o bytes
  <2> DEFINE off == Offset(c)
             p == in[c].pos
             q == in'[c].pos
  <2>1. Seen(c)' = Piece(file, off, q) /\ Seen(c) = Piece(file, off, p)
      BY <1>1 DEF Seen
  <2>2. /\ file \in Seq(Int) /\ off \in Nat /\ p \in Nat /\ q = p + Len(bytes)
        /\ off + q <= Len(file)
      BY <1>3, <1>4
  <2> DEFINE from == off + p
  <2>3. from = off + p /\ FoundAt(bytes, file, from)
      BY DEF FoundAt
  <2> HIDE DEF off, p, q, from
  <2>4. Piece(file, off, q) = Joined(Piece(file, off, p), bytes)
      BY <2>2, <2>3, WindowGrows
  <2> QED
      BY <2>1, <2>4 DEF Joined
<1> HIDE DEF c, h
<1>6. /\ MadeOf(c) = Apply(h, Seen(c)) /\ MadeOf(c)' = Apply(h, Seen(c) \o bytes)
      /\ more = Apply(h, bytes)
    BY <1>2, <1>5 DEF MadeOf, c, h
<1>7. /\ more \in Seq(Int) /\ MadeOf(c)' = MadeOf(c) \o more
  <2> DEFINE s == Seen(c)
  <2>1. s \in Seq(Int) /\ h \in Callbacks \cup ByHand
      BY <1>3
  <2> HIDE DEF s
  <2>2. Apply(h, s \o bytes) = Apply(h, s) \o Apply(h, bytes)
      BY <2>1, ApplyToBoth
  <2>3. more \in Seq(Int)
      BY <1>6, <2>1, ApplyFits
  <2> QED
      BY <1>6, <2>2, <2>3 DEF s
<1>8. \A b \in 0 .. block_count - 1 : HoldsMade(b)
    BY <1>2 DEF Memories
<1>9. HoldsMade(c)'
  <2> DEFINE n == BlockLength(c)
  <2>1. /\ out[c].data = Padded(MadeOf(c), n) /\ out[c].length = Len(out[c].data)
        /\ out[c].pos = Len(MadeOf(c))
      BY <1>2, <1>8 DEF HoldsMade
  <2>2. /\ out'[c].data = Padded(MadeOf(c) \o more, n) /\ out'[c].length = Len(out'[c].data)
        /\ out'[c].pos = Len(MadeOf(c) \o more)
    <3>1. CASE more = <<>> /\ out' = out
      <4>1. MadeOf(c) \o more = MadeOf(c)
          BY <1>3, <3>1, ConcatEmptySeq
      <4> QED
          BY <2>1, <3>1, <4>1
    <3>2. CASE out' = [out EXCEPT ![c] = AfterWrite(out[c], more)]
      <4>1. out'[c] = AfterWrite(out[c], more)
        <5>1. DOMAIN out = 0 .. block_count - 1
            BY <1>2, Opening DEF PipeInv
        <5> QED
            BY <1>2, <3>2, <5>1
      <4> DEFINE made == MadeOf(c)
                 o == out[c]
                 w == AfterWrite(o, more)
      <4>2. /\ made \in Seq(Int) /\ more \in Seq(Int) /\ n \in Nat /\ o \in OutBlock
            /\ o.data = Padded(made, n) /\ o.length = Len(o.data) /\ o.pos = Len(made)
          BY <1>2, <1>3, <1>7, <2>1
      <4> HIDE DEF made, o, n
      <4>3. /\ w.data = Padded(made \o more, n) /\ w.length = Len(w.data)
            /\ w.pos = Len(made \o more)
          BY <4>2, WriteMore, ZenonT(40)
      <4> QED
          BY <4>1, <4>3 DEF made, o
    <3> QED
        BY <3>1, <3>2 DEF c
  <2> QED
      BY <1>1, <1>2, <1>7, <2>2 DEF HoldsMade, c
<1>10. ASSUME NEW b \in 0 .. block_count - 1, b # c PROVE HoldsMade(b)'
  <2>1. in'[b] = in[b] /\ out'[b] = out[b]
    <3>1. DOMAIN out = 0 .. block_count - 1
        BY <1>2, Opening DEF PipeInv
    <3> QED
        BY <1>10, <3>1 DEF c
  <2>2. MadeOf(b)' = MadeOf(b)
      BY <1>1, <2>1 DEF MadeOf, Seen
  <2> QED
      BY <1>1, <1>2, <1>8, <1>10, <2>1, <2>2 DEF HoldsMade, c
<1>11. ASSUME NEW b \in 0 .. block_count - 1 PROVE HoldsMade(b)'
  <2>1. CASE b = c
    <3>1. c' = b /\ c = b
        BY <1>2, <2>1
    <3> QED
        BY <1>1, <1>9, <3>1 DEF HoldsMade, MadeOf, Seen, c
  <2>2. CASE b # c
      BY <1>10, <2>2
  <2> QED
      BY <2>1, <2>2
<1> QED
    BY <1>1, <1>11 DEF Memories

\* The handlers, and the memory of the blocks, are right after every step.
Kept == AtWork /\ Memories

LEMMA OpenStreamKept == ASSUME PipeInv, AtWork, OpenStream PROVE Kept'
<1>1. /\ stage = "open" /\ file # <<>> /\ block_size # 0 /\ stage' = "user"
      /\ in' = [b \in 0 .. block_count - 1 |->
                   ReadableBlock(b, file, b * block_size, BlockLength(b))]
      /\ out' = [b \in 0 .. block_count - 1 |-> WritableBlock(b, BlockLength(b))]
      /\ UNCHANGED <<stream, pipe, taken, got, outfile>>
    BY DEF OpenStream
<1>2. blocks_returned = 0 /\ file \in Seq(Int) /\ block_size \in Nat
    BY <1>1 DEF PipeInv, Position, Blocks
<1>3. /\ block_count \in Nat
      /\ \A b \in 0 .. block_count - 1 : BlockLength(b) \in Nat
  <2>1. Len(file) \in Nat /\ Len(file) > 0 /\ block_size > 0
      BY <1>1, <1>2, EmptySeq
  <2> QED
      BY <1>2, <2>1, Cuts
<1>4. /\ block_count' = block_count /\ blocks_returned' = 0
      /\ \A b : BlockLength(b)' = BlockLength(b)
    BY <1>1, <1>2, Same DEF taken
<1>5. AtWork'
    BY <1>1 DEF AtWork, taken
<1>6. ASSUME NEW b \in 0 .. block_count - 1 PROVE HoldsMade(b)'
  <2> DEFINE n == BlockLength(b)
             none == <<>>
  <2>1. MadeOf(b)' = none /\ b >= blocks_returned'
      BY <1>3, <1>4 DEF MadeOf
  <2>2. /\ out'[b].data = Memory(n) /\ out'[b].length = n /\ out'[b].pos = 0
      BY <1>1 DEF WritableBlock
  <2>3. n \in Nat /\ none \in Seq(Int) /\ Len(none) = 0
      BY <1>3
  <2> HIDE DEF n, none
  <2>4. /\ Len(Padded(none, n)) = IF Len(none) < n THEN n ELSE Len(none)
        /\ Padded(none, n) \in Seq(Value)
      BY <2>3, PaddedIs
  <2>5. Padded(none, n) = Memory(n)
    <3> DEFINE r == IF Len(none) < n THEN n - Len(none) ELSE 0
    <3>1. r = n
        BY <2>3
    <3>2. Memory(n) \in Seq(Value)
      <4>1. Memory(n) \in [1 .. n -> Value]
          BY DEF Memory, Value
      <4> QED
          BY <2>3, <4>1, FunctionIsSeq
    <3>3. none \o Memory(n) = Memory(n)
        BY <3>2, ConcatEmptySeq DEF none
    <3> QED
        BY <3>1, <3>3 DEF Padded
  <2>6. Len(Padded(none, n)) = n
      BY <2>3, <2>4
  <2> QED
      BY <1>1, <1>4, <2>1, <2>2, <2>3, <2>5, <2>6 DEF HoldsMade, n
<1>7. Memories'
    BY <1>4, <1>6 DEF Memories
<1> QED
    BY <1>5, <1>7 DEF Kept

LEMMA TakeBlockKept ==
  ASSUME PipeInv, PipeInv', Kept, NEW h \in ByHand, TakeBlock(h)
  PROVE  Kept'
<1>1. /\ stage = "user" /\ stage' = "get_c" /\ blocks_returned < block_count
      /\ UNCHANGED <<stream, in, out>> /\ h \in Callbacks \cup ByHand
      /\ blocks_returned' = blocks_returned + 1 /\ handlers' = Append(handlers, h)
    BY DEF TakeBlock, NewBlock
<1>2. stage \in Opened
    BY <1>1 DEF Opened
<1>3. Len(handlers') = blocks_returned' /\ Memories'
    BY <1>1, <1>2, MemoriesNew DEF Kept
<1> QED
    BY <1>1, <1>3 DEF Kept, AtWork

LEMMA NextBlockKept ==
  ASSUME PipeInv, PipeInv', Kept, NextBlock
  PROVE  Kept'
<1> DEFINE h == oper_array[oper]
<1>1. /\ stage = "blocks" /\ bid < bcount /\ stage' = "callback" /\ blocks_returned < block_count
      /\ UNCHANGED <<stream, in, out>> /\ oper_array' = oper_array /\ oper' = oper
      /\ blocks_returned' = blocks_returned + 1 /\ handlers' = Append(handlers, h)
    BY DEF NextBlock, NewBlock, pipe
<1>2. stage \in Opened
    BY <1>1 DEF Opened
<1>3. h \in Callbacks \cup ByHand /\ h = oper_array[1]
  <2>1. oper' = 1
      BY <1>1 DEF PipeInv, Operations
  <2>2. oper_array \in Seq(Callbacks) /\ oper \in 1 .. Len(oper_array)
      BY <1>1 DEF PipeInv, Operations
  <2> QED
      BY <1>1, <2>1, <2>2
<1> HIDE DEF h
<1>4. /\ Len(handlers') = blocks_returned' /\ handlers'[blocks_returned'] = h
      /\ Memories'
    BY <1>1, <1>2, <1>3, MemoriesNew DEF Kept
<1> QED
    BY <1>1, <1>3, <1>4 DEF Kept, AtWork

LEMMA ReadByteKept == ASSUME PipeInv, Kept, ReadByte PROVE Kept'
<1> DEFINE c == GetC(in[current])
           p == in[current].pos
           h == handlers[current + 1]
           bytes == <<c>>
           more == Apply(h, bytes)
<1>1. /\ stage = "get_c" /\ p < in[current].length
      /\ out' = IF Last(handlers) = "dach_copy"
                THEN [out EXCEPT ![current] = AfterWrite(out[current], bytes)] ELSE out
      /\ in' = [in EXCEPT ![current] = AfterGetC(in[current])]
      /\ stage' = stage /\ UNCHANGED <<stream, pipe, taken>>
    BY DEF ReadByte
<1>2. /\ c = file[Offset(current) + p + 1] /\ c \in Int
      /\ AfterGetC(in[current]) = InBlock(current, p + 1) /\ p < BlockLength(current)
    BY <1>1, ByteOf
<1>3. /\ current \in 0 .. block_count - 1 /\ blocks_returned = current + 1
      /\ p \in Nat /\ BlockLength(current) \in Nat /\ DOMAIN in = 0 .. block_count - 1
  <2>1. stage \in Opened
      BY <1>1 DEF Opened
  <2> QED
      BY <1>1, <2>1, InUse, Opening DEF PipeInv
<1>4. h \in {"get_c", "dach_copy"} /\ h = Last(handlers)
  <2>1. /\ Len(handlers) = blocks_returned /\ handlers \in Seq(ByHand \cup Callbacks)
        /\ oper_array = <<>> /\ FirstOperationOnly
      BY <1>1 DEF Kept, AtWork, PipeInv, Handling, Operations
  <2>2. current + 1 \in DOMAIN handlers /\ Last(handlers) = h
      BY <1>3, <2>1 DEF Last
  <2>3. h \in ByHand
      BY <2>1, <2>2 DEF FirstOperationOnly
  <2> QED
      BY <2>2, <2>3, PipeAssumption
<1> HIDE DEF h
<1>5. more = IF h = "dach_copy" THEN bytes ELSE <<>>
    BY <1>4 DEF Apply
<1>6. bytes \in Seq(Int) /\ Len(bytes) = 1 /\ bytes[1] = c
    BY <1>2
<1>7. in'[current].pos = p + 1 /\ \A b \in 0 .. block_count - 1 : b # current => in'[b] = in[b]
    BY <1>1, <1>2, <1>3 DEF InBlock
<1>8. \/ more = <<>> /\ out' = out
      \/ out' = [out EXCEPT ![current] = AfterWrite(out[current], more)]
    BY <1>1, <1>4, <1>5
<1>9. UNCHANGED <<stream, blocks_returned, current, handlers>>
    BY <1>1 DEF taken
<1> HIDE DEF c, bytes, more
<1>10. /\ in'[current].pos = p + Len(bytes) /\ p + Len(bytes) <= BlockLength(current)
       /\ \A i \in 1 .. Len(bytes) : bytes[i] = file[Offset(current) + p + i]
    BY <1>2, <1>3, <1>6, <1>7
<1>11. Memories'
    BY <1>1, <1>6, <1>7, <1>8, <1>9, <1>10, MemoriesRead DEF Kept, more, h
<1>12. AtWork'
    BY <1>1, <1>9 DEF Kept, AtWork
<1> QED
    BY <1>11, <1>12 DEF Kept

LEMMA CallbackReadsKept == ASSUME PipeInv, Kept, CallbackReads PROVE Kept'
<1> DEFINE p == in[current].pos
           h == oper_array[oper]
           bytes == BytesRead(in[current], ReadSize)
           more == Apply(h, bytes)
<1>1. /\ stage = "callback"
      /\ out' = IF more = <<>> THEN out
                ELSE [out EXCEPT ![current] = AfterWrite(out[current], more)]
      /\ in' = [in EXCEPT ![current] = AfterRead(in[current], ReadSize)]
      /\ stage' = stage /\ UNCHANGED <<stream, pipe, taken>>
    BY DEF CallbackReads
<1>2. /\ bytes \in Seq(Int) /\ Len(bytes) \in 0 .. BlockLength(current) - p
      /\ AfterRead(in[current], ReadSize) = InBlock(current, p + Len(bytes))
      /\ \A i \in 1 .. Len(bytes) : bytes[i] = file[Offset(current) + p + i]
    BY <1>1, BytesOf
<1>3. /\ current \in 0 .. block_count - 1 /\ blocks_returned = current + 1
      /\ p \in Nat /\ BlockLength(current) \in Nat /\ DOMAIN in = 0 .. block_count - 1
  <2>1. stage \in Opened
      BY <1>1 DEF Opened
  <2> QED
      BY <1>1, <2>1, InUse, Opening DEF PipeInv
<1>4. h = handlers[current + 1]
    BY <1>1, <1>3 DEF Kept, AtWork, PipeInv, Operations
<1>5. UNCHANGED <<stream, blocks_returned, current, handlers>>
    BY <1>1 DEF taken
<1>6. \/ more = <<>> /\ out' = out
      \/ out' = [out EXCEPT ![current] = AfterWrite(out[current], more)]
    BY <1>1
<1> HIDE DEF bytes, more, h
<1>7. in'[current].pos = p + Len(bytes) /\ \A b \in 0 .. block_count - 1 : b # current => in'[b] = in[b]
    BY <1>1, <1>2, <1>3 DEF InBlock
<1>8. p + Len(bytes) <= BlockLength(current)
    BY <1>2, <1>3
<1>9. more = Apply(handlers[current + 1], bytes)
    BY <1>4 DEF more
<1>10. Memories'
    BY <1>1, <1>2, <1>5, <1>6, <1>7, <1>8, <1>9, MemoriesRead DEF Kept
<1>11. AtWork'
    BY <1>1, <1>5 DEF Kept, AtWork, pipe
<1> QED
    BY <1>10, <1>11 DEF Kept

\* A block that is given back has been read to its end.
LEMMA BlockReadKept == ASSUME PipeInv, Kept, BlockRead \/ CallbackReturns PROVE Kept'
<1>1. /\ stage \in {"get_c", "callback"} /\ stage' \in {"user", "blocks"}
      /\ UNCHANGED <<stream, in, out, blocks_returned, handlers>>
    BY DEF BlockRead, CallbackReturns, taken
<1>2. stage \in Opened
    BY <1>1 DEF Opened
<1>3. in[current].pos = BlockLength(current)
  <2>1. /\ in[current].length = BlockLength(current) /\ BlockLength(current) \in Nat
        /\ in[current].pos \in 0 .. BlockLength(current)
        /\ in[current] = InBlock(current, in[current].pos)
        /\ Offset(current) \in Nat /\ Offset(current) + BlockLength(current) <= Len(file)
        /\ file \in Seq(Int)
      BY <1>1, InUse
  <2>2. CASE BlockRead
      BY <2>1, <2>2 DEF BlockRead
  <2>3. CASE CallbackReturns
    <3>1. Readable(in[current], ReadSize) = 0
        BY <2>3 DEF CallbackReturns
    <3>2. in[current].pos < BlockLength(current) <=> Readable(in[current], ReadSize) > 0
      <4> DEFINE p == in[current].pos
      <4>1. p \in 0 .. BlockLength(current) /\ in[current] = InBlock(current, p)
          BY <2>1
      <4> HIDE DEF p
      <4>2. p < BlockLength(current) <=> Readable(InBlock(current, p), ReadSize) > 0
          BY <2>1, <4>1, ReadsOf
      <4> QED
          BY <4>1, <4>2 DEF p
    <3> QED
        BY <2>1, <3>1, <3>2
  <2> QED
      BY <2>2, <2>3
<1>4. \A b \in 0 .. block_count - 1 : b >= blocks_returned \/ in[b].pos = BlockLength(b)
    BY <1>2, <1>3 DEF Kept, Memories, HoldsMade
<1>5. Memories'
    BY <1>1, <1>2, <1>4, MemoriesQuiet DEF Kept
<1>6. AtWork'
    BY <1>1 DEF Kept, AtWork
<1> QED
    BY <1>5, <1>6 DEF Kept

\* Steps between blocks change none.
LEMMA BetweenKept ==
  ASSUME PipeInv, Kept, stage \in Opened, stage \notin {"get_c", "callback", "tofile", "done"},
         stage' # "callback", UNCHANGED <<stream, in, out, blocks_returned, handlers>>
  PROVE  Kept'
<1>1. Memories'
    BY AllRead, MemoriesQuiet DEF Kept
<1>2. AtWork'
    BY DEF Kept, AtWork
<1> QED
    BY <1>1, <1>2 DEF Kept

\* When the stream is closed there are no blocks to keep.
LEMMA ClosedKept ==
  ASSUME Kept, stage' \in {"freed", "aborted"}, UNCHANGED <<blocks_returned, handlers>>
  PROVE  Kept'
BY DEF Kept, AtWork, Memories, Opened

\* dach_pipe_tofile moves positions only.
LEMMA ToFileKept == ASSUME PipeInv, Kept, ToFile PROVE Kept'
<1>1. /\ stage = "tofile" /\ stage' = stage /\ UNCHANGED <<stream, in, blocks_returned, handlers>>
      /\ out' = [out EXCEPT ![current] = AfterSeek(out[current])]
    BY DEF ToFile
<1>2. /\ block_count' = block_count /\ file' = file
      /\ \A b : Offset(b)' = Offset(b) /\ BlockLength(b)' = BlockLength(b)
    BY <1>1, Same
<1>3. \A b \in 0 .. block_count - 1 : HoldsMade(b)
    BY <1>1 DEF Kept, Memories, Opened
<1>4. /\ DOMAIN out = 0 .. block_count - 1
      /\ \A b \in 0 .. block_count - 1 : out[b] \in OutBlock
  <2>1. stage \in Opened
      BY <1>1 DEF Opened
  <2> QED
      BY <2>1, Opening DEF PipeInv
<1>5. ASSUME NEW b \in 0 .. block_count - 1
      PROVE  out'[b].data = out[b].data /\ out'[b].length = out[b].length
  <2>1. CASE b = current
    <3>1. out'[b] = AfterSeek(out[b]) /\ out[b] \in OutBlock
        BY <1>1, <1>4, <2>1
    <3> QED
        BY <3>1 DEF AfterSeek, OutBlock
  <2>2. CASE b # current
      BY <1>1, <1>4, <2>2
  <2> QED
      BY <2>1, <2>2
<1>6. \A b : MadeOf(b)' = MadeOf(b)
    BY <1>1, <1>2 DEF MadeOf, Seen
<1>7. \A b \in 0 .. block_count - 1 : HoldsMade(b)'
    BY <1>1, <1>2, <1>3, <1>5, <1>6 DEF HoldsMade
<1>8. Memories'
    BY <1>2, <1>7 DEF Memories
<1>9. AtWork'
    BY <1>1 DEF Kept, AtWork
<1> QED
    BY <1>8, <1>9 DEF Kept

LEMMA KeptStep == ASSUME PipeInv, PipeInv', Kept, [Next]_vars PROVE Kept'
<1>1. ASSUME NEW h \in ByHand, TakeBlock(h) PROVE Kept'
    BY <1>1, TakeBlockKept
<1>2. ASSUME \/ \E c \in Callbacks : NewPipe(c) \/ AddOperation(c)
             \/ Start \/ NextOperation \/ OperationDone \/ StartToFile
             \/ FreeBlock /\ stage' = "user"
      PROVE  Kept'
  <2>1. /\ stage \in {"user", "add", "start", "blocks"} /\ stage' # "callback"
        /\ UNCHANGED <<stream, in, out, blocks_returned, handlers>>
      BY <1>2 DEF NewPipe, AddOperation, Start, NextOperation, OperationDone, StartToFile,
                  FreeBlock, taken
  <2>2. stage \in Opened /\ stage \notin {"get_c", "callback", "tofile", "done"}
      BY <2>1 DEF Opened
  <2> QED
      BY <2>1, <2>2, BetweenKept
<1>3. ASSUME \/ OpenFails \/ AddFails \/ FreeStream \/ ToFileFails
             \/ FreeBlock /\ stage' # "user"
      PROVE  Kept'
  <2>1. stage' \in {"freed", "aborted"} /\ UNCHANGED <<blocks_returned, handlers>>
      BY <1>3 DEF OpenFails, AddFails, FreeStream, ToFileFails, FreeBlock, taken
  <2> QED
      BY <2>1, ClosedKept
<1>4. ASSUME Finish PROVE Kept'
  <2>1. /\ stage = "tofile" /\ stage' = "done"
        /\ UNCHANGED <<stream, in, out, blocks_returned, handlers>>
      BY <1>4 DEF Finish, taken
  <2>2. stage \in Opened /\ stage \notin {"get_c", "callback"}
      BY <2>1 DEF Opened
  <2>3. \A b \in 0 .. block_count - 1 : b >= blocks_returned \/ in[b].pos = BlockLength(b)
      BY <2>2, AllRead DEF Kept
  <2>4. Memories'
      BY <2>1, <2>2, <2>3, MemoriesQuiet DEF Kept
  <2>5. AtWork'
      BY <2>1 DEF Kept, AtWork
  <2> QED
      BY <2>4, <2>5 DEF Kept
<1>5. ASSUME NoBlockLeft \/ Ended \/ UNCHANGED vars PROVE Kept'
  <2>1. UNCHANGED vars
      BY <1>5 DEF NoBlockLeft, Ended
  <2>2. UNCHANGED <<stream, in, out, blocks_returned, handlers, stage, current, oper_array>>
      BY <2>1 DEF vars, taken, pipe
  <2>3. CASE stage \in Opened
    <3>1. \A b \in 0 .. block_count - 1 :
             \/ b >= blocks_returned
             \/ in[b].pos = BlockLength(b)
             \/ stage' \in {"get_c", "callback"} /\ b = current'
        BY <2>2, <2>3 DEF Kept, Memories, HoldsMade
    <3>2. Memories'
        BY <2>2, <2>3, <3>1, MemoriesQuiet DEF Kept
    <3> QED
        BY <2>2, <3>2 DEF Kept, AtWork
  <2>4. CASE stage \notin Opened
      BY <2>2, <2>4 DEF Kept, AtWork, Memories, Opened
  <2> QED
      BY <2>3, <2>4
<1>6. ASSUME User PROVE Kept'
    BY <1>1, <1>2, <1>3, <1>5, <1>6 DEF User
<1>7. ASSUME Run PROVE Kept'
    BY <1>2, <1>3, <1>4, <1>7, OpenStreamKept, ReadByteKept, BlockReadKept, NextBlockKept,
       CallbackReadsKept, ToFileKept DEF Run, Kept
<1> QED
    BY <1>5, <1>6, <1>7 DEF Next

-----------------------------------------------------------------------------
(* What is written to disk *)

\* When all blocks have been read, the memory of each is what is expected of it.
LEMMA Written ==
  ASSUME PipeInv, Kept, stage \in {"tofile", "done"}
  PROVE  /\ block_count \in Nat /\ Whole \in [1 .. block_count -> Seq(Value)]
         /\ \A b \in 0 .. block_count - 1 :
               /\ Whole[b + 1] \in Seq(Value) /\ out[b].data = Whole[b + 1]
               /\ out[b].length = Len(Whole[b + 1]) /\ FileBytes(out[b]) = Whole[b + 1]
<1>1. /\ stage \in Opened /\ blocks_returned = block_count /\ block_count \in Nat
  <2>1. stage \in Opened
      BY DEF Opened
  <2> QED
      BY <2>1, Opening DEF PipeInv, Operations
<1>2. ASSUME NEW b \in 0 .. block_count - 1
      PROVE  /\ Expected(b) \in Seq(Value) /\ out[b].data = Expected(b)
             /\ out[b].length = Len(Expected(b)) /\ FileBytes(out[b]) = Expected(b)
  <2> DEFINE n == BlockLength(b)
             made == MadeOf(b)
  <2>1. /\ out[b].data = Padded(made, n) /\ out[b].length = Len(out[b].data) /\ in[b].pos = n
      BY <1>1, AllRead DEF Kept, Memories, HoldsMade
  <2>2. /\ n \in Nat /\ made \in Seq(Int) /\ Len(Seen(b)) = in[b].pos
      BY <1>1, Seeing DEF Kept
  <2>3. Offset(b) = b * block_size
    <3>1. Len(file) > 0 /\ block_size > 0 /\ block_size \in Nat /\ file \in Seq(Int)
        BY <1>1 DEF PipeInv, Blocks
    <3> QED
        BY <1>1 DEF Offset
  <2>4. Seen(b) = SubSeq(file, b * block_size + 1, b * block_size + n)
      BY <2>1, <2>3 DEF Seen, Piece
  <2>5. made = Apply(handlers[b + 1], Seen(b))
      BY <1>1 DEF MadeOf
  <2>6. Expected(b) = Padded(made, n)
    <3>1. Len(SubSeq(file, b * block_size + 1, b * block_size + n)) = n
        BY <2>1, <2>2, <2>4
    <3> QED
        BY <2>4, <2>5, <3>1 DEF Expected, Padded
  <2> HIDE DEF n, made
  <2>7. Padded(made, n) \in Seq(Value)
      BY <2>2, PaddedIs
  <2> DEFINE x == Expected(b)
  <2>8. x \in Seq(Value) /\ out[b].data = x /\ out[b].length = Len(x)
      BY <2>1, <2>6, <2>7
  <2> HIDE DEF x
  <2>9. FileBytes(out[b]) = x
      BY <2>8 DEF FileBytes
  <2> QED
      BY <2>8, <2>9 DEF x
<1>3. ASSUME NEW i \in 1 .. block_count PROVE Expected(i - 1) \in Seq(Value)
  <2>1. i - 1 \in 0 .. block_count - 1
      BY <1>1
  <2> QED
      BY <1>2, <2>1
<1>4. Whole \in [1 .. block_count -> Seq(Value)]
    BY <1>3 DEF Whole
<1>5. ASSUME NEW b \in 0 .. block_count - 1 PROVE Whole[b + 1] = Expected(b)
  <2>1. b + 1 \in 1 .. block_count /\ b + 1 - 1 = b
      BY <1>1
  <2> QED
      BY <2>1 DEF Whole
<1> QED
    BY <1>1, <1>2, <1>4, <1>5

LEMMA WholeSame ==
  ASSUME UNCHANGED <<stream, handlers>>
  PROVE  Whole' = Whole
<1>1. /\ file' = file /\ block_size' = block_size /\ block_count' = block_count
      /\ \A b : BlockLength(b)' = BlockLength(b)
    BY Same
<1>2. \A b : Expected(b)' = Expected(b)
    BY <1>1 DEF Expected
<1> QED
    BY <1>1, <1>2 DEF Whole

\* Until dach_pipe_tofile is called nothing is written.
LEMMA NothingWritten ==
  ASSUME OnDisk, stage \notin {"tofile", "done", "freed", "aborted"}, outfile' = outfile,
         stage' = "done" => FALSE, stage' = "tofile" => current' = 0
  PROVE  OnDisk'
<1>1. outfile' = <<>>
    BY DEF OnDisk
<1>2. ASSUME stage' = "tofile" PROVE outfile' = Part(Whole', current')
    BY <1>1, <1>2, PartNone
<1> QED
    BY <1>1, <1>2 DEF OnDisk

\* The file stays when the stream is freed or the program aborted.
LEMMA FileStays ==
  ASSUME OnDisk, stage' \in {"freed", "aborted"}, UNCHANGED <<stream, handlers, outfile>>
  PROVE  OnDisk'
<1>1. Whole' = Whole
    BY WholeSame
<1>2. outfile' = <<>> \/ IsPrefix(outfile', FlattenSeq(Whole'))
    BY <1>1 DEF OnDisk
<1> QED
    BY <1>2 DEF OnDisk

LEMMA ToFileOnDisk == ASSUME PipeInv, Kept, OnDisk, ToFile PROVE OnDisk'
<1>1. /\ stage = "tofile" /\ stage' = "tofile" /\ current < block_count
      /\ outfile' = outfile \o FileBytes(out[current]) /\ current' = current + 1
      /\ UNCHANGED <<stream, handlers>>
    BY DEF ToFile
<1>2. current \in Nat
    BY DEF PipeInv, Position
<1> DEFINE whole == Whole
           n == block_count
           c == current
<1>3. /\ n \in Nat /\ whole \in [1 .. n -> Seq(Value)]
      /\ \A b \in 0 .. n - 1 : FileBytes(out[b]) = whole[b + 1]
    BY <1>1, Written
<1>4. c \in 0 .. n - 1 /\ c + 1 \in 0 .. n
    BY <1>1, <1>2, <1>3
<1>5. outfile = Part(whole, c) /\ Whole' = whole
    BY <1>1, WholeSame DEF OnDisk
<1>6. FileBytes(out[c]) = whole[c + 1]
    BY <1>3, <1>4
<1> HIDE DEF whole, n
<1>7. Part(whole, c + 1) = Part(whole, c) \o whole[c + 1]
  <2> DEFINE j == c + 1
  <2>1. j = c + 1
      OBVIOUS
  <2> HIDE DEF j, c
  <2>2. Part(whole, j) = Part(whole, c) \o whole[j]
      BY <1>3, <1>4, <2>1, PartNext
  <2> QED
      BY <2>1, <2>2
<1>8. IsPrefix(Part(whole, c + 1), FlattenSeq(whole))
    BY <1>3, <1>4, PartsArePrefixes
<1>9. outfile' = Part(whole, c + 1)
    BY <1>1, <1>5, <1>6, <1>7
<1> QED
    BY <1>1, <1>5, <1>8, <1>9 DEF OnDisk

LEMMA ToFileFailsOnDisk == ASSUME PipeInv, Kept, OnDisk, ToFileFails PROVE OnDisk'
<1>1. /\ stage = "tofile" /\ stage' = "aborted" /\ current < block_count
      /\ UNCHANGED <<stream, handlers>>
    BY DEF ToFileFails, taken
<1>2. PICK k \in 0 .. out[current].length - 1 :
         outfile' = outfile \o SubSeq(out[current].data, 1, k)
    BY DEF ToFileFails
<1> DEFINE whole == Whole
           n == block_count
           c == current
<1>3. /\ n \in Nat /\ whole \in [1 .. n -> Seq(Value)]
      /\ \A b \in 0 .. n - 1 : /\ out[b].data = whole[b + 1] /\ whole[b + 1] \in Seq(Value)
                               /\ out[b].length = Len(whole[b + 1])
    BY <1>1, Written
<1>4. c \in 0 .. n - 1
    BY <1>1, <1>3 DEF PipeInv, Position
<1>5. outfile = Part(whole, c) /\ Whole' = whole
    BY <1>1, WholeSame DEF OnDisk
<1>6. /\ out[c].data = whole[c + 1] /\ out[c].length = Len(whole[c + 1])
      /\ Len(whole[c + 1]) \in Nat
    BY <1>3, <1>4
<1>7. k \in 0 .. Len(whole[c + 1])
    BY <1>2, <1>6
<1> HIDE DEF whole, n
<1>8. IsPrefix(Part(whole, c) \o SubSeq(whole[c + 1], 1, k), FlattenSeq(whole))
    BY <1>3, <1>4, <1>7, BetweenParts
<1>9. outfile' = Part(whole, c) \o SubSeq(whole[c + 1], 1, k)
    BY <1>2, <1>5, <1>6
<1> QED
    BY <1>1, <1>5, <1>8, <1>9 DEF OnDisk

LEMMA FinishOnDisk == ASSUME PipeInv, Kept, OnDisk, Finish PROVE OnDisk'
<1>1. /\ stage = "tofile" /\ stage' = "done" /\ current = block_count
      /\ UNCHANGED <<stream, handlers, outfile>>
    BY DEF Finish, taken
<1>2. Whole' = Whole /\ block_count' = block_count
    BY <1>1, WholeSame, Same
<1>3. outfile' = Part(Whole, block_count)
    BY <1>1 DEF OnDisk
<1>4. outfile' = <<>> \/ IsPrefix(outfile', FlattenSeq(Whole))
    BY <1>1 DEF OnDisk
<1> QED
    BY <1>1, <1>2, <1>3, <1>4 DEF OnDisk

LEMMA OnDiskStep == ASSUME PipeInv, Kept, OnDisk, [Next]_vars PROVE OnDisk'
<1>1. ASSUME \/ \E h \in ByHand : TakeBlock(h)
             \/ \E c \in Callbacks : NewPipe(c) \/ AddOperation(c)
             \/ FreeBlock \/ Start \/ OpenStream \/ ReadByte \/ BlockRead \/ NextOperation
             \/ NextBlock \/ OperationDone \/ CallbackReads \/ CallbackReturns \/ StartToFile
             \/ OpenFails \/ AddFails
      PROVE  OnDisk'
  <2>1. /\ stage \notin {"tofile", "done", "freed", "aborted"} /\ outfile' = outfile
        /\ stage' # "done" /\ (stage' = "tofile" => current' = 0)
      BY <1>1 DEF TakeBlock, NewPipe, AddOperation, FreeBlock, Start, OpenStream, ReadByte,
                  BlockRead, NextOperation, NextBlock, OperationDone, CallbackReads,
                  CallbackReturns, StartToFile, OpenFails, AddFails
  <2> QED
      BY <2>1, NothingWritten
<1>2. ASSUME FreeStream PROVE OnDisk'
  <2>1. stage' \in {"freed", "aborted"} /\ UNCHANGED <<stream, handlers, outfile>>
      BY <1>2 DEF FreeStream, taken
  <2> QED
      BY <2>1, FileStays
<1>3. ASSUME NoBlockLeft \/ Ended \/ UNCHANGED vars PROVE OnDisk'
  <2>1. UNCHANGED vars
      BY <1>3 DEF NoBlockLeft, Ended
  <2>2. /\ UNCHANGED <<stream, handlers>> /\ stage' = stage /\ current' = current
        /\ outfile' = outfile
      BY <2>1 DEF vars, taken
  <2>3. Whole' = Whole /\ block_count' = block_count
      BY <2>2, WholeSame, Same
  <2> QED
      BY <2>2, <2>3 DEF OnDisk
<1>4. ASSUME User PROVE OnDisk'
    BY <1>1, <1>2, <1>3, <1>4 DEF User
<1>5. ASSUME Run PROVE OnDisk'
    BY <1>1, <1>5, ToFileOnDisk, ToFileFailsOnDisk, FinishOnDisk DEF Run
<1> QED
    BY <1>3, <1>4, <1>5 DEF Next

\* What the handlers made of the blocks is in the memory of the output blocks and
\* then on the disk, for every file, every block size and all callbacks.
THEOREM OutputInvariance == Spec => []OutInv
<1>1. Init => OutInv
  <2> SUFFICES ASSUME Init PROVE OutInv
      OBVIOUS
  <2>1. AtWork
      BY DEF Init, AtWork
  <2>2. Memories
      BY DEF Init, Memories, Opened
  <2>3. OnDisk
      BY DEF Init, OnDisk
  <2> QED
      BY <2>1, <2>2, <2>3 DEF OutInv
<1>2. PipeInv /\ PipeInv' /\ OutInv /\ [Next]_vars => OutInv'
    BY KeptStep, OnDiskStep DEF OutInv, Kept
<1> QED
    BY <1>1, <1>2, PipeInvariance, PTL DEF Spec

\* All blocks that are left go to the first operation, and the output file is what
\* the handlers made of the blocks of the file in their order, or a prefix of it.
THEOREM OutputIsWhatHandlersMade == Spec => []OutputIsFirstOperation
<1>1. PipeInv /\ Kept /\ OutInv => OutputIsFirstOperation
  <2> SUFFICES ASSUME PipeInv, Kept, OutInv PROVE OutputIsFirstOperation
      OBVIOUS
  <2>1. ASSUME oper_array # <<>>
        PROVE  \A b \in DOMAIN handlers : handlers[b] \in ByHand \cup {oper_array[1]}
      BY <2>1 DEF PipeInv, Handling, FirstOperationOnly
  <2>2. outfile # <<>> => IsPrefix(outfile, FlattenSeq(Whole))
      BY DEF OutInv, OnDisk
  <2>3. ASSUME stage = "done" PROVE outfile = FlattenSeq(Whole)
    <3>1. block_count \in Nat /\ Whole \in [1 .. block_count -> Seq(Value)]
        BY <2>3, Written
    <3>2. outfile = Part(Whole, block_count)
        BY <2>3 DEF OutInv, OnDisk
    <3> QED
        BY <3>1, <3>2, FlattenParts
  <2> QED
      BY <2>1, <2>2, <2>3 DEF OutputIsFirstOperation, Whole
<1>2. OutInv => Kept
    BY DEF OutInv, Kept
<1> QED
    BY <1>1, <1>2, OutputInvariance, PipeInvariance, PTL
-----------------------------------------------------------------------------
(* How long the program works by itself *)

\* Operations that have not run and blocks that nobody was given.
Undone == (Len(oper_array) + 1 - oper) + (block_count - blocks_returned)

\* Steps ahead until the user is asked again, by stages, and those of the loop over a
\* block's bytes or over the output blocks.
RunLeft == CASE stage \in {"open", "get_c"} -> 1
             [] stage = "start" -> 4 * Undone + 4
             [] stage = "callback" -> 4 * Undone + 3
             [] stage = "blocks" -> 4 * Undone + 2
             [] stage = "tofile" -> 2
             [] OTHER -> 0
LoopLeft == CASE stage \in {"get_c", "callback"} -> Len(file) - Len(got)
              [] stage = "tofile" -> block_count - current
              [] OTHER -> 0
NearerUser == RunLeft' < RunLeft \/ (RunLeft' = RunLeft /\ LoopLeft' < LoopLeft)

LEMMA UndoneIs ==
  ASSUME PipeInv, stage \in Opened
  PROVE  /\ Undone \in Nat /\ block_count \in Int /\ blocks_returned \in Int
         /\ oper \in Int /\ Len(oper_array) \in Int
<1>1. Len(oper_array) \in Nat /\ oper \in 1 .. Len(oper_array) + 1
    BY DEF PipeInv, Operations
<1>2. block_count \in Nat /\ blocks_returned \in Nat /\ blocks_returned <= block_count
    BY Opening DEF PipeInv, Position
<1> DEFINE a == Len(oper_array) + 1 - oper
           b == block_count - blocks_returned
<1>3. a \in Nat /\ b \in Nat
    BY <1>1, <1>2
<1>4. Undone = a + b
    BY DEF Undone
<1> HIDE DEF a, b
<1> QED
    BY <1>1, <1>2, <1>3, <1>4

LEMMA LeftAreNat == ASSUME PipeInv PROVE RunLeft \in Nat /\ LoopLeft \in Nat
<1>1. CASE stage \in Opened
  <2>1. Undone \in Nat
      BY <1>1, UndoneIs
  <2>2. 4 * Undone + 4 \in Nat /\ 4 * Undone + 3 \in Nat /\ 4 * Undone + 2 \in Nat
      BY <2>1
  <2>3. Len(file) - Len(got) \in Nat
    <3>1. Len(file) \in Nat /\ Len(got) \in Nat /\ Len(got) <= Len(file)
        BY DEF PipeInv, Reading, Blocks
    <3> QED
        BY <3>1
  <2>4. stage = "tofile" => block_count - current \in Nat
    <3>1. block_count \in Nat /\ current \in Nat /\ (stage = "tofile" => current <= block_count)
        BY <1>1, Opening DEF PipeInv, Position
    <3> QED
        BY <3>1
  <2>5. RunLeft \in Nat
      BY <2>2 DEF RunLeft
  <2>6. LoopLeft \in Nat
      BY <2>3, <2>4 DEF LoopLeft
  <2> QED
      BY <2>5, <2>6
<1>2. CASE stage \notin Opened
  <2>1. RunLeft \in {0, 1} /\ LoopLeft = 0
      BY <1>2 DEF RunLeft, LoopLeft, Opened
  <2> QED
      BY <2>1
<1> QED
    BY <1>1, <1>2

\* A loop over the bytes of a block reads at least one more.
LEMMA ReadsSome ==
  ASSUME PipeInv, PipeInv', UNCHANGED <<stream, pipe, taken, stage>>,
         stage \in {"get_c", "callback"},
         NEW bytes \in Seq(Int), bytes # <<>>, got' = got \o bytes
  PROVE  NearerUser
<1>1. file' = file /\ stage' = stage /\ Undone' = Undone
    BY DEF stream, pipe, taken, Undone, block_count
<1>2. RunLeft' = RunLeft
    BY <1>1 DEF RunLeft
<1>3. LoopLeft = Len(file) - Len(got) /\ LoopLeft' = Len(file) - Len(got')
    BY <1>1 DEF LoopLeft
<1>4. got \in Seq(Int) /\ Len(file) \in Nat
    BY DEF PipeInv, Reading, Blocks
<1>5. Len(got') = Len(got) + Len(bytes) /\ Len(bytes) \in Nat \ {0} /\ Len(got) \in Nat
    BY <1>4, ConcatProperties, EmptySeq
<1>6. LoopLeft' < LoopLeft
    BY <1>3, <1>4, <1>5
<1> QED
    BY <1>2, <1>6 DEF NearerUser

LEMMA RunsNearer == ASSUME PipeInv, PipeInv', Run, ~UsersTurn PROVE NearerUser
<1> DEFINE n == Len(oper_array)
<1>1. CASE OpenStream \/ OpenFails \/ BlockRead
  <2>1. stage \in {"open", "get_c"} /\ stage' \in {"user", "aborted"}
      BY <1>1 DEF OpenStream, OpenFails, BlockRead
  <2>2. RunLeft = 1 /\ RunLeft' = 0
      BY <2>1 DEF RunLeft
  <2> QED
      BY <2>2 DEF NearerUser
<1>2. CASE ReadByte
  <2> DEFINE c == GetC(in[current])
  <2>1. /\ stage = "get_c" /\ in[current].pos < in[current].length
        /\ UNCHANGED <<stream, pipe, taken, stage>> /\ got' = Append(got, c)
      BY <1>2 DEF ReadByte
  <2>2. c \in Int
      BY <2>1, ByteOf
  <2> HIDE DEF c
  <2>3. got' = got \o <<c>> /\ <<c>> \in Seq(Int) /\ <<c>> # <<>>
    <3>1. got \in Seq(Int)
        BY DEF PipeInv, Reading
    <3> QED
        BY <2>1, <2>2, <3>1
  <2> QED
      BY <2>1, <2>3, ReadsSome
<1>3. CASE CallbackReads
  <2> DEFINE bytes == BytesRead(in[current], ReadSize)
  <2>1. /\ stage = "callback" /\ Readable(in[current], ReadSize) > 0
        /\ UNCHANGED <<stream, pipe, taken, stage>> /\ got' = got \o bytes
      BY <1>3 DEF CallbackReads
  <2>2. bytes \in Seq(Int)
      BY <2>1, BytesOf
  <2>3. Len(bytes) = Readable(in[current], ReadSize)
    <3> DEFINE q == in[current].pos
    <3>1. /\ in[current] = InBlock(current, q) /\ q \in 0 .. BlockLength(current)
          /\ BlockLength(current) \in Nat /\ Offset(current) \in Nat
          /\ Offset(current) + BlockLength(current) <= Len(file) /\ file \in Seq(Int)
        BY <2>1, InUse
    <3> HIDE DEF q
    <3>2. /\ Len(BytesRead(InBlock(current, q), ReadSize))
                = Readable(InBlock(current, q), ReadSize)
        BY <3>1, ReadsOf
    <3> QED
        BY <3>1, <3>2
  <2> HIDE DEF bytes
  <2>4. bytes # <<>>
      BY <2>1, <2>3
  <2> QED
      BY <2>1, <2>2, <2>4, ReadsSome
<1>4. CASE NextOperation
  <2>1. /\ stage = "start" /\ stage' = "blocks"
        /\ UNCHANGED <<stream, oper_array, oper, blocks_returned>>
      BY <1>4 DEF NextOperation, taken
  <2>2. Undone' = Undone /\ Undone \in Nat
      BY <2>1, UndoneIs DEF Undone, block_count, stream, Opened
  <2>3. RunLeft = 4 * Undone + 4 /\ RunLeft' = 4 * Undone + 2
      BY <2>1, <2>2 DEF RunLeft
  <2> QED
      BY <2>2, <2>3 DEF NearerUser
<1>5. CASE NextBlock
  <2>1. /\ stage = "blocks" /\ stage' = "callback" /\ blocks_returned' = blocks_returned + 1
        /\ UNCHANGED <<stream, oper_array, oper>>
      BY <1>5 DEF NextBlock, NewBlock, pipe
  <2>2. block_count' = block_count
      BY <2>1 DEF block_count, stream
  <2>3. Undone' = (n + 1 - oper) + (block_count - (blocks_returned + 1))
      BY <2>1, <2>2 DEF Undone
  <2>4. /\ Undone = (n + 1 - oper) + (block_count - blocks_returned) /\ Undone \in Nat
        /\ block_count \in Int /\ blocks_returned \in Int /\ oper \in Int /\ n \in Int
      BY <2>1, UndoneIs DEF Undone, Opened
  <2>5. Undone' = Undone - 1
      BY <2>3, <2>4
  <2>6. RunLeft = 4 * Undone + 2 /\ RunLeft' = 4 * Undone' + 3
      BY <2>1 DEF RunLeft
  <2> QED
      BY <2>4, <2>5, <2>6 DEF NearerUser
<1>6. CASE CallbackReturns
  <2>1. /\ stage = "callback" /\ stage' = "blocks"
        /\ UNCHANGED <<stream, oper_array, oper, blocks_returned>>
      BY <1>6 DEF CallbackReturns, taken
  <2>2. Undone' = Undone /\ Undone \in Nat
      BY <2>1, UndoneIs DEF Undone, block_count, stream, Opened
  <2>3. RunLeft = 4 * Undone + 3 /\ RunLeft' = 4 * Undone + 2
      BY <2>1, <2>2 DEF RunLeft
  <2> QED
      BY <2>2, <2>3 DEF NearerUser
<1>7. CASE OperationDone
  <2>1. /\ stage = "blocks" /\ stage' = "start" /\ oper' = oper + 1
        /\ UNCHANGED <<stream, oper_array, blocks_returned>>
      BY <1>7 DEF OperationDone, taken
  <2>2. block_count' = block_count
      BY <2>1 DEF block_count, stream
  <2>3. Undone' = (n + 1 - (oper + 1)) + (block_count - blocks_returned)
      BY <2>1, <2>2 DEF Undone
  <2>4. /\ Undone = (n + 1 - oper) + (block_count - blocks_returned) /\ Undone \in Nat
        /\ block_count \in Int /\ blocks_returned \in Int /\ oper \in Int /\ n \in Int
      BY <2>1, UndoneIs DEF Undone, Opened
  <2>5. Undone' = Undone - 1
      BY <2>3, <2>4
  <2>6. RunLeft = 4 * Undone + 2 /\ RunLeft' = 4 * Undone' + 4
      BY <2>1 DEF RunLeft
  <2> QED
      BY <2>4, <2>5, <2>6 DEF NearerUser
<1>8. CASE StartToFile
  <2>1. stage = "start" /\ stage' = "tofile"
      BY <1>8 DEF StartToFile
  <2>2. Undone \in Nat
      BY <2>1, UndoneIs DEF Opened
  <2>3. RunLeft = 4 * Undone + 4 /\ RunLeft' = 2
      BY <2>1 DEF RunLeft
  <2> QED
      BY <2>2, <2>3 DEF NearerUser
<1>9. CASE ToFile
  <2>1. stage = "tofile" /\ stage' = stage /\ current' = current + 1 /\ UNCHANGED stream
      BY <1>9 DEF ToFile
  <2>2. block_count' = block_count /\ block_count \in Nat /\ current \in Nat
      BY <2>1, Same, Opening DEF PipeInv, Position, Opened
  <2>3. RunLeft = 2 /\ RunLeft' = 2
      BY <2>1 DEF RunLeft
  <2>4. LoopLeft = block_count - current /\ LoopLeft' = block_count - (current + 1)
      BY <2>1, <2>2 DEF LoopLeft
  <2>5. LoopLeft' < LoopLeft
      BY <2>2, <2>4
  <2> QED
      BY <2>3, <2>5 DEF NearerUser
<1>10. CASE ToFileFails \/ Finish
  <2>1. stage = "tofile" /\ stage' \in {"aborted", "done"}
      BY <1>10 DEF ToFileFails, Finish
  <2>2. RunLeft = 2 /\ RunLeft' = 0
      BY <2>1 DEF RunLeft
  <2> QED
      BY <2>2 DEF NearerUser
<1> QED
    BY <1>1, <1>2, <1>3, <1>4, <1>5, <1>6, <1>7, <1>8, <1>9, <1>10 DEF Run

\* While the program does not wait for its user every step brings it nearer to that:
\* a loop over a block reads at least one byte more, each block is handled once and
\* each operation runs once.  So no pipe runs for ever, whatever the sizes are.
THEOREM PipeComesNearerToItsEnd ==
  Spec => [](RunLeft \in Nat /\ LoopLeft \in Nat) /\ [][~UsersTurn => NearerUser]_vars
<1>1. PipeInv => RunLeft \in Nat /\ LoopLeft \in Nat
    BY LeftAreNat
<1>2. ASSUME PipeInv, PipeInv', Next, ~UsersTurn, ~UNCHANGED vars PROVE NearerUser
  <2>1. stage \notin {"user", "add", "done", "freed", "aborted"}
      BY <1>2 DEF UsersTurn
  <2>2. ~User
      BY <1>2, <2>1 DEF User, TakeBlock, NoBlockLeft, FreeBlock, FreeStream, NewPipe,
                        AddOperation, AddFails, Start
  <2>3. ~Ended
      BY <1>2 DEF Ended
  <2> QED
      BY <1>2, <2>2, <2>3, RunsNearer DEF Next
<1>3. PipeInv /\ PipeInv' /\ [Next]_vars => [~UsersTurn => NearerUser]_vars
    BY <1>2
<1> QED
    BY <1>1, <1>3, PipeInvariance, PTL DEF Spec
=============================================================================
