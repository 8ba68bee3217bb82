-------------------------- MODULE FileCodecProofs ---------------------------
(***************************************************************************)
(* What the pair of programs keeps for every file, every width of the      *)
(* registers, every size of the alphabet and every loss of written bytes.  *)
(*                                                                         *)
(* First what either program keeps by itself (CodecInv): the interval is   *)
(* wide between symbols and the decoder's window never leaves it.  Then    *)
(* how the two are related.  The code is seen as an endless stream of      *)
(* bits, a coder as a value with a function After that takes it one step   *)
(* on, and EncoderTraced says that the encoder is where After has led it,  *)
(* through coders whose interval every stream that begins with the bits    *)
(* written and goes on inside the present interval points into.  So the    *)
(* decoder, whose window is what it has read of that stream, finds each    *)
(* symbol that was coded and goes through the same coders                  *)
(* (DecoderFollows); what it puts out is the file (Restored); and neither  *)
(* program gives up.  The pair implements the transfer of a file.          *)
(***************************************************************************)
EXTENDS FileCodec, Ppm0Proofs

-----------------------------------------------------------------------------
(* The inductive invariant, by the parts of the programs *)

Word == [1 .. WordBits -> {0, 1}]

Coding == {"encode", "shift out", "encoder learns"}
Decoding == {"decode", "shift in", "decoder learns", "store"}
Stages == Final \cup {"open", "encoded", "fill", "close"} \cup Coding \cup Decoding

\* The model is between two updates, or in the one of the symbol cur; every
\* symbol but the one being coded has been learnt.
Learning ==
    /\ IInv
    /\ stage \in {"open", "encode", "shift out", "fill", "decode", "shift in", "store"}
          => phase = "ready"
    /\ cur \in Sym \cup {0}
    /\ stage \in {"shift out", "shift in"} => cur \in 1 .. SymCount - 2
    /\ stage \in {"open", "encode", "fill", "decode"} \/ (stage = "store" /\ ~stop)
          => scale = SymCount - 1 + pos
    /\ stage \in {"shift out", "encoder learns", "shift in", "decoder learns"}
          => scale = SymCount - 1 + pos - 1

\* Where the programs are in the file; its size is at least the header.
Place == /\ stage \in Stages
         /\ input \in Seq(Byte)
         /\ pos \in 0 .. Len(input)
         /\ stage \in {"open", "fill"} => pos = 0
         /\ header \in 0 .. HdrLimit - 1 /\ header <= Len(input)

Wide == low < Half /\ Half <= high /\ range >= Quarter + 2

\* The interval, which is wide unless a symbol has just narrowed it, and the
\* decoder's window in it.
Interval == /\ low \in 0 .. Top /\ high \in 0 .. Top /\ low <= high
            /\ underflow \in Nat /\ esym \in 0 .. Top
            /\ stage \in {"open", "fill"} => low = 0 /\ high = Top
            /\ stage \in {"encode", "encoder learns", "decode", "decoder learns", "store"}
                  => Wide
            /\ stage \in Decoding => low <= esym /\ esym <= high

Bits == /\ io \in Seq({0, 1}) /\ Len(io) <= WordBits
        /\ code \in Seq(Word)
        /\ nread \in 0 .. Len(code)
        /\ stage \in Coding \cup {"open", "encoded"} => nread = 0
        /\ eof_in \in BOOLEAN

Output == /\ chr \in Chr /\ stop \in BOOLEAN
          /\ outbuf \in Seq(Chr) /\ Len(outbuf) < MaxBuf
          /\ lost \in Losses \cup {"nothing"}

CodecInv == Learning /\ Place /\ Interval /\ Bits /\ Output

\* As long as the precision suffices dach_encode_step narrows the interval, and
\* dach_stop_encoder finds the interval where it expects it.
EncoderGoesOn == stage = "encode" =>
                    /\ low < Half
                    /\ pos < Len(input) /\ PrecisionSuffices => CanNarrow(NextSym)
-----------------------------------------------------------------------------
(* Arithmetic *)

LEMMA ModSmall == ASSUME NEW a \in Nat, NEW m \in Nat \ {0}, a < m PROVE a % m = a
OBVIOUS

LEMMA ModOnce == ASSUME NEW a \in Nat, NEW m \in Nat \ {0}, m <= a, a < 2 * m
                 PROVE  a % m = a - m
OBVIOUS

LEMMA DivMod == ASSUME NEW a \in Nat, NEW m \in Nat \ {0} PROVE a \div m \in Nat
OBVIOUS

LEMMA DivBounds == ASSUME NEW a \in Nat, NEW m \in Nat \ {0}
                   PROVE  m * (a \div m) <= a /\ a < m * (a \div m) + m
OBVIOUS

LEMMA DivAtLeast == ASSUME NEW a \in Nat, NEW q \in Nat, NEW m \in Nat \ {0}, m * q <= a
                    PROVE  q <= a \div m
OBVIOUS

LEMMA DivAtMost == ASSUME NEW a \in Nat, NEW q \in Nat, NEW m \in Nat \ {0}, a < m * q + m
                   PROVE  a \div m <= q
OBVIOUS

LEMMA Distributes == ASSUME NEW a \in Nat, NEW b \in Nat, NEW m \in Nat
                     PROVE  /\ m * (a + b) = m * a + m * b /\ m * a \in Nat /\ m * a = a * m
                            /\ m * 1 = m
OBVIOUS

LEMMA TimesMono == ASSUME NEW a \in Nat, NEW b \in Nat, a <= b, NEW m \in Nat
                   PROVE  m * a <= m * b
<1> DEFINE c == b - a
<1>1. c \in Nat /\ b = a + c
    OBVIOUS
<1> HIDE DEF c
<1>2. m * (a + c) = m * a + m * c /\ m * c \in Nat /\ m * a \in Nat
    BY <1>1, Distributes
<1> QED
    BY <1>1, <1>2

LEMMA DivMono == ASSUME NEW a \in Nat, NEW b \in Nat, a <= b, NEW m \in Nat \ {0}
                 PROVE  a \div m <= b \div m
<1>1. a \div m \in Nat /\ m * (a \div m) <= a
    BY DivMod, DivBounds
<1>2. m * (a \div m) \in Nat
    BY <1>1, Distributes
<1>3. m * (a \div m) <= b
    BY <1>1, <1>2
<1> QED
    BY <1>1, <1>3, DivAtLeast

\* One register shift: what is left of 2x in WordBits bits is even.
LEMMA ShlFits == ASSUME NEW x \in 0 .. Top
                 PROVE  /\ Shl(x) \in 0 .. Top - 1
                        /\ x < Half => Shl(x) = 2 * x
                        /\ Half <= x => Shl(x) = 2 * x - (Top + 1)
<1>1. /\ Quarter \in Nat \ {0} /\ Half = 2 * Quarter /\ Half \in Nat
      /\ Top = 4 * Quarter - 1 /\ Top \in Nat /\ Top + 1 \in Nat \ {0}
    BY QuarterAssumption DEF Top, Half
<1>2. x \in Nat /\ 2 * x \in Nat /\ x <= Top
    BY <1>1
<1>3. ASSUME x < Half PROVE Shl(x) = 2 * x
    BY <1>1, <1>2, <1>3, ModSmall DEF Shl
<1>4. ASSUME Half <= x PROVE Shl(x) = 2 * x - (Top + 1)
    BY <1>1, <1>2, <1>4, ModOnce DEF Shl
<1> QED
  <2>1. CASE x < Half
      BY <1>1, <1>2, <1>3, <2>1
  <2>2. CASE Half <= x
      BY <1>1, <1>2, <1>4, <2>2
  <2> QED
      BY <1>1, <1>2, <2>1, <2>2

-----------------------------------------------------------------------------
(* The shares of the symbols *)

\* No suffix sum exceeds the total: induction on the rank.
LEMMA CumBelowScale ==
  ASSUME IInv, phase = "ready", NEW s \in Sym
  PROVE  /\ Cum(s) \in Nat /\ Cum(s + 1) \in Nat /\ scale \in Nat \ {0}
         /\ Cum(s) = Cum(s + 1) + FreqAt(s)
         /\ FreqAt(s) \in Nat \ {0}
         /\ Cum(s) <= scale
<1>1. /\ \A t \in Sym : /\ Cum(t) \in Nat /\ Cum(t + 1) \in Nat
                        /\ FreqAt(t) \in Nat \ {0}
                        /\ Cum(t) = FreqAt(t) + Cum(t + 1)
      /\ Cum(1) = scale
  <2>1. \A t \in Sym : Cum(t) = FreqAt(t) + Cum(t + 1) - 0 /\ Cum(t + 1) \in Nat
      BY Values, SymCountAssumption DEF IInv, Suffix, Short, Owed, Sym
  <2> QED
      BY <2>1, Values DEF IInv, ScaleIsTotal
<1>2. scale \in Nat \ {0}
    BY <1>1, SymCountAssumption DEF Sym
<1>3. Cum(s) <= scale
  <2> SUFFICES ASSUME Cum(s) > scale PROVE FALSE
      BY <1>1, <1>2
  <2> DEFINE S == {t \in Sym : Cum(t) > scale}
  <2>1. S \in SUBSET Nat /\ s \in S
      BY SymCountAssumption DEF Sym
  <2>2. PICK t \in S : \A u \in S : t <= u
      BY <2>1, Least
  <2>3. t \in Sym /\ t # 1 /\ Cum(t) > scale
      BY <1>1, <1>2, <2>2
  <2>4. t - 1 \in Sym /\ t - 1 \notin S /\ t - 1 + 1 = t
      BY <2>2, <2>3, SymCountAssumption DEF Sym
  <2>5. Cum(t - 1) = FreqAt(t - 1) + Cum(t)
      BY <1>1, <2>4
  <2>6. Cum(t - 1) <= scale /\ Cum(t - 1) \in Nat /\ Cum(t) \in Nat
      BY <1>1, <1>2, <2>3, <2>4
  <2> QED
      BY <1>1, <1>2, <2>3, <2>4, <2>5, <2>6
<1> QED
    BY <1>1, <1>2, <1>3

\* Where dach_encode_step puts the ends of the interval, in the old interval.
LEMMA ShareInside ==
  ASSUME IInv, phase = "ready", NEW s \in Sym, low \in Nat, high \in Nat, low <= high
  PROVE  /\ LowScale(s) \in Nat /\ low <= LowScale(s)
         /\ HighScale(s) \in Int /\ HighScale(s) <= high
<1>1. /\ Cum(s) \in Nat /\ Cum(s + 1) \in Nat /\ scale \in Nat \ {0} /\ Cum(s) <= scale
    BY CumBelowScale
<1>2. range \in Nat \ {0} /\ range = high - low + 1
    BY DEF range
<1>3. range * Cum(s) \in Nat /\ range * Cum(s + 1) \in Nat /\ range * scale \in Nat
    BY <1>1, <1>2, Distributes
<1>4. /\ (range * Cum(s + 1)) \div scale \in Nat
      /\ (range * Cum(s)) \div scale \in Nat
    BY <1>1, <1>3, DivMod
<1>5. (range * Cum(s)) \div scale <= range
  <2>1. range * Cum(s) <= range * scale
      BY <1>1, <1>2, TimesMono
  <2>2. range * scale = scale * range
      BY <1>1, <1>2, Distributes
  <2>3. range * Cum(s) < scale * range + scale
      BY <1>1, <1>3, <2>1, <2>2
  <2> QED
      BY <1>1, <1>2, <1>3, <2>3, DivAtMost
<1> QED
    BY <1>2, <1>4, <1>5 DEF LowScale, HighScale

\* A share of an interval that is at least twice as wide as the table's total has
\* room for more than one point.
LEMMA ShareIsWide ==
  ASSUME IInv, phase = "ready", NEW s \in Sym, low \in Nat, high \in Nat, low <= high,
         range >= 2 * scale
  PROVE  LowScale(s) < HighScale(s)
<1> DEFINE c == Cum(s + 1)
<1>1. /\ Cum(s) \in Nat /\ c \in Nat /\ scale \in Nat \ {0} /\ c + 1 <= Cum(s)
    BY CumBelowScale
<1>2. range \in Nat
    BY DEF range
<1>3. range * (c + 1) <= range * Cum(s)
    BY <1>1, <1>2, TimesMono
<1>4. range * (c + 1) = range * c + range /\ range * c \in Nat /\ range * Cum(s) \in Nat
    BY <1>1, <1>2, Distributes
<1> DEFINE q == (range * c) \div scale
<1>5. q \in Nat /\ scale * q <= range * c
    BY <1>1, <1>4, DivMod, DivBounds
<1>6. scale * (q + 2) = scale * q + scale * 2 /\ scale * q \in Nat
    BY <1>1, <1>5, Distributes
<1>7. scale * (q + 2) <= range * Cum(s)
    BY <1>1, <1>2, <1>3, <1>4, <1>5, <1>6
<1>8. q + 2 <= (range * Cum(s)) \div scale
    BY <1>1, <1>4, <1>5, <1>7, DivAtLeast
<1>9. (range * Cum(s)) \div scale \in Nat
    BY <1>1, <1>4, DivMod
<1> QED
    BY <1>5, <1>8, <1>9 DEF LowScale, HighScale

\* dach_decode looks up a value below the total, and the symbol it finds is the
\* one whose share esym is in.
LEMMA TargetFits ==
  ASSUME IInv, phase = "ready", low \in Nat, esym \in Nat, high \in Nat,
         low <= esym, esym <= high
  PROVE  /\ Found \in Sym
         /\ LowScale(Found) <= esym /\ esym <= HighScale(Found)
<1> DEFINE e == esym - low
           n == (e + 1) * scale - 1
<1>1. range \in Nat \ {0} /\ e \in Nat /\ e + 1 <= range
    BY DEF range
<1>2. scale \in Nat \ {0}
    BY CumBelowScale, SymCountAssumption DEF Sym
<1>3. /\ scale * (e + 1) = (e + 1) * scale /\ scale * (e + 1) \in Nat
      /\ scale * (e + 1) = scale * e + scale /\ scale * e \in Nat
    BY <1>1, <1>2, Distributes
<1>4. n \in Nat
    BY <1>2, <1>3
<1>5. Target = n \div range
    BY DEF Target
<1>6. Target \in Nat /\ range * Target <= n /\ n < range * Target + range
    BY <1>1, <1>4, <1>5, DivMod, DivBounds
<1>7. Target <= scale - 1
  <2>1. scale * (e + 1) <= scale * range
      BY <1>1, <1>2, TimesMono
  <2>2. scale * range = range * scale /\ range * (scale - 1 + 1) = range * (scale - 1) + range * 1
      BY <1>1, <1>2, Distributes
  <2>3. n < range * (scale - 1) + range
      BY <1>1, <1>2, <1>3, <2>1, <2>2
  <2> QED
      BY <1>1, <1>2, <1>4, <1>5, <2>3, DivAtMost
<1>8. Target \in 0 .. scale - 1
    BY <1>2, <1>6, <1>7
<1>9. /\ Found \in Sym /\ Cum(Found + 1) <= Target
      /\ Target < Cum(Found + 1) + FreqAt(Found)
    BY <1>8, FindSymFits DEF Found
<1>10. /\ Cum(Found) \in Nat /\ Cum(Found + 1) \in Nat
       /\ Target + 1 <= Cum(Found)
    BY <1>6, <1>9, CumBelowScale
<1> HIDE DEF e, n
<1>11. (range * Cum(Found + 1)) \div scale <= e
  <2>1. range * Cum(Found + 1) <= range * Target
      BY <1>1, <1>6, <1>9, <1>10, TimesMono
  <2>2. range * Cum(Found + 1) \in Nat
      BY <1>1, <1>10, Distributes
  <2>3. n = (e + 1) * scale - 1
      BY DEF n
  <2>4. range * Target \in Nat
      BY <1>1, <1>6, Distributes
  <2>5. range * Cum(Found + 1) < scale * e + scale
      BY <1>2, <1>3, <1>4, <1>6, <2>1, <2>2, <2>3, <2>4
  <2> QED
      BY <1>1, <1>2, <2>2, <2>5, DivAtMost
<1>12. e + 1 <= (range * Cum(Found)) \div scale
  <2>1. range * (Target + 1) <= range * Cum(Found)
      BY <1>1, <1>6, <1>10, TimesMono
  <2>2. range * (Target + 1) = range * Target + range * 1 /\ range * Target \in Nat
      BY <1>1, <1>6, Distributes
  <2>3. range * Cum(Found) \in Nat
      BY <1>1, <1>10, Distributes
  <2>4. n = (e + 1) * scale - 1
      BY DEF n
  <2>5. scale * (e + 1) <= range * Cum(Found)
      BY <1>1, <1>2, <1>3, <1>4, <1>6, <2>1, <2>2, <2>3, <2>4
  <2> QED
      BY <1>1, <1>2, <2>3, <2>5, DivAtLeast
<1>13. /\ (range * Cum(Found + 1)) \div scale \in Nat
       /\ (range * Cum(Found)) \div scale \in Nat
    BY <1>1, <1>2, <1>10, Distributes, DivMod
<1>14. e = esym - low
    BY DEF e
<1> QED
    BY <1>9, <1>11, <1>12, <1>13, <1>14 DEF LowScale, HighScale
-----------------------------------------------------------------------------
(* Normalisation *)

LEMMA Registers == /\ Quarter \in Nat \ {0} /\ Half = 2 * Quarter /\ Half \in Nat \ {0}
                   /\ Top = 4 * Quarter - 1 /\ Top \in Nat
BY QuarterAssumption DEF Top, Half

\* What the tests of the loop's bits say of the interval.
LEMMA Tests ==
  ASSUME low \in 0 .. Top, high \in 0 .. Top, low <= high
  PROVE  /\ SameHalf \/ (low < Half /\ Half <= high)
         /\ Straddles => /\ Quarter <= low /\ low < Half
                         /\ Half <= high /\ high < Half + Quarter
         /\ Normal => Wide
<1>1. SameHalf \/ (low < Half /\ Half <= high)
    BY Registers DEF SameHalf
<1>2. ASSUME low < Half, Half <= high
      PROVE  low % Half = low /\ high % Half = high - Half
  <2>1. low % Half = low
      BY <1>2, Registers, ModSmall
  <2>2. high % Half = high - Half
    <3>1. high \in Nat /\ Half <= high /\ high < 2 * Half
        BY <1>2, Registers
    <3> QED
        BY <3>1, Registers, ModOnce
  <2> QED
      BY <2>1, <2>2
<1>3. Straddles => /\ Quarter <= low /\ low < Half
                   /\ Half <= high /\ high < Half + Quarter
    BY <1>1, <1>2, Registers DEF Straddles
<1>4. Normal => Wide
    BY <1>1, <1>2, Registers DEF Normal, Straddles, Wide, range
<1> QED
    BY <1>1, <1>3, <1>4

\* One iteration keeps the ends of the interval in order, and keeps a window that
\* was between them there, whatever the bit that comes in.
LEMMA ShiftKeepsOrder ==
  ASSUME low \in 0 .. Top, high \in 0 .. Top, low <= high, ~Normal, ShiftInterval
  PROVE  /\ low' \in 0 .. Top /\ high' \in 0 .. Top /\ low' <= high'
         /\ \A e \in low .. high, b \in {0, 1} :
               LET flipped == IF ~Straddles THEN e
                              ELSE IF e % Half >= Quarter THEN e - Quarter
                              ELSE e + Quarter
               IN  Shl(flipped) + b \in low' .. high'
<1>1. CASE SameHalf
  <2>1. low' = Shl(low) /\ high' = Shl(high) + 1 /\ ~Straddles
      BY <1>1, Registers DEF ShiftInterval, Squeeze, Straddles
  <2>2. CASE Half <= low
    <3>1. low' = 2 * low - (Top + 1) /\ high' = 2 * high - (Top + 1) + 1
        BY <2>1, <2>2, Registers, ShlFits
    <3>2. \A e \in low .. high : Shl(e) = 2 * e - (Top + 1)
        BY <2>2, Registers, ShlFits
    <3> QED
        BY <2>1, <2>2, <3>1, <3>2, Registers
  <2>3. CASE high < Half
    <3>1. low' = 2 * low /\ high' = 2 * high + 1
        BY <2>1, <2>3, Registers, ShlFits
    <3>2. \A e \in low .. high : Shl(e) = 2 * e
        BY <2>3, Registers, ShlFits
    <3> QED
        BY <2>1, <2>3, <3>1, <3>2, Registers
  <2> QED
      BY <1>1, <2>2, <2>3, Registers DEF SameHalf
<1>2. CASE ~SameHalf
  <2>1. Straddles
      BY <1>2 DEF Normal
  <2>2. Quarter <= low /\ low < Half /\ Half <= high /\ high < Half + Quarter
      BY <2>1, Tests
  <2>3. low' = Shl(low - Quarter) /\ high' = Shl(high + Quarter) + 1
      BY <2>1 DEF ShiftInterval, Squeeze
  <2>4. low' = 2 * (low - Quarter) /\ high' = 2 * (high + Quarter) - (Top + 1) + 1
    <3>1. low - Quarter \in 0 .. Top /\ low - Quarter < Half
        BY <2>2, Registers
    <3>2. high + Quarter \in 0 .. Top /\ Half <= high + Quarter
        BY <2>2, Registers
    <3> QED
        BY <2>3, <3>1, <3>2, ShlFits
  <2>5. ASSUME NEW e \in low .. high, NEW b \in {0, 1},
               NEW f, f = IF e % Half >= Quarter THEN e - Quarter ELSE e + Quarter
        PROVE  Shl(f) + b \in low' .. high'
    <3>1. CASE e < Half
      <4>1. e % Half = e
          BY <3>1, Registers, ModSmall
      <4>2. f = e - Quarter /\ f \in 0 .. Top /\ f < Half
          BY <2>2, <2>5, <3>1, <4>1, Registers
      <4>3. Shl(f) = 2 * f
          BY <4>2, ShlFits
      <4> QED
          BY <2>2, <2>4, <3>1, <4>2, <4>3, Registers
    <3>2. CASE Half <= e
      <4>1. e % Half = e - Half
          BY <2>2, <3>2, Registers, ModOnce
      <4>2. f = e + Quarter /\ f \in 0 .. Top /\ Half <= f
          BY <2>2, <2>5, <3>2, <4>1, Registers
      <4>3. Shl(f) = 2 * f - (Top + 1)
          BY <4>2, ShlFits
      <4> QED
          BY <2>2, <2>4, <3>2, <4>2, <4>3, Registers
    <3> QED
        BY <3>1, <3>2, Registers
  <2>6. low' \in 0 .. Top /\ high' \in 0 .. Top /\ low' <= high'
      BY <2>2, <2>4, Registers
  <2> QED
      BY <2>1, <2>5, <2>6
<1> QED
    BY <1>1, <1>2

-----------------------------------------------------------------------------
(* The bits of the code *)

\* Writing bits leaves at most a full buffer and writes only whole words.
LEMMA BitOutFits ==
  ASSUME NEW w, w.io \in Seq({0, 1}), w.code \in Seq(Word),
         NEW bits \in Seq({0, 1}), bits # <<>>
  PROVE  /\ BitOut(w, bits).io \in Seq({0, 1})
         /\ Len(BitOut(w, bits).io) \in 1 .. WordBits
         /\ BitOut(w, bits).code \in Seq(Word)
<1> DEFINE all == w.io \o bits
           n == Len(all)
           words == (n - 1) \div WordBits
           rest == SubSeq(all, words * WordBits + 1, n)
           Cut(k) == SubSeq(all, (k - 1) * WordBits + 1, k * WordBits)
           cuts == [k \in 1 .. words |-> Cut(k)]
<1>1. all \in Seq({0, 1}) /\ n \in Nat \ {0}
  <2>1. Len(bits) \in Nat \ {0} /\ Len(w.io) \in Nat
      BY EmptySeq
  <2> QED
      BY <2>1, ConcatProperties
<1>2. WordBits \in Nat \ {0}
    BY WordBitsAssumption
<1> HIDE DEF all
<1>3. words \in Nat /\ WordBits * words <= n - 1 /\ n - 1 < WordBits * words + WordBits
  <2>1. n - 1 \in Nat
      BY <1>1
  <2> HIDE DEF n
  <2> QED
      BY <1>2, <2>1, DivMod, DivBounds
<1>4. words * WordBits = WordBits * words /\ WordBits * words \in Nat
    BY <1>2, <1>3, Distributes
<1> HIDE DEF words
<1>5. rest \in Seq({0, 1}) /\ Len(rest) \in 1 .. WordBits
  <2>1. \A i \in words * WordBits + 1 .. n : all[i] \in {0, 1}
      BY <1>1, <1>3, <1>4
  <2>2. /\ rest \in Seq({0, 1})
        /\ Len(rest) = IF words * WordBits + 1 <= n THEN n - (words * WordBits + 1) + 1 ELSE 0
      BY <1>1, <1>3, <1>4, <2>1, SubSeqProperties
  <2> QED
      BY <1>1, <1>2, <1>3, <1>4, <2>2
<1>6. ASSUME NEW k \in 1 .. words PROVE Cut(k) \in Word
  <2>1. /\ WordBits * k <= WordBits * words /\ WordBits * k = k * WordBits
        /\ WordBits * k \in Nat
      BY <1>2, <1>3, TimesMono, Distributes
  <2>2. /\ (k - 1) * WordBits = WordBits * (k - 1) /\ WordBits * (k - 1) \in Nat
        /\ WordBits * k = WordBits * (k - 1) + WordBits
    <3>1. k - 1 \in Nat /\ k - 1 + 1 = k
        BY <1>3
    <3> QED
        BY <1>2, <3>1, Distributes
  <2>3. /\ k * WordBits = (k - 1) * WordBits + WordBits
        /\ (k - 1) * WordBits \in Nat /\ k * WordBits <= n /\ k * WordBits \in Nat
    <3>1. k * WordBits = (k - 1) * WordBits + WordBits /\ (k - 1) * WordBits \in Nat
        BY ONLY <2>1, <2>2
    <3>2. k * WordBits <= n /\ k * WordBits \in Nat
        BY <1>1, <1>3, <1>4, <2>1
    <3> QED
        BY <3>1, <3>2
  <2>4. \A i \in (k - 1) * WordBits + 1 .. k * WordBits : all[i] \in {0, 1}
    <3> SUFFICES ASSUME NEW i \in (k - 1) * WordBits + 1 .. k * WordBits
                 PROVE  all[i] \in {0, 1}
        OBVIOUS
    <3>1. i \in 1 .. n
        BY <1>1, <2>3
    <3> QED
        BY <1>1, <3>1
  <2>5. Cut(k) \in Seq({0, 1}) /\ Len(Cut(k)) = WordBits
    <3> DEFINE a == (k - 1) * WordBits + 1
               b == k * WordBits
    <3>1. a \in Int /\ b \in Int /\ b - a + 1 = WordBits /\ a <= b
        BY <1>2, <2>3
    <3>2. \A i \in a .. b : all[i] \in {0, 1}
        BY <2>4
    <3> HIDE DEF a, b
    <3>3. SubSeq(all, a, b) \in Seq({0, 1}) /\ Len(SubSeq(all, a, b)) = WordBits
        BY <3>1, <3>2, SubSeqProperties
    <3> QED
        BY <3>3 DEF a, b
  <2> QED
      BY <2>5, LenProperties DEF Word
<1>7. w.code \o cuts \in Seq(Word)
  <2>1. cuts \in [1 .. words -> Word]
      BY <1>6
  <2>2. cuts \in Seq(Word)
      BY <1>3, <2>1
  <2> QED
      BY <2>2, ConcatProperties
<1>8. BitOut(w, bits).io = rest /\ BitOut(w, bits).code = w.code \o cuts
    BY DEF BitOut, all, words
<1> QED
    BY <1>5, <1>7, <1>8

LEMMA WriteStreamFits ==
  ASSUME NEW w, w.io \in Seq({0, 1}), w.code \in Seq(Word),
         NEW b \in {0, 1}, NEW pending \in Nat
  PROVE  /\ WriteStream(w, b, pending).io \in Seq({0, 1})
         /\ Len(WriteStream(w, b, pending).io) \in 1 .. WordBits
         /\ WriteStream(w, b, pending).code \in Seq(Word)
<1> DEFINE same == [i \in 1 .. pending |-> 1 - b]
<1>1. same \in Seq({0, 1})
  <2>1. same \in [1 .. pending -> {0, 1}]
      OBVIOUS
  <2> QED
      BY <2>1
<1>2. <<b>> \in Seq({0, 1}) /\ Len(<<b>>) = 1
    OBVIOUS
<1> HIDE DEF same
<1>3. <<b>> \o same \in Seq({0, 1}) /\ <<b>> \o same # <<>>
  <2>1. <<b>> \o same \in Seq({0, 1}) /\ Len(<<b>> \o same) = 1 + Len(same)
      BY <1>1, <1>2, ConcatProperties
  <2>2. Len(same) \in Nat
      BY <1>1
  <2> QED
      BY <2>1, <2>2
<1> QED
    BY <1>3, BitOutFits DEF WriteStream, same
-----------------------------------------------------------------------------
(* What a step leaves alone it keeps *)

LEMMA KeepModel == ASSUME IInv, UNCHANGED ppm
                   PROVE  IInv' /\ phase' = phase /\ scale' = scale
BY StepIInv DEF ppm

LEMMA KeepPlace ==
  ASSUME Place, UNCHANGED <<input, pos, header>>, stage' \in Stages \ {"open", "fill"}
  PROVE  Place'
BY DEF Place

LEMMA KeepBits ==
  ASSUME Bits, UNCHANGED <<io, code, reader>>,
         stage' \in Coding \cup {"open", "encoded"} => stage \in Coding \cup {"open", "encoded"}
  PROVE  Bits'
BY DEF Bits, reader

LEMMA KeepOutput == ASSUME Output, UNCHANGED <<chr, stop, outbuf, lost>> PROVE Output'
BY DEF Output

\* The types that most steps use.
LEMMA Types ==
  ASSUME CodecInv
  PROVE  /\ IInv /\ SymCount \in Nat /\ SymCount >= 3
         /\ Len(input) \in Nat /\ pos \in Nat /\ pos <= Len(input)
         /\ low \in Nat /\ high \in Nat /\ low <= high /\ high <= Top /\ Top \in Nat
         /\ esym \in Nat /\ underflow \in Nat
<1>1. IInv /\ SymCount \in Nat /\ SymCount >= 3
    BY SymCountAssumption DEF CodecInv, Learning
<1>2. Len(input) \in Nat
    BY DEF CodecInv, Place
<1>3. pos \in Nat /\ pos <= Len(input)
    BY <1>2 DEF CodecInv, Place
<1>4. Top \in Nat
    BY Registers
<1>5. low \in 0 .. Top /\ high \in 0 .. Top /\ low <= high /\ esym \in 0 .. Top /\ underflow \in Nat
    BY DEF CodecInv, Interval
<1> QED
    BY <1>1, <1>2, <1>3, <1>4, <1>5

\* The interval stays as it was, and so does what is known of it.
LEMMA KeepInterval ==
  ASSUME Interval, UNCHANGED <<interval, esym>>,
         stage' \notin {"open", "fill"},
         stage' \in {"encode", "encoder learns", "decode", "decoder learns", "store"} => Wide,
         stage' \in Decoding => stage \in Decoding
  PROVE  Interval'
BY DEF Interval, interval, Wide, range

\* A program gives up.
LEMMA GivesUp ==
  ASSUME CodecInv, stage' \in Final,
         UNCHANGED <<ppm, input, pos, interval, cur, io, header, code, reader, output, lost>>
  PROVE  CodecInv'
<1>1. stage' \in Stages /\ stage' \notin Coding \cup Decoding \cup {"open", "encoded", "fill"}
    BY DEF Final, Stages, Coding, Decoding
<1>2. Learning'
    BY <1>1, KeepModel DEF CodecInv, Learning, Coding, Decoding
<1>3. Place'
    BY <1>1, KeepPlace DEF CodecInv
<1>4. Interval'
    BY <1>1, KeepInterval DEF CodecInv, Coding, Decoding, reader
<1>5. Bits'
    BY <1>1, KeepBits DEF CodecInv
<1> QED
    BY <1>2, <1>3, <1>4, <1>5, KeepOutput DEF CodecInv, output

-----------------------------------------------------------------------------
(* encode() *)

LEMMA OpenInputStep == ASSUME CodecInv, OpenInput PROVE CodecInv'
<1>1. /\ stage = "open" /\ stage' \in {"failed", "encode"}
      /\ UNCHANGED <<ppm, input, pos, interval, cur, io, code, reader, output, lost>>
    BY DEF OpenInput
<1>2. Learning'
    BY <1>1, KeepModel DEF CodecInv, Learning, Final
<1>3. Place'
  <2>1. header' = header \/ header' = Len(input) % HdrLimit
      BY DEF OpenInput
  <2>2. Len(input) \in Nat /\ HdrLimit \in Nat \ {0}
      BY BoundsAssumption DEF CodecInv, Place
  <2>3. Len(input) % HdrLimit \in 0 .. HdrLimit - 1 /\ Len(input) % HdrLimit <= Len(input)
    <3> DEFINE n == Len(input)
    <3>1. n \in Nat
        BY <2>2
    <3> HIDE DEF n
    <3>2. n % HdrLimit \in 0 .. HdrLimit - 1
        BY <2>2, <3>1
    <3>3. n < HdrLimit => n % HdrLimit = n
        BY <2>2, <3>1
    <3> QED
        BY <2>2, <3>1, <3>2, <3>3 DEF n
  <2> QED
      BY <1>1, <2>1, <2>3 DEF CodecInv, Place, Stages, Final, Coding
<1>4. Interval'
  <2>1. Wide
      BY <1>1, Registers DEF CodecInv, Interval, Wide, range
  <2> QED
      BY <1>1, <2>1, KeepInterval DEF CodecInv, reader, Decoding
<1>5. Bits'
    BY <1>1, KeepBits DEF CodecInv, Coding
<1> QED
    BY <1>1, <1>2, <1>3, <1>4, <1>5, KeepOutput DEF CodecInv, output

\* The next byte of the input is one that the model has a symbol for.
LEMMA NextSymFits ==
  ASSUME CodecInv, stage = "encode", pos < Len(input)
  PROVE  NextSym \in 1 .. SymCount - 2 /\ NextSym \in Sym
<1>1. input[pos + 1] \in Byte
    BY DEF CodecInv, Place
<1> QED
    BY <1>1, ByteSym, SymCountAssumption DEF CodecInv, Learning, NextSym, Sym

LEMMA EncodeNarrowStep == ASSUME CodecInv, EncodeNarrow PROVE CodecInv'
<1>1. /\ stage = "encode" /\ pos < Len(input) /\ CanNarrow(NextSym)
      /\ low' = LowScale(NextSym) /\ high' = HighScale(NextSym)
      /\ cur' = NextSym /\ pos' = pos + 1 /\ stage' = "shift out"
      /\ UNCHANGED <<ppm, input, underflow, io, header, code, reader, output, lost>>
    BY DEF EncodeNarrow, Narrow
<1>2. NextSym \in 1 .. SymCount - 2 /\ NextSym \in Sym
    BY <1>1, NextSymFits
<1>3. IInv /\ phase = "ready" /\ scale = SymCount - 1 + pos
    BY <1>1 DEF CodecInv, Learning
<1>4. Learning'
  <2>1. IInv' /\ phase' = "ready" /\ scale' = scale
      BY <1>1, <1>3, KeepModel
  <2>2. scale' = SymCount - 1 + pos' - 1
    <3>1. /\ pos \in Nat /\ SymCount \in Nat /\ pos' = pos + 1
          /\ scale' = SymCount - 1 + pos
        BY <1>1, <1>3, <2>1, Types
    <3> QED
        BY ONLY <3>1
  <2> QED
      BY <1>1, <1>2, <2>1, <2>2 DEF Learning
<1>5. Place'
  <2>1. pos' \in 0 .. Len(input)
    <3>1. pos \in Nat /\ Len(input) \in Nat /\ pos < Len(input) /\ pos' = pos + 1
        BY <1>1, Types
    <3> QED
        BY ONLY <3>1
  <2> QED
      BY <1>1, <2>1 DEF CodecInv, Place, Stages, Coding
<1>6. Interval'
  <2>1. low \in Nat /\ high \in Nat /\ low <= high /\ high <= Top
      BY Types
  <2>2. /\ LowScale(NextSym) \in Nat /\ HighScale(NextSym) \in Int
        /\ HighScale(NextSym) <= high
      BY <1>2, <1>3, <2>1, ShareInside
  <2>3. ~(HighScale(NextSym) < LowScale(NextSym))
      BY <1>1 DEF CanNarrow, ShareIsEmpty
  <2>4. low' \in 0 .. Top /\ high' \in 0 .. Top /\ low' <= high'
    <3>1. /\ low' \in Nat /\ high' \in Int /\ high' <= high /\ ~(high' < low')
          /\ high \in Nat /\ high <= Top /\ Top \in Nat
        BY <1>1, <2>2, <2>3, Types
    <3> QED
        BY ONLY <3>1
  <2> QED
      BY <1>1, <2>4 DEF CodecInv, Interval, reader, Decoding
<1>7. Bits'
    BY <1>1, KeepBits DEF CodecInv, Coding
<1> QED
    BY <1>1, <1>4, <1>5, <1>6, <1>7, KeepOutput DEF CodecInv, output

\* The normalisation loop of dach_encode, with the bits it puts out.
LEMMA ShiftOutStep == ASSUME CodecInv, ShiftOut \/ ShiftUnderflow PROVE CodecInv'
<1>1. /\ stage = "shift out" /\ ShiftInterval /\ ~Normal
      /\ UNCHANGED <<ppm, input, stage, pos, cur, header, reader, output, lost>>
    BY DEF ShiftOut, ShiftUnderflow, Normal
<1>2. Learning'
    BY <1>1, KeepModel DEF CodecInv, Learning
<1>3. Place'
    BY <1>1 DEF CodecInv, Place
<1>4. Interval'
  <2>1. underflow' \in Nat
    <3>1. underflow' \in {0, underflow + 1}
        BY DEF ShiftOut, ShiftUnderflow
    <3> QED
        BY <3>1, Types
  <2>2. low' \in 0 .. Top /\ high' \in 0 .. Top /\ low' <= high'
      BY <1>1, ShiftKeepsOrder DEF CodecInv, Interval
  <2> QED
      BY <1>1, <2>1, <2>2 DEF CodecInv, Interval, reader, Decoding
<1>5. Bits'
  <2>1. CASE ShiftUnderflow
      BY <1>1, <2>1, KeepBits DEF CodecInv, ShiftUnderflow
  <2>2. CASE ShiftOut
    <3> DEFINE b == IF high >= Half THEN 1 ELSE 0
    <3>1. Writer.io \in Seq({0, 1}) /\ Writer.code \in Seq(Word)
        BY DEF CodecInv, Bits, Writer
    <3>2. b \in {0, 1} /\ underflow \in Nat
        BY DEF CodecInv, Interval
    <3>3. /\ io' = WriteStream(Writer, b, underflow).io
          /\ code' = WriteStream(Writer, b, underflow).code
        BY <2>2 DEF ShiftOut, Written
    <3> HIDE DEF b
    <3>4. io' \in Seq({0, 1}) /\ Len(io') <= WordBits /\ code' \in Seq(Word)
        BY <3>1, <3>2, <3>3, WriteStreamFits, WordBitsAssumption
    <3>5. nread = 0 /\ nread' = 0 /\ eof_in' = eof_in
        BY <1>1 DEF CodecInv, Bits, reader, Coding
    <3> QED
        BY <3>4, <3>5 DEF CodecInv, Bits
  <2> QED
      BY <2>1, <2>2
<1> QED
    BY <1>1, <1>2, <1>3, <1>4, <1>5, KeepOutput DEF CodecInv, output
\* An update in the middle of coding: scale grows when it ends and only then.
LEMMA UpdateStepLearns ==
  ASSUME IInv, UpdateStep
  PROVE  /\ IInv'
         /\ phase' = "ready" => scale' = scale + 1
         /\ phase' # "ready" => scale' = scale
<1>1. IInv'
    BY StepIInv DEF PpmNext
<1>2. CASE UpdateEnd
    BY <1>1, <1>2, UpdateEndIInv DEF UpdateEnd
<1>3. CASE SwapUp \/ SwapDone \/ IncCum
    BY <1>1, <1>3 DEF SwapUp, SwapDone, IncCum
<1> QED
    BY <1>2, <1>3 DEF UpdateStep

LEMMA EncodeLearnStep == ASSUME CodecInv, EncodeLearn PROVE CodecInv'
<1>1. /\ stage = "shift out" /\ Normal /\ UpdateBegin(cur) /\ stage' = "encoder learns"
      /\ UNCHANGED <<input, pos, interval, cur, io, header, code, reader, output, lost>>
    BY DEF EncodeLearn
<1>2. Learning'
  <2>1. IInv' /\ scale' = scale
      BY <1>1, UpdateBeginIInv DEF CodecInv, Learning, UpdateBegin
  <2> QED
      BY <1>1, <2>1 DEF CodecInv, Learning
<1>3. Place'
    BY <1>1, KeepPlace DEF CodecInv, Stages, Coding
<1>4. Interval'
  <2>1. Wide
      BY <1>1, Tests DEF CodecInv, Interval
  <2> QED
      BY <1>1, <2>1, KeepInterval DEF CodecInv, Decoding, reader
<1>5. Bits'
    BY <1>1, KeepBits DEF CodecInv, Coding
<1> QED
    BY <1>1, <1>2, <1>3, <1>4, <1>5, KeepOutput DEF CodecInv, output

LEMMA EncodeUpdateStep == ASSUME CodecInv, EncodeUpdate PROVE CodecInv'
<1>1. /\ stage = "encoder learns" /\ UpdateStep
      /\ stage' = IF phase' = "ready" THEN "encode" ELSE stage
      /\ UNCHANGED <<input, pos, interval, cur, io, header, code, reader, output, lost>>
    BY DEF EncodeUpdate
<1>2. Learning'
  <2>1. /\ IInv'
        /\ phase' = "ready" => scale' = scale + 1
        /\ phase' # "ready" => scale' = scale
      BY <1>1, UpdateStepLearns DEF CodecInv, Learning
  <2>2. scale = SymCount - 1 + pos - 1
      BY <1>1 DEF CodecInv, Learning
  <2>3. pos \in Nat /\ SymCount \in Nat /\ pos' = pos /\ cur' = cur /\ cur \in Sym \cup {0}
      BY <1>1, Types DEF CodecInv, Learning
  <2>4. CASE phase' = "ready"
    <3>1. stage' = "encode" /\ scale' = scale + 1
        BY <1>1, <2>1, <2>4
    <3>2. scale' = SymCount - 1 + pos'
        BY ONLY <2>2, <2>3, <3>1
    <3> QED
        BY <2>1, <2>3, <2>4, <3>1, <3>2 DEF Learning
  <2>5. CASE phase' # "ready"
    <3>1. stage' = "encoder learns" /\ scale' = scale
        BY <1>1, <2>1, <2>5
    <3>2. scale' = SymCount - 1 + pos' - 1
        BY ONLY <2>2, <2>3, <3>1
    <3> QED
        BY <2>1, <2>3, <2>5, <3>1, <3>2 DEF Learning
  <2> QED
      BY <2>4, <2>5
<1>3. Place'
    BY <1>1, KeepPlace DEF CodecInv, Stages, Coding
<1>4. Interval'
    BY <1>1, KeepInterval DEF CodecInv, Decoding, Interval, reader
<1>5. Bits'
    BY <1>1, KeepBits DEF CodecInv, Coding
<1> QED
    BY <1>1, <1>2, <1>3, <1>4, <1>5, KeepOutput DEF CodecInv, output

\* Padding leaves exactly one full buffer.
LEMMA PadFits ==
  ASSUME NEW w, w.io \in Seq({0, 1}), Len(w.io) <= WordBits, w.code \in Seq(Word),
         w = [io |-> w.io, code |-> w.code]
  PROVE  Pad(w).io \in Seq({0, 1}) /\ Pad(w).code \in Seq(Word)
<1> DEFINE zeros == [i \in 1 .. WordBits - Len(w.io) |-> 0]
<1>1. WordBits - Len(w.io) \in Nat
    BY WordBitsAssumption
<1>2. zeros \in [1 .. WordBits - Len(w.io) -> {0, 1}]
    OBVIOUS
<1>3. zeros \in Seq({0, 1})
    BY <1>1, <1>2
<1>4. w.io \o zeros \in Seq({0, 1})
    BY <1>3, ConcatProperties
<1>5. Pad(w).io = w.io \o zeros /\ Pad(w).code = w.code
    BY DEF Pad
<1> QED
    BY <1>4, <1>5

\* The encoder's last bits: low is in the lower half, where it looks for it.
LEMMA StopEncoderStep == ASSUME CodecInv, StopEncoder PROVE CodecInv'
<1> DEFINE selected == WriteStream(Writer, 1, underflow + 1)
           ended == BitOut(selected, <<0>>)
           padded == Pad(ended)
           last == BitOut(padded, <<0>>)
<1>1. stage = "encode" /\ pos = Len(input) /\ underflow' = 0
      /\ UNCHANGED <<ppm, input, pos, low, high, cur, header, reader, output, lost>>
    BY DEF StopEncoder
<1>2. ~(low >= Half)
    BY <1>1, Types, Registers DEF CodecInv, Interval, Wide
<1>3. stage' = "encoded" /\ io' = last.io /\ code' = last.code
    BY <1>2 DEF StopEncoder, Written
<1>4. <<0>> \in Seq({0, 1}) /\ <<0>> # <<>>
    OBVIOUS
<1>5. /\ selected.io \in Seq({0, 1}) /\ selected.code \in Seq(Word)
  <2>1. Writer.io \in Seq({0, 1}) /\ Writer.code \in Seq(Word)
      BY DEF CodecInv, Bits, Writer
  <2>2. underflow + 1 \in Nat
      BY Types
  <2> QED
      BY <2>1, <2>2, WriteStreamFits
<1> HIDE DEF selected
<1>6. /\ ended.io \in Seq({0, 1}) /\ Len(ended.io) <= WordBits /\ ended.code \in Seq(Word)
      /\ ended = [io |-> ended.io, code |-> ended.code]
  <2>1. ended.io \in Seq({0, 1}) /\ Len(ended.io) <= WordBits /\ ended.code \in Seq(Word)
    <3>1. /\ BitOut(selected, <<0>>).io \in Seq({0, 1})
          /\ Len(BitOut(selected, <<0>>).io) \in 1 .. WordBits
          /\ BitOut(selected, <<0>>).code \in Seq(Word)
        BY <1>4, <1>5, BitOutFits
    <3> HIDE DEF ended
    <3>2. ended = BitOut(selected, <<0>>)
        BY DEF ended
    <3>3. Len(ended.io) \in 1 .. WordBits
        BY <3>1, <3>2
    <3> QED
        BY <3>1, <3>2, <3>3, WordBitsAssumption
  <2>2. ended = [io |-> ended.io, code |-> ended.code]
      BY DEF BitOut
  <2> QED
      BY <2>1, <2>2
<1> HIDE DEF ended
<1>7. padded.io \in Seq({0, 1}) /\ padded.code \in Seq(Word)
    BY <1>6, PadFits
<1> HIDE DEF padded
<1>8. io' \in Seq({0, 1}) /\ Len(io') <= WordBits /\ code' \in Seq(Word)
  <2>1. /\ BitOut(padded, <<0>>).io \in Seq({0, 1})
        /\ Len(BitOut(padded, <<0>>).io) \in 1 .. WordBits
        /\ BitOut(padded, <<0>>).code \in Seq(Word)
      BY <1>4, <1>7, BitOutFits
  <2>2. io' = BitOut(padded, <<0>>).io /\ code' = BitOut(padded, <<0>>).code
      BY <1>3
  <2>3. Len(io') \in 1 .. WordBits
      BY <2>1, <2>2
  <2> QED
      BY <2>1, <2>2, <2>3, WordBitsAssumption
<1>9. Learning'
    BY <1>1, <1>3, KeepModel DEF CodecInv, Learning
<1>10. Place'
    BY <1>1, <1>3, KeepPlace DEF CodecInv, Stages
<1>11. Interval'
    BY <1>1, <1>3 DEF CodecInv, Interval, Decoding, reader
<1>12. Bits'
  <2>1. nread' = 0 /\ eof_in' \in BOOLEAN
      BY <1>1 DEF CodecInv, Bits, Coding, reader
  <2> QED
      BY <1>8, <2>1 DEF Bits
<1> QED
    BY <1>1, <1>9, <1>10, <1>11, <1>12, KeepOutput DEF CodecInv, output

\* What is left of the encoded file is a beginning of its words.
LEMMA LoseCodeStep == ASSUME CodecInv, LoseCode PROVE CodecInv'
<1>1. /\ stage \in Coding \cup {"encoded"} /\ stage' = "encoded"
      /\ lost' = "code" /\ "code" \in Losses
      /\ UNCHANGED <<ppm, input, pos, interval, cur, io, reader, output>>
    BY DEF LoseCode, Coding
<1>2. Learning'
    BY <1>1, KeepModel DEF CodecInv, Learning
<1>3. Place'
  <2>1. header' \in {header, 0}
      BY DEF LoseCode
  <2> QED
      BY <1>1, <2>1, Types, BoundsAssumption DEF CodecInv, Place, Stages
<1>4. Interval'
    BY <1>1, KeepInterval DEF CodecInv, Decoding, reader
<1>5. Bits'
  <2>1. code \in Seq(Word) /\ Len(code) \in Nat
      BY DEF CodecInv, Bits
  <2>2. code' \in Seq(Word)
    <3>1. CASE code' = <<>>
        BY <3>1
    <3>2. ASSUME NEW n \in 0 .. Len(code), code' = SubSeq(code, 1, n)
          PROVE  code' \in Seq(Word)
      <4>1. \A i \in 1 .. n : code[i] \in Word
          BY <2>1
      <4> QED
          BY <2>1, <3>2, <4>1, SubSeqProperties
    <3> QED
        BY <3>1, <3>2 DEF LoseCode
  <2>3. Len(code') \in Nat
      BY <2>2
  <2>4. nread = 0 /\ nread' = 0 /\ eof_in' = eof_in /\ io' = io
      BY <1>1 DEF CodecInv, Bits, reader
  <2>5. nread' \in 0 .. Len(code')
      BY ONLY <2>3, <2>4
  <2> QED
      BY <2>2, <2>4, <2>5 DEF CodecInv, Bits
<1>6. Output'
    BY <1>1 DEF CodecInv, Output, output
<1> QED
    BY <1>2, <1>3, <1>4, <1>5, <1>6 DEF CodecInv

-----------------------------------------------------------------------------
(* decode() *)

LEMMA OpenCodeStep == ASSUME CodecInv, OpenCode PROVE CodecInv'
<1>1. /\ stage = "encoded" /\ PpmReset /\ stage' = "fill"
      /\ pos' = 0 /\ low' = 0 /\ high' = Top /\ underflow' = 0 /\ cur' = 0
      /\ io' = <<>> /\ nread' = 0 /\ eof_in' = FALSE /\ esym' = 0
      /\ UNCHANGED <<input, header, code, output, lost>>
    BY DEF OpenCode
<1>2. Learning'
  <2>1. PpmInit' => IInv'
      BY InitIInv, PTL
  <2>2. IInv' /\ phase' = "ready" /\ scale' = SymCount - 1
      BY <1>1, <2>1 DEF PpmReset, PpmInit
  <2> QED
      BY <1>1, <2>2, SymCountAssumption DEF Learning
<1>3. Place'
    BY <1>1, Types DEF CodecInv, Place, Stages
<1>4. Interval'
    BY <1>1, Registers DEF Interval, Decoding
<1>5. Bits'
  <2>1. io' \in Seq({0, 1}) /\ Len(io') = 0 /\ code' \in Seq(Word) /\ Len(code') \in Nat
      BY <1>1 DEF CodecInv, Bits
  <2>2. nread' \in 0 .. Len(code') /\ Len(io') <= WordBits
      BY <1>1, <2>1, WordBitsAssumption
  <2> QED
      BY <1>1, <2>1, <2>2 DEF Bits
<1> QED
    BY <1>1, <1>2, <1>3, <1>4, <1>5, KeepOutput DEF CodecInv, output

\* What dach_bitin takes is a bit, and leaves bits.
LEMMA BufferFits ==
  ASSUME Bits
  PROVE  /\ Buffer \in Seq({0, 1}) /\ Buffer # <<>>
         /\ Len(Buffer) <= WordBits
         /\ Head(Buffer) \in {0, 1}
         /\ Tail(Buffer) \in Seq({0, 1}) /\ Len(Tail(Buffer)) <= WordBits
<1>1. Buffer \in Seq({0, 1}) /\ Buffer # <<>> /\ Len(Buffer) <= WordBits
  <2>1. ASSUME NEW wd \in Word
        PROVE  wd \in Seq({0, 1}) /\ Len(wd) = WordBits /\ wd # <<>>
    <3>1. WordBits \in Nat /\ WordBits >= 3
        BY WordBitsAssumption
    <3>2. wd \in Seq({0, 1}) /\ Len(wd) = WordBits
        BY <2>1, <3>1 DEF Word
    <3>3. Len(wd) # 0
        BY <3>1, <3>2
    <3> QED
        BY <3>2, <3>3
  <2>2. CASE ~Refill
      BY <2>2 DEF Bits, Buffer, Refill
  <2>3. CASE Refill /\ nread < Len(code)
    <3>1. nread + 1 \in 1 .. Len(code) /\ code \in Seq(Word)
        BY <2>3 DEF Bits
    <3>2. code[nread + 1] \in Word
        BY <3>1
    <3> QED
        BY <2>1, <2>3, <3>2, WordBitsAssumption DEF Buffer
  <2>4. CASE Refill /\ ~(nread < Len(code))
    <3>1. [i \in 1 .. WordBits |-> 0] \in Word
        BY DEF Word
    <3> QED
        BY <2>1, <2>4, <3>1, WordBitsAssumption DEF Buffer
  <2> QED
      BY <2>2, <2>3, <2>4
<1>2. /\ Head(Buffer) \in {0, 1} /\ Tail(Buffer) \in Seq({0, 1})
      /\ Len(Tail(Buffer)) = Len(Buffer) - 1
    BY <1>1, HeadTailProperties
<1>3. Len(Buffer) \in Nat /\ WordBits \in Nat
    BY <1>1, WordBitsAssumption
<1> QED
    BY <1>1, <1>2, <1>3

LEMMA TakesBit ==
  ASSUME Bits, io' = Tail(Buffer), TakeBuffer, UNCHANGED code,
         stage' \notin Coding \cup {"open", "encoded"}
  PROVE  Bits'
<1>1. nread \in Nat /\ Len(code) \in Nat /\ nread <= Len(code)
    BY DEF Bits
<1>2. nread' = nread \/ (nread < Len(code) /\ nread' = nread + 1)
    BY DEF TakeBuffer
<1>3. nread' \in 0 .. Len(code)
    BY ONLY <1>1, <1>2
<1>4. eof_in' \in BOOLEAN
    BY DEF Bits, TakeBuffer
<1> QED
    BY <1>3, <1>4, BufferFits DEF Bits

\* The WordBits bits of the code that the decoder starts with.
LEMMA FillWindowStep == ASSUME CodecInv, FillWindow PROVE CodecInv'
<1>1. /\ stage = "fill" /\ stage' \in {"fill", "decode"}
      /\ esym' = Shl(esym) + Head(Buffer)
      /\ io' = Tail(Buffer) /\ TakeBuffer
      /\ UNCHANGED <<ppm, input, pos, interval, cur, header, code, output, lost>>
    BY DEF FillWindow
<1>2. Learning'
  <2>1. IInv' /\ phase' = phase /\ scale' = scale
      BY <1>1, KeepModel DEF CodecInv, Learning
  <2> QED
      BY <1>1, <2>1 DEF CodecInv, Learning
<1>3. Place'
    BY <1>1 DEF CodecInv, Place, Stages, Decoding
<1>4. Interval'
  <2>1. low = 0 /\ high = Top /\ low' = 0 /\ high' = Top /\ underflow' = underflow
      BY <1>1 DEF CodecInv, Interval, interval
  <2>2. esym' \in 0 .. Top
    <3>1. Shl(esym) \in 0 .. Top - 1 /\ Head(Buffer) \in {0, 1}
        BY ShlFits, BufferFits DEF CodecInv, Interval
    <3> QED
        BY <1>1, <3>1, Registers
  <2>3. Wide'
      BY <2>1, Registers DEF Wide, range
  <2> QED
      BY <1>1, <2>1, <2>2, <2>3, Registers, Types DEF Interval
<1>5. Bits'
    BY <1>1, TakesBit DEF CodecInv, Coding
<1> QED
    BY <1>1, <1>2, <1>3, <1>4, <1>5, KeepOutput DEF CodecInv, output

\* dach_decode narrows the interval to the share that esym is in.
LEMMA DecodeNarrowStep == ASSUME CodecInv, DecodeNarrow PROVE CodecInv'
<1>1. /\ stage = "decode" /\ pos + 1 <= header /\ CanNarrow(Found) /\ Found # 0
      /\ low' = LowScale(Found) /\ high' = HighScale(Found)
      /\ cur' = Found /\ pos' = pos + 1 /\ stage' = "shift in"
      /\ UNCHANGED <<ppm, input, underflow, io, header, code, reader, output, lost>>
    BY DEF DecodeNarrow, Narrow, DecodeAsserts
<1>2. IInv /\ phase = "ready" /\ scale = SymCount - 1 + pos
    BY <1>1 DEF CodecInv, Learning
<1>3. low <= esym /\ esym <= high
    BY <1>1 DEF CodecInv, Interval, Decoding
<1>4. /\ Found \in Sym
      /\ LowScale(Found) <= esym /\ esym <= HighScale(Found)
    BY <1>2, <1>3, Types, TargetFits
<1>5. Found \in 1 .. SymCount - 2
  <2>1. Found <= SymCount - 2
      BY <1>1 DEF CanNarrow, StepAsserts
  <2> QED
      BY <1>4, <2>1, SymCountAssumption DEF Sym
<1>6. Learning'
  <2>1. IInv' /\ phase' = "ready" /\ scale' = scale
      BY <1>1, <1>2, KeepModel
  <2>2. scale' = SymCount - 1 + pos' - 1
    <3>1. /\ pos \in Nat /\ SymCount \in Nat /\ pos' = pos + 1
          /\ scale' = SymCount - 1 + pos
        BY <1>1, <1>2, <2>1, Types
    <3> QED
        BY ONLY <3>1
  <2> QED
      BY <1>1, <1>4, <1>5, <2>1, <2>2 DEF Learning
<1>7. Place'
  <2>1. pos' \in 0 .. Len(input)
    <3>1. /\ pos \in Nat /\ Len(input) \in Nat /\ pos + 1 <= header /\ pos' = pos + 1
          /\ header <= Len(input) /\ header \in Int
      <4>1. header \in 0 .. HdrLimit - 1 /\ header <= Len(input)
          BY DEF CodecInv, Place
      <4>2. header \in Int
          BY <4>1
      <4> QED
          BY <1>1, <4>1, <4>2, Types
    <3> QED
        BY ONLY <3>1
  <2> QED
      BY <1>1, <2>1 DEF CodecInv, Place, Stages, Decoding
<1>8. Interval'
  <2>1. /\ LowScale(Found) \in Nat /\ HighScale(Found) \in Int
        /\ HighScale(Found) <= high
      BY <1>2, <1>4, Types, ShareInside
  <2>2. low' \in 0 .. Top /\ high' \in 0 .. Top /\ low' <= esym /\ esym <= high'
    <3>1. /\ low' \in Nat /\ high' \in Int /\ high' <= high
          /\ high \in Nat /\ high <= Top /\ Top \in Nat /\ esym \in Nat
          /\ low' <= esym /\ esym <= high'
        BY <1>1, <1>4, <2>1, Types
    <3> QED
        BY ONLY <3>1
  <2>3. low' <= high'
      BY <2>2, Types, Registers
  <2> QED
      BY <1>1, <2>2, <2>3 DEF CodecInv, Interval, reader, Decoding
<1>9. Bits'
    BY <1>1, KeepBits DEF CodecInv, Coding
<1> QED
    BY <1>1, <1>6, <1>7, <1>8, <1>9, KeepOutput DEF CodecInv, output

\* The last byte of the file.
LEMMA DecodeLastStep == ASSUME CodecInv, DecodeLast PROVE CodecInv'
<1>1. /\ stage = "decode" /\ pos + 1 = header
      /\ chr' = sym_to_chr[Found] /\ stop' = TRUE
      /\ pos' = pos + 1 /\ stage' = "store"
      /\ UNCHANGED <<ppm, input, interval, cur, io, header, code, reader, outbuf, outfile, lost>>
    BY DEF DecodeLast
<1>2. IInv /\ phase = "ready"
    BY <1>1 DEF CodecInv, Learning
<1>3. Found \in Sym
    BY <1>1, <1>2, Types, TargetFits DEF CodecInv, Interval, Decoding
<1>4. Learning'
  <2>1. IInv' /\ phase' = "ready" /\ cur' \in Sym \cup {0}
      BY <1>1, <1>2, KeepModel DEF CodecInv, Learning
  <2> QED
      BY <1>1, <2>1 DEF Learning
<1>5. Place'
  <2>1. pos' \in 0 .. Len(input)
    <3>1. /\ pos \in Nat /\ Len(input) \in Nat /\ pos + 1 = header /\ pos' = pos + 1
          /\ header <= Len(input)
        BY <1>1, Types DEF CodecInv, Place
    <3> QED
        BY ONLY <3>1
  <2> QED
      BY <1>1, <2>1 DEF CodecInv, Place, Stages, Decoding
<1>6. Interval'
    BY <1>1, KeepInterval DEF CodecInv, Interval, Decoding, reader
<1>7. Bits'
    BY <1>1, KeepBits DEF CodecInv, Coding
<1>8. chr' \in Chr
    BY <1>1, <1>2, <1>3 DEF IInv, Bijective
<1> QED
    BY <1>1, <1>4, <1>5, <1>6, <1>7, <1>8 DEF CodecInv, Output

\* The normalisation loop of dach_decode, which shifts in a bit of the code.
LEMMA ShiftInStep == ASSUME CodecInv, ShiftIn PROVE CodecInv'
<1>1. /\ stage = "shift in" /\ ~Normal /\ ShiftInterval /\ stage' = stage
      /\ esym' = Shl(Flipped) + Head(Buffer)
      /\ io' = Tail(Buffer) /\ TakeBuffer
      /\ UNCHANGED <<ppm, input, stage, pos, underflow, cur, header, code, output, lost>>
    BY DEF ShiftIn
<1>2. Learning'
    BY <1>1, KeepModel DEF CodecInv, Learning
<1>3. Place'
    BY <1>1 DEF CodecInv, Place
<1>4. Interval'
  <2>1. low \in 0 .. Top /\ high \in 0 .. Top /\ low <= high /\ esym \in low .. high
    <3>1. /\ low \in 0 .. Top /\ high \in 0 .. Top /\ low <= high
          /\ low <= esym /\ esym <= high
        BY <1>1 DEF CodecInv, Interval, Decoding
    <3> QED
        BY <3>1, Types
  <2>2. Head(Buffer) \in {0, 1}
      BY BufferFits DEF CodecInv
  <2>3. /\ low' \in 0 .. Top /\ high' \in 0 .. Top /\ low' <= high'
        /\ \A e \in low .. high, b \in {0, 1} :
              LET flipped == IF ~Straddles THEN e
                             ELSE IF e % Half >= Quarter THEN e - Quarter
                             ELSE e + Quarter
              IN  Shl(flipped) + b \in low' .. high'
      BY <1>1, <2>1, ShiftKeepsOrder
  <2>4. esym' \in low' .. high'
      BY <1>1, <2>1, <2>2, <2>3 DEF Flipped
  <2>5. esym' \in 0 .. Top /\ low' <= esym' /\ esym' <= high'
      BY <2>3, <2>4, Registers
  <2> QED
      BY <1>1, <2>3, <2>5, Types DEF Interval, Decoding
<1>5. Bits'
    BY <1>1, TakesBit DEF CodecInv, Coding
<1> QED
    BY <1>1, <1>2, <1>3, <1>4, <1>5, KeepOutput DEF CodecInv, output

LEMMA DecodeLearnStep == ASSUME CodecInv, DecodeLearn PROVE CodecInv'
<1>1. /\ stage = "shift in" /\ Normal /\ UpdateBegin(cur) /\ stage' = "decoder learns"
      /\ chr' = sym_to_chr[cur]
      /\ UNCHANGED <<input, pos, interval, cur, io, header, code, reader,
                     stop, outbuf, outfile, lost>>
    BY DEF DecodeLearn
<1>2. IInv /\ cur \in 1 .. SymCount - 2
    BY <1>1 DEF CodecInv, Learning
<1>3. Learning'
  <2>1. IInv' /\ scale' = scale
      BY <1>1, <1>2, UpdateBeginIInv DEF UpdateBegin
  <2> QED
      BY <1>1, <2>1 DEF CodecInv, Learning
<1>4. Place'
    BY <1>1, KeepPlace DEF CodecInv, Stages, Decoding
<1>5. Interval'
  <2>1. Wide
      BY <1>1, Tests DEF CodecInv, Interval
  <2> QED
      BY <1>1, <2>1, KeepInterval DEF CodecInv, Decoding, reader
<1>6. Bits'
    BY <1>1, KeepBits DEF CodecInv, Coding
<1>7. chr' \in Chr
  <2>1. cur \in Sym
      BY <1>2, SymCountAssumption DEF Sym
  <2> QED
      BY <1>1, <1>2, <2>1 DEF IInv, Bijective
<1> QED
    BY <1>1, <1>3, <1>4, <1>5, <1>6, <1>7 DEF CodecInv, Output

LEMMA DecodeUpdateStep == ASSUME CodecInv, DecodeUpdate PROVE CodecInv'
<1>1. /\ stage = "decoder learns" /\ UpdateStep
      /\ stage' = IF phase' = "ready" THEN "store" ELSE stage
      /\ UNCHANGED <<input, pos, interval, cur, io, header, code, reader, output, lost>>
    BY DEF DecodeUpdate
<1>2. Learning'
  <2>1. /\ IInv'
        /\ phase' = "ready" => scale' = scale + 1
        /\ phase' # "ready" => scale' = scale
      BY <1>1, UpdateStepLearns DEF CodecInv, Learning
  <2>2. scale = SymCount - 1 + pos - 1
      BY <1>1 DEF CodecInv, Learning
  <2>3. pos \in Nat /\ SymCount \in Nat /\ pos' = pos /\ cur' = cur /\ cur \in Sym \cup {0}
      BY <1>1, Types DEF CodecInv, Learning
  <2>4. CASE phase' = "ready"
    <3>1. stage' = "store" /\ scale' = scale + 1
        BY <1>1, <2>1, <2>4
    <3>2. scale' = SymCount - 1 + pos'
        BY ONLY <2>2, <2>3, <3>1
    <3> QED
        BY <2>1, <2>3, <2>4, <3>1, <3>2 DEF Learning
  <2>5. CASE phase' # "ready"
    <3>1. stage' = "decoder learns" /\ scale' = scale
        BY <1>1, <2>1, <2>5
    <3>2. scale' = SymCount - 1 + pos' - 1
        BY ONLY <2>2, <2>3, <3>1
    <3> QED
        BY <2>1, <2>3, <2>5, <3>1, <3>2 DEF Learning
  <2> QED
      BY <2>4, <2>5
<1>3. Place'
    BY <1>1, KeepPlace DEF CodecInv, Stages, Decoding
<1>4. Interval'
    BY <1>1, KeepInterval DEF CodecInv, Decoding, Interval, reader
<1>5. Bits'
    BY <1>1, KeepBits DEF CodecInv, Coding
<1> QED
    BY <1>1, <1>2, <1>3, <1>4, <1>5, KeepOutput DEF CodecInv, output

\* What fwrite takes of a buffer is a matter of the file it ends up in.
LEMMA FlushFits == ASSUME NEW buf, lost \in Losses \cup {"nothing"}, Flush(buf)
                   PROVE  lost' \in Losses \cup {"nothing"}
BY DEF Flush

LEMMA StoreStep == ASSUME CodecInv, Store PROVE CodecInv'
<1>1. /\ stage = "store" /\ stage' = IF stop THEN "close" ELSE "decode"
      /\ UNCHANGED <<ppm, input, pos, interval, cur, io, header, code, reader, chr, stop>>
    BY DEF Store
<1>2. stop' = stop /\ stage' \in {"close", "decode"} /\ (stage' = "decode" => ~stop)
    BY <1>1
<1>3. Learning'
  <2>1. IInv' /\ phase' = phase /\ scale' = scale
      BY <1>1, KeepModel DEF CodecInv, Learning
  <2> QED
      BY <1>1, <1>2, <2>1 DEF CodecInv, Learning
<1>4. Place'
    BY <1>1, <1>2, KeepPlace DEF CodecInv, Stages, Decoding
<1>5. Interval'
    BY <1>1, <1>2, KeepInterval DEF CodecInv, Interval, Decoding, reader
<1>6. Bits'
    BY <1>1, <1>2, KeepBits DEF CodecInv, Coding
<1>7. Output'
  <2>1. outbuf \in Seq(Chr) /\ Len(outbuf) < MaxBuf /\ chr \in Chr /\ MaxBuf \in Nat \ {0}
        /\ lost \in Losses \cup {"nothing"} /\ stop \in BOOLEAN
      BY BoundsAssumption DEF CodecInv, Output
  <2> DEFINE buf == Append(outbuf, chr)
  <2>2. buf \in Seq(Chr) /\ Len(buf) = Len(outbuf) + 1 /\ Len(outbuf) \in Nat
      BY <2>1, AppendProperties
  <2>3. CASE Len(buf) = MaxBuf
    <3>1. Flush(buf) /\ outbuf' = <<>>
        BY <2>3 DEF Store
    <3>2. lost' \in Losses \cup {"nothing"}
        BY <2>1, <3>1, FlushFits
    <3>3. outbuf' \in Seq(Chr) /\ Len(outbuf') = 0
        BY <3>1
    <3> QED
        BY <1>1, <2>1, <3>2, <3>3 DEF Output
  <2>4. CASE Len(buf) # MaxBuf
    <3>1. outbuf' = buf /\ lost' = lost
        BY <2>4 DEF Store
    <3>2. Len(outbuf') < MaxBuf
      <4>1. Len(outbuf') = Len(outbuf) + 1 /\ Len(outbuf') # MaxBuf
          BY <2>2, <2>4, <3>1
      <4> QED
          BY <2>1, <2>2, <4>1
    <3> QED
        BY <1>1, <2>1, <2>2, <3>1, <3>2 DEF Output
  <2> QED
      BY <2>3, <2>4
<1> QED
    BY <1>3, <1>4, <1>5, <1>6, <1>7 DEF CodecInv

LEMMA CloseStep == ASSUME CodecInv, Close PROVE CodecInv'
<1>1. /\ stage = "close" /\ Flush(outbuf) /\ stage' = "done"
      /\ UNCHANGED <<ppm, input, pos, interval, cur, io, header, code, reader,
                     chr, stop, outbuf>>
    BY DEF Close
<1>2. Learning'
    BY <1>1, KeepModel DEF CodecInv, Learning
<1>3. Place'
    BY <1>1, KeepPlace DEF CodecInv, Stages, Final
<1>4. Interval'
    BY <1>1, KeepInterval DEF CodecInv, Decoding, reader
<1>5. Bits'
    BY <1>1, KeepBits DEF CodecInv, Coding
<1>6. Output'
    BY <1>1, FlushFits DEF CodecInv, Output
<1> QED
    BY <1>2, <1>3, <1>4, <1>5, <1>6 DEF CodecInv

-----------------------------------------------------------------------------
(* The invariant, and what it says *)

LEMMA InitCodecInv == Init => CodecInv
<1> SUFFICES ASSUME Init PROVE CodecInv
    OBVIOUS
<1>1. /\ PpmInit /\ input \in BoundedSeq(Byte, MaxLen) /\ stage = "open"
      /\ pos = 0 /\ low = 0 /\ high = Top /\ underflow = 0 /\ cur = 0
      /\ io = <<>> /\ header = 0 /\ code = <<>>
      /\ nread = 0 /\ eof_in = FALSE /\ esym = 0
      /\ chr = 0 /\ stop = FALSE /\ outbuf = <<>> /\ lost = "nothing"
    BY DEF Init
<1>2. Learning
  <2>1. IInv
      BY <1>1, InitIInv
  <2>2. phase = "ready" /\ scale = SymCount - 1
      BY <1>1 DEF PpmInit
  <2> QED
      BY <1>1, <2>1, <2>2, SymCountAssumption DEF Learning
<1>3. Place
  <2>1. input \in Seq(Byte) /\ Len(input) \in Nat
    <3>1. PICK n \in 0 .. MaxLen : input \in [1 .. n -> Byte]
        BY <1>1 DEF BoundedSeq, SeqOf
    <3>2. n \in Nat
        BY BoundsAssumption
    <3> QED
        BY <3>1, <3>2
  <2> QED
      BY <1>1, <2>1, BoundsAssumption DEF Place, Stages
<1>4. Interval
    BY <1>1, Registers DEF Interval, Decoding
<1>5. Bits
  <2>1. io \in Seq({0, 1}) /\ Len(io) = 0 /\ code \in Seq(Word) /\ Len(code) = 0
      BY <1>1
  <2>2. Len(io) <= WordBits /\ nread \in 0 .. Len(code)
      BY <1>1, <2>1, WordBitsAssumption
  <2> QED
      BY <1>1, <2>1, <2>2 DEF Bits
<1>6. Output
  <2>1. outbuf \in Seq(Chr) /\ Len(outbuf) = 0 /\ chr \in Chr
      BY <1>1, SymCountAssumption DEF Chr
  <2>2. Len(outbuf) < MaxBuf
      BY <2>1, BoundsAssumption
  <2> QED
      BY <1>1, <2>1, <2>2 DEF Output
<1> QED
    BY <1>2, <1>3, <1>4, <1>5, <1>6 DEF CodecInv

LEMMA StepCodecInv == CodecInv /\ [Next]_vars => CodecInv'
<1> SUFFICES ASSUME CodecInv, [Next]_vars PROVE CodecInv'
    OBVIOUS
<1>1. CASE Encoder
  <2>1. CASE OpenInput
      BY <2>1, OpenInputStep
  <2>2. CASE EncodeNarrow
      BY <2>2, EncodeNarrowStep
  <2>3. CASE EncodeExit
      BY <2>3, GivesUp DEF EncodeExit, Final
  <2>4. CASE ShiftOut \/ ShiftUnderflow
      BY <2>4, ShiftOutStep
  <2>5. CASE EncodeLearn
      BY <2>5, EncodeLearnStep
  <2>6. CASE EncodeUpdate
      BY <2>6, EncodeUpdateStep
  <2>7. CASE StopEncoder
      BY <2>7, StopEncoderStep
  <2> QED
      BY <1>1, <2>1, <2>2, <2>3, <2>4, <2>5, <2>6, <2>7 DEF Encoder
<1>2. CASE Decoder
  <2>1. CASE OpenCode
      BY <2>1, OpenCodeStep
  <2>2. CASE FillWindow
      BY <2>2, FillWindowStep
  <2>3. CASE DecodeNarrow
      BY <2>3, DecodeNarrowStep
  <2>4. CASE DecodeLast
      BY <2>4, DecodeLastStep
  <2>5. CASE DecodeExit
      BY <2>5, GivesUp DEF DecodeExit, Final
  <2>6. CASE ShiftIn
      BY <2>6, ShiftInStep
  <2>7. CASE ShiftInAborts
      BY <2>7, GivesUp DEF ShiftInAborts, Final
  <2>8. CASE DecodeLearn
      BY <2>8, DecodeLearnStep
  <2>9. CASE DecodeUpdate
      BY <2>9, DecodeUpdateStep
  <2>10. CASE Store
      BY <2>10, StoreStep
  <2>11. CASE Close
      BY <2>11, CloseStep
  <2> QED
      BY <1>2, <2>1, <2>2, <2>3, <2>4, <2>5, <2>6, <2>7, <2>8, <2>9, <2>10, <2>11
      DEF Decoder
<1>3. CASE LoseCode
    BY <1>3, LoseCodeStep
<1>4. CASE UNCHANGED vars
  <2>1. UNCHANGED <<ppm, input, stage, pos, interval, cur, io, header, code, reader, output, lost>>
      BY <1>4 DEF vars
  <2>2. Learning'
    <3>1. /\ IInv' /\ phase' = phase /\ scale' = scale
          /\ stage' = stage /\ cur' = cur /\ stop' = stop /\ pos' = pos
        BY <2>1, KeepModel DEF CodecInv, Learning, output
    <3> QED
        BY <3>1 DEF CodecInv, Learning
  <2>3. Place'
      BY <2>1 DEF CodecInv, Place
  <2>4. Interval'
      BY <2>1 DEF CodecInv, Interval, interval, reader, Wide, range
  <2>5. Bits'
      BY <2>1, KeepBits DEF CodecInv
  <2> QED
      BY <2>1, <2>2, <2>3, <2>4, <2>5, KeepOutput DEF CodecInv, output
<1> QED
    BY <1>1, <1>2, <1>3, <1>4 DEF Next, Terminated

\* Every reachable state satisfies the inductive invariant.
THEOREM CodecInvariance == Spec => []CodecInv
BY InitCodecInv, StepCodecInv, PTL DEF Spec

\* Registers stay in their width, buffers in their size, cursors in their arrays:
\* for every file, with the code of either cut off anywhere (dach_ar64.c).
THEOREM CodecTypesHold == Spec => []CodecTypeOK
<1>1. ASSUME CodecInv PROVE CodecTypeOK
  <2>1. TypeOK
      BY <1>1 DEF CodecInv, Learning, IInv
  <2>2. stage \in Final \cup {"open", "encode", "shift out", "encoder learns", "encoded",
                             "fill", "decode", "shift in", "decoder learns", "store", "close"}
      BY <1>1 DEF CodecInv, Place, Stages, Coding, Decoding
  <2>3. \A i \in DOMAIN code : code[i] \in [1 .. WordBits -> {0, 1}]
      BY <1>1 DEF CodecInv, Bits, Word
  <2> QED
      BY <1>1, <2>1, <2>2, <2>3
      DEF CodecInv, CodecTypeOK, Learning, Place, Interval, Bits, Output
<1> QED
    BY <1>1, CodecInvariance, PTL

\* The decoder's window on the code stays between low and high, whatever was lost
\* of the code and whatever is read in its place: the unsigned subtraction in
\* dach_decode never wraps and find_sym is always asked for a value it has.
THEOREM WindowStaysInside == Spec => []EsymInInterval
<1>1. CodecInv => EsymInInterval
    BY DEF CodecInv, Interval, EsymInInterval, Decoding
<1> QED
    BY <1>1, CodecInvariance, PTL

\* Between two symbols both directions have more than a quarter of the numbers to
\* divide among the next symbols, however many symbols they have coded.
THEOREM IntervalIsWide == Spec => []WideInterval
<1>1. CodecInv => WideInterval
    BY DEF CodecInv, Interval, WideInterval, Wide
<1> QED
    BY <1>1, CodecInvariance, PTL

-----------------------------------------------------------------------------
(* The code as an endless stream of bits *)

Stream == [Nat -> {0, 1}]

\* h[k] is the number that k bits of C make from position p on.
Reads(C, p, h) == h[0] = 0 /\ \A k \in 0 .. WordBits - 1 : h[k + 1] = 2 * h[k] + C[p + k]
Reading(C, p) == CHOOSE h \in [0 .. WordBits -> Nat] : Reads(C, p, h)

\* The numbers that the bits make exist, and are what they are defined to be.
LEMMA ReadingIs ==
  ASSUME NEW C \in Stream, NEW p \in Nat
  PROVE  Reading(C, p) \in [0 .. WordBits -> Nat] /\ Reads(C, p, Reading(C, p))
<1>1. WordBits \in Nat
    BY WordBitsAssumption
<1> DEFINE Upto(n, h) == h[0] = 0 /\ \A k \in 0 .. n - 1 : h[k + 1] = 2 * h[k] + C[p + k]
           G == {n \in Nat : n <= WordBits => \E h \in [0 .. WordBits -> Nat] : Upto(n, h)}
<1>2. 0 \in G
  <2>1. [k \in 0 .. WordBits |-> 0] \in [0 .. WordBits -> Nat]
      OBVIOUS
  <2>2. Upto(0, [k \in 0 .. WordBits |-> 0])
      BY <1>1
  <2> QED
      BY <2>1, <2>2
<1>3. ASSUME NEW n \in Nat, n \in G PROVE n + 1 \in G
  <2> SUFFICES ASSUME n + 1 <= WordBits
               PROVE  \E h \in [0 .. WordBits -> Nat] : Upto(n + 1, h)
      OBVIOUS
  <2>1. PICK h \in [0 .. WordBits -> Nat] : Upto(n, h)
      BY <1>1, <1>3
  <2> DEFINE g == [h EXCEPT ![n + 1] = 2 * h[n] + C[p + n]]
  <2>2. C[p + n] \in {0, 1}
      BY DEF Stream
  <2>3. g \in [0 .. WordBits -> Nat]
      BY <1>1, <2>2
  <2>4. /\ g[n + 1] = 2 * h[n] + C[p + n]
        /\ \A k \in 0 .. n : g[k] = h[k]
      BY <1>1
  <2>5. g[0] = 0
      BY <2>1, <2>4
  <2>6. ASSUME NEW k \in 0 .. n + 1 - 1 PROVE g[k + 1] = 2 * g[k] + C[p + k]
    <3>1. CASE k = n
        BY <2>4, <3>1
    <3>2. CASE k # n
      <4>1. k \in 0 .. n - 1 /\ k + 1 \in 0 .. n /\ k \in 0 .. n
          BY <3>2
      <4> QED
          BY <2>1, <2>4, <4>1
    <3> QED
        BY <3>1, <3>2
  <2>7. Upto(n + 1, g)
      BY <2>5, <2>6
  <2> HIDE DEF g, Upto
  <2> QED
      BY <2>3, <2>7
<1> HIDE DEF G
<1>4. WordBits \in G
    BY <1>1, <1>2, <1>3, Inductive
<1>5. \E h \in [0 .. WordBits -> Nat] : Reads(C, p, h)
    BY <1>1, <1>4 DEF G, Reads
<1> QED
    BY <1>5 DEF Reading

\* One more bit.
LEMMA ReadingNext ==
  ASSUME NEW C \in Stream, NEW p \in Nat, NEW k \in 0 .. WordBits - 1, NEW j, j = k + 1
  PROVE  /\ Reading(C, p)[0] = 0
         /\ Reading(C, p)[k] \in Nat /\ Reading(C, p)[j] \in Nat
         /\ Reading(C, p)[j] = 2 * Reading(C, p)[k] + C[p + k]
         /\ C[p + k] \in {0, 1}
<1>1. WordBits \in Nat /\ k \in 0 .. WordBits /\ j \in 0 .. WordBits /\ p + k \in Nat
    BY WordBitsAssumption
<1> QED
    BY <1>1, ReadingIs DEF Reads, Stream

\* The next power of two.
LEMMA Power == ASSUME NEW k \in 0 .. WordBits - 1, NEW j, j = k + 1
               PROVE  2 ^ k \in Nat /\ 2 ^ j \in Nat /\ 2 ^ j = 2 * 2 ^ k
<1>1. 2 ^ k \in Nat /\ 2 ^ (k + 1) = 2 * 2 ^ k
    BY PowersAssumption
<1> QED
    BY <1>1

\* Bits that come earlier count for more.
LEMMA ReadingSplits ==
  ASSUME NEW C \in Stream, NEW p \in Nat, NEW q, q = p + 1
  PROVE  \A k \in 0 .. WordBits - 1 :
            /\ Reading(C, q)[k] \in Nat /\ Reading(C, q)[k] < 2 ^ k /\ 2 ^ k \in Nat
            /\ Reading(C, p)[k + 1] = (IF C[p] = 1 THEN 2 ^ k ELSE 0) + Reading(C, q)[k]
<1>1. WordBits \in Nat \ {0} /\ q \in Nat /\ C[p] \in {0, 1}
    BY WordBitsAssumption DEF Stream
<1> DEFINE Split(k) ==
              /\ Reading(C, q)[k] \in Nat /\ Reading(C, q)[k] < 2 ^ k /\ 2 ^ k \in Nat
              /\ Reading(C, p)[k + 1] = (IF C[p] = 1 THEN 2 ^ k ELSE 0) + Reading(C, q)[k]
           G == {k \in Nat : k <= WordBits - 1 => Split(k)}
<1>2. 0 \in G
  <2>1. Reading(C, p)[1] = 2 * Reading(C, p)[0] + C[p + 0] /\ Reading(C, p)[0] = 0
    <3>1. 0 \in 0 .. WordBits - 1 /\ 1 = 0 + 1
        BY <1>1
    <3> QED
        BY <1>1, <3>1, ReadingNext
  <2>2. Reading(C, q)[0] = 0
      BY <1>1, ReadingIs DEF Reads
  <2>3. 2 ^ 0 = 1
      OBVIOUS
  <2> QED
      BY <1>1, <2>1, <2>2, <2>3
<1>3. ASSUME NEW k \in Nat, k \in G PROVE k + 1 \in G
  <2> SUFFICES ASSUME k + 1 <= WordBits - 1 PROVE Split(k + 1)
      OBVIOUS
  <2> DEFINE j == k + 1
             i == j + 1
  <2>1. Split(k) /\ k \in 0 .. WordBits - 1 /\ j \in 0 .. WordBits - 1
      BY <1>1, <1>3
  <2>2. /\ Reading(C, q)[j] = 2 * Reading(C, q)[k] + C[q + k] /\ C[q + k] \in {0, 1}
        /\ Reading(C, q)[j] \in Nat
      BY <1>1, <2>1, ReadingNext
  <2>3. Reading(C, p)[i] = 2 * Reading(C, p)[j] + C[p + j]
      BY <1>1, <2>1, ReadingNext
  <2>4. 2 ^ j = 2 * 2 ^ k /\ 2 ^ j \in Nat /\ 2 ^ k \in Nat
      BY <2>1, Power
  <2>5. p + j = q + k /\ i = k + 1 + 1
      BY <1>1
  <2>6. Reading(C, p)[j] = (IF C[p] = 1 THEN 2 ^ k ELSE 0) + Reading(C, q)[k]
      BY <2>1
  <2>7. /\ Reading(C, q)[k] \in Nat /\ Reading(C, q)[k] < 2 ^ k
      BY <2>1
  <2>8. Reading(C, p)[i] = 2 * Reading(C, p)[j] + C[q + k]
      BY <2>3, <2>5
  <2> HIDE DEF j, i
  <2>9. Reading(C, q)[j] < 2 ^ j
      BY <2>2, <2>4, <2>7
  <2>10. Reading(C, p)[i] = (IF C[p] = 1 THEN 2 ^ j ELSE 0) + Reading(C, q)[j]
      BY <1>1, <2>2, <2>4, <2>6, <2>7, <2>8
  <2> QED
      BY <2>2, <2>4, <2>9, <2>10 DEF j, i
<1> HIDE DEF G
<1>4. \A k \in Nat : k \in G
    BY <1>2, <1>3, Inductive
<1> QED
    BY <1>4 DEF G

\* A run of zeros counts for nothing.
LEMMA ReadingZeros ==
  ASSUME NEW C \in Stream, NEW p \in Nat, \A k \in Nat : C[p + k] = 0
  PROVE  \A k \in 0 .. WordBits : Reading(C, p)[k] = 0
<1>1. WordBits \in Nat
    BY WordBitsAssumption
<1> DEFINE G == {k \in Nat : k <= WordBits => Reading(C, p)[k] = 0}
<1>2. 0 \in G
    BY ReadingIs DEF Reads
<1>3. ASSUME NEW k \in Nat, k \in G PROVE k + 1 \in G
  <2> SUFFICES ASSUME k + 1 <= WordBits PROVE Reading(C, p)[k + 1] = 0
      OBVIOUS
  <2> DEFINE j == k + 1
  <2>1. k \in 0 .. WordBits - 1 /\ Reading(C, p)[k] = 0
      BY <1>1, <1>3
  <2>2. Reading(C, p)[j] = 2 * Reading(C, p)[k] + C[p + k]
      BY <2>1, ReadingNext
  <2> QED
      BY <2>1, <2>2
<1> HIDE DEF G
<1>4. \A k \in Nat : k \in G
    BY <1>2, <1>3, Inductive
<1> QED
    BY <1>1, <1>4 DEF G

\* The WordBits - 1 bits from position p on.
Rest(C, p) == Reading(C, p)[WordBits - 1]

\* One place on: the first bit goes and another one comes.
LEMMA RestSlides ==
  ASSUME NEW C \in Stream, NEW p \in Nat, NEW q, q = p + 1
  PROVE  /\ Rest(C, p) \in Nat /\ Rest(C, p) < Half
         /\ C[p] \in {0, 1} /\ C[p + WordBits - 1] \in {0, 1}
         /\ C[p] = 0 => /\ Rest(C, p) < Quarter
                        /\ Rest(C, q) = 2 * Rest(C, p) + C[p + WordBits - 1]
         /\ C[p] = 1 => /\ Quarter <= Rest(C, p)
                        /\ Rest(C, q) = 2 * (Rest(C, p) - Quarter) + C[p + WordBits - 1]
         /\ Reading(C, p)[WordBits] = (IF C[p] = 1 THEN Half ELSE 0) + Rest(C, q)
<1> DEFINE k == WordBits - 2
           j == WordBits - 1
<1>1. /\ WordBits \in Nat /\ k \in 0 .. WordBits - 1 /\ j \in 0 .. WordBits - 1
      /\ j = k + 1 /\ WordBits = j + 1 /\ q \in Nat
      /\ p + WordBits - 1 = p + j
    BY WordBitsAssumption
<1>2. C[p] \in {0, 1} /\ C[p + j] \in {0, 1}
  <2>1. p + j \in Nat
      BY <1>1
  <2> QED
      BY <2>1 DEF Stream
<1>3. 2 ^ k = Quarter /\ 2 ^ j = Half
  <2>1. 2 ^ j = 2 * 2 ^ k
      BY <1>1, Power
  <2>2. 2 ^ k = Quarter
      BY DEF Quarter
  <2> QED
      BY <2>1, <2>2 DEF Half
<1>8. Rest(C, p) = Reading(C, p)[j] /\ Rest(C, q) = Reading(C, q)[j]
    BY DEF Rest
<1> HIDE DEF k, j
<1>4. /\ Reading(C, q)[k] \in Nat /\ Reading(C, q)[k] < 2 ^ k
      /\ Reading(C, p)[k + 1] = (IF C[p] = 1 THEN 2 ^ k ELSE 0) + Reading(C, q)[k]
    BY <1>1, ReadingSplits
<1>5. /\ Reading(C, q)[j] \in Nat /\ Reading(C, q)[j] < 2 ^ j
      /\ Reading(C, p)[j + 1] = (IF C[p] = 1 THEN 2 ^ j ELSE 0) + Reading(C, q)[j]
    BY <1>1, ReadingSplits
<1>6. Reading(C, q)[j] = 2 * Reading(C, q)[k] + C[q + k]
    BY <1>1, ReadingNext
<1>7. q + k = p + j
    BY <1>1
<1>9. Reading(C, p)[WordBits] = (IF C[p] = 1 THEN Half ELSE 0) + Rest(C, q)
    BY <1>1, <1>3, <1>5, <1>8
<1>10. Reading(C, p)[j] = (IF C[p] = 1 THEN Quarter ELSE 0) + Reading(C, q)[k]
    BY <1>1, <1>3, <1>4
<1>11. Rest(C, q) = 2 * Reading(C, q)[k] + C[p + j]
    BY <1>6, <1>7, <1>8
<1>12. C[p + WordBits - 1] = C[p + j]
    BY <1>1
<1> DEFINE r == Reading(C, q)[k]
           s == Rest(C, p)
           c == C[p + j]
<1>13. r \in Nat /\ r < Quarter /\ s = (IF C[p] = 1 THEN Quarter ELSE 0) + r
       /\ Rest(C, q) = 2 * r + c
    BY <1>3, <1>4, <1>8, <1>10, <1>11
<1> HIDE DEF r, s
<1>14. /\ s \in Nat /\ s < Half
       /\ C[p] = 0 => s < Quarter /\ 2 * r + c = 2 * s + c
       /\ C[p] = 1 => Quarter <= s /\ 2 * r + c = 2 * (s - Quarter) + c
    BY <1>2, <1>13, Registers
<1> QED
    BY <1>2, <1>9, <1>12, <1>13, <1>14 DEF s

\* What the decoder sees of C when n bits of the code are decided and u more are
\* only known to differ from the next: the next bit, then the rest after those u.
Window(C, n, u) == (IF C[n] = 1 THEN Half ELSE 0) + Rest(C, n + u + 1)

\* The bits between those are the opposite of the one in front.
Held(C, n, u) == \A i \in 1 .. u : C[n + i] = 1 - C[n]

\* A window is a number of the register.
LEMMA WindowFits ==
  ASSUME NEW C \in Stream, NEW n \in Nat, NEW u \in Nat
  PROVE  /\ Window(C, n, u) \in 0 .. Top /\ C[n] \in {0, 1}
         /\ C[n + u + WordBits] \in {0, 1}
         /\ C[n] = 1 <=> Half <= Window(C, n, u)
         /\ C[n] = 0 <=> Window(C, n, u) < Half
<1> DEFINE p == n + u + 1
           q == p + 1
<1>1. p \in Nat /\ p + WordBits - 1 = n + u + WordBits
    BY WordBitsAssumption
<1>2. /\ Rest(C, p) \in Nat /\ Rest(C, p) < Half /\ C[p + WordBits - 1] \in {0, 1}
    BY <1>1, RestSlides
<1>3. C[n] \in {0, 1}
    BY DEF Stream
<1>4. C[n + u + WordBits] \in {0, 1}
    BY <1>1, <1>2
<1> HIDE DEF p
<1>5. Window(C, n, u) = (IF C[n] = 1 THEN Half ELSE 0) + Rest(C, p)
    BY DEF Window, p
<1> QED
    BY <1>2, <1>3, <1>4, <1>5, Registers

\* How the window changes when the coder shifts out the bits that are decided.
LEMMA WindowAfterBit ==
  ASSUME NEW C \in Stream, NEW n \in Nat, NEW u \in Nat
  PROVE  Window(C, n + u + 1, 0) = 2 * (Window(C, n, u) - (IF C[n] = 1 THEN Half ELSE 0))
                                      + C[n + u + WordBits]
<1> DEFINE p == n + u + 1
           q == p + 1
<1>1. p \in Nat /\ p + WordBits - 1 = n + u + WordBits /\ p + 0 + 1 = q
    BY WordBitsAssumption
<1>2. /\ Rest(C, p) \in Nat
      /\ C[p] \in {0, 1} /\ C[p + WordBits - 1] \in {0, 1}
      /\ C[p] = 0 => Rest(C, q) = 2 * Rest(C, p) + C[p + WordBits - 1]
      /\ C[p] = 1 => Rest(C, q) = 2 * (Rest(C, p) - Quarter) + C[p + WordBits - 1]
    BY <1>1, RestSlides
<1>3. Window(C, n, u) = (IF C[n] = 1 THEN Half ELSE 0) + Rest(C, p)
    BY DEF Window
<1>4. Window(C, p, 0) = (IF C[p] = 1 THEN Half ELSE 0) + Rest(C, q)
    BY <1>1 DEF Window
<1> HIDE DEF p, q
<1> DEFINE c == C[n + u + WordBits]
           r == Rest(C, p)
           b == IF C[n] = 1 THEN Half ELSE 0
<1>5. c = C[p + WordBits - 1] /\ c \in {0, 1} /\ b \in Nat
    BY <1>1, <1>2, Registers
<1>6. Window(C, n, u) = b + r
    BY <1>3
<1>7. Window(C, p, 0) = 2 * r + c
  <2>1. CASE C[p] = 0
      BY <1>2, <1>4, <1>5, <2>1, Registers
  <2>2. CASE C[p] = 1
      BY <1>2, <1>4, <1>5, <2>2, Registers
  <2> QED
      BY <1>2, <2>1, <2>2
<1> HIDE DEF c, b, r
<1>8. r \in Nat
    BY <1>2 DEF r
<1>9. Window(C, p, 0) = 2 * (Window(C, n, u) - b) + c
    BY <1>5, <1>6, <1>7, <1>8
<1> QED
    BY <1>9 DEF c, b, p

\* How it changes when one more bit is held back, and that the window tells it.
LEMMA WindowAfterHolding ==
  ASSUME NEW C \in Stream, NEW n \in Nat, NEW u \in Nat
  PROVE  /\ C[n + u + 1] = 1 - C[n] =>
               Window(C, n, u + 1) = 2 * (Window(C, n, u) - Quarter) + C[n + u + WordBits]
         /\ Quarter <= Window(C, n, u) /\ Window(C, n, u) < Half + Quarter
               => C[n + u + 1] = 1 - C[n]
<1> DEFINE p == n + u + 1
           q == p + 1
<1>1. p \in Nat /\ p + WordBits - 1 = n + u + WordBits /\ n + (u + 1) + 1 = q
    BY WordBitsAssumption
<1>2. /\ Rest(C, p) \in Nat /\ Rest(C, p) < Half
      /\ C[p] \in {0, 1} /\ C[p + WordBits - 1] \in {0, 1}
      /\ C[p] = 0 => /\ Rest(C, p) < Quarter
                     /\ Rest(C, q) = 2 * Rest(C, p) + C[p + WordBits - 1]
      /\ C[p] = 1 => /\ Quarter <= Rest(C, p)
                     /\ Rest(C, q) = 2 * (Rest(C, p) - Quarter) + C[p + WordBits - 1]
    BY <1>1, RestSlides
<1>3. Window(C, n, u) = (IF C[n] = 1 THEN Half ELSE 0) + Rest(C, p)
    BY DEF Window
<1>4. Window(C, n, u + 1) = (IF C[n] = 1 THEN Half ELSE 0) + Rest(C, q)
    BY <1>1 DEF Window
<1>5. C[n] \in {0, 1}
    BY DEF Stream
<1>6. C[n + u + WordBits] = C[p + WordBits - 1]
    BY <1>1
<1> HIDE DEF q
<1> DEFINE c == C[n + u + WordBits]
           r == Rest(C, p)
           d == C[p]
           w == Window(C, n, u)
           v == Window(C, n, u + 1)
           b == C[n]
<1>7. /\ c \in {0, 1} /\ b \in {0, 1} /\ d \in {0, 1} /\ r \in Nat
      /\ w = (IF b = 1 THEN Half ELSE 0) + r
      /\ d = 0 => r < Quarter /\ v = (IF b = 1 THEN Half ELSE 0) + 2 * r + c
      /\ d = 1 => /\ Quarter <= r
                  /\ v = (IF b = 1 THEN Half ELSE 0) + 2 * (r - Quarter) + c
    BY <1>2, <1>3, <1>4, <1>5, <1>6, Registers
<1> HIDE DEF c, r, d, w, v, b
<1>8. /\ d = 1 - b => v = 2 * (w - Quarter) + c
      /\ Quarter <= w /\ w < Half + Quarter => d = 1 - b
    BY <1>7, Registers
<1> QED
    BY <1>8 DEF c, d, w, v, b

-----------------------------------------------------------------------------
(* The bits that a writer has put out *)

\* How many bits n words have.
Span(n) == n * WordBits

\* The bits of some words and of some more.
LEMMA SpanAdds == ASSUME NEW a \in Nat, NEW b \in Nat
                  PROVE  /\ Span(a) \in Nat /\ Span(a + b) = Span(a) + Span(b)
                         /\ Span(a + 1) = Span(a) + WordBits /\ Span(0) = 0
                         /\ Span(a) = WordBits * a /\ Span(a) = a * WordBits
<1>1. WordBits \in Nat
    BY WordBitsAssumption
<1>2. /\ WordBits * (a + b) = WordBits * a + WordBits * b
      /\ WordBits * (a + 1) = WordBits * a + WordBits * 1
      /\ WordBits * a \in Nat /\ WordBits * 1 = WordBits
    BY <1>1, Distributes
<1>3. /\ (a + b) * WordBits = WordBits * (a + b) /\ (a + 1) * WordBits = WordBits * (a + 1)
      /\ a * WordBits = WordBits * a /\ b * WordBits = WordBits * b
      /\ 0 * WordBits = 0
    BY <1>1, Distributes
<1> QED
    BY <1>2, <1>3 DEF Span

\* More words have more bits.
LEMMA SpanMono == ASSUME NEW a \in Nat, NEW b \in Nat
                  PROVE  /\ a <= b => Span(a) <= Span(b)
                         /\ a < b => Span(a) + WordBits <= Span(b)
<1>1. WordBits \in Nat
    BY WordBitsAssumption
<1>2. ASSUME a <= b PROVE Span(a) <= Span(b)
  <2> DEFINE d == b - a
  <2>1. d \in Nat /\ b = a + d
      BY <1>2
  <2> HIDE DEF d
  <2>2. Span(a + d) = Span(a) + Span(d) /\ Span(a) \in Nat /\ Span(d) \in Nat
      BY <2>1, SpanAdds
  <2> QED
      BY <2>1, <2>2
<1>3. ASSUME a < b PROVE Span(a) + WordBits <= Span(b)
  <2> DEFINE d == b - a - 1
             a1 == a + 1
  <2>1. d \in Nat /\ b = a1 + d /\ a1 \in Nat
      BY <1>3
  <2>2. Span(a1) = Span(a) + WordBits
      BY SpanAdds
  <2> HIDE DEF d, a1
  <2>3. Span(a1 + d) = Span(a1) + Span(d) /\ Span(a1) \in Nat /\ Span(d) \in Nat
      BY <2>1, SpanAdds
  <2> QED
      BY <2>1, <2>2, <2>3
<1> QED
    BY <1>2, <1>3

\* Every position is in one word, at one place.
LEMMA SpanPlace == ASSUME NEW x \in Nat
                   PROVE  \E k \in Nat, i \in 1 .. WordBits : x = Span(k) + i - 1 /\ k = x \div WordBits
<1>1. WordBits \in Nat \ {0}
    BY WordBitsAssumption
<1> DEFINE k == x \div WordBits
           i == x - Span(k) + 1
<1>2. k \in Nat /\ WordBits * k <= x /\ x < WordBits * k + WordBits
    BY <1>1, DivMod, DivBounds
<1> HIDE DEF k
<1>3. Span(k) = WordBits * k /\ Span(k) \in Nat
    BY <1>2, SpanAdds
<1>4. i \in 1 .. WordBits /\ x = Span(k) + i - 1
    BY <1>1, <1>2, <1>3
<1> QED
    BY <1>2, <1>4 DEF k

\* Whose bit the i-th one behind k words is: nobody else's.
LEMMA SpanDiv == ASSUME NEW k \in Nat, NEW i \in 1 .. WordBits, NEW x, x = Span(k) + i - 1
                 PROVE  x \in Nat /\ x \div WordBits = k
<1>1. WordBits \in Nat \ {0}
    BY WordBitsAssumption
<1>2. Span(k) = WordBits * k /\ Span(k) \in Nat
    BY SpanAdds
<1>3. x \in Nat /\ WordBits * k <= x /\ x < WordBits * k + WordBits
    BY <1>1, <1>2
<1>4. k <= x \div WordBits /\ x \div WordBits <= k /\ x \div WordBits \in Nat
    BY <1>1, <1>3, DivAtLeast, DivAtMost, DivMod
<1> QED
    BY <1>3, <1>4

\* The stream C begins with what the writer w has put out.
Count(w) == Span(Len(w.code)) + Len(w.io)
CarriesCode(C, words) == \A k \in 1 .. Len(words), i \in 1 .. WordBits :
                            C[Span(k - 1) + i - 1] = words[k][i]
Carries(C, w) == /\ CarriesCode(C, w.code)
                 /\ \A i \in 1 .. Len(w.io) : C[Span(Len(w.code)) + i - 1] = w.io[i]

IsWriter(w) == w.io \in Seq({0, 1}) /\ w.code \in Seq(Word)

\* dach_bitout loses no bit and invents none: a stream carries what the writer
\* has afterwards if it carried what it had and goes on with the new bits.
LEMMA BitOutCarries ==
  ASSUME NEW w, IsWriter(w), NEW bits \in Seq({0, 1}), bits # <<>>,
         NEW C, Carries(C, BitOut(w, bits))
  PROVE  /\ Carries(C, w)
         /\ \A i \in 1 .. Len(bits) : C[Count(w) + i - 1] = bits[i]
<1> DEFINE all == w.io \o bits
           n == Len(all)
           words == (n - 1) \div WordBits
           rest == SubSeq(all, words * WordBits + 1, n)
           Cut(k) == SubSeq(all, (k - 1) * WordBits + 1, k * WordBits)
           cuts == [k \in 1 .. words |-> Cut(k)]
           m == Len(w.code)
           next == w.code \o cuts
<1>1. /\ all \in Seq({0, 1}) /\ n \in Nat \ {0} /\ n = Len(w.io) + Len(bits)
      /\ Len(w.io) \in Nat /\ Len(bits) \in Nat
      /\ \A i \in 1 .. Len(w.io) : all[i] = w.io[i]
      /\ \A i \in 1 .. Len(bits) : all[Len(w.io) + i] = bits[i]
  <2>1. Len(bits) \in Nat \ {0} /\ w.io \in Seq({0, 1})
      BY EmptySeq DEF IsWriter
  <2> QED
      BY <2>1, ConcatElements
<1>2. WordBits \in Nat \ {0} /\ m \in Nat /\ w.code \in Seq(Word)
    BY WordBitsAssumption DEF IsWriter
<1>3. BitOut(w, bits).io = rest /\ BitOut(w, bits).code = next
    BY DEF BitOut, all, words
<1> HIDE DEF all
<1>4. words \in Nat /\ Span(words) <= n - 1 /\ n - 1 < Span(words) + WordBits
      /\ Span(words) = words * WordBits /\ Span(words) \in Nat
  <2>1. n - 1 \in Nat
      BY <1>1
  <2> HIDE DEF n
  <2>2. words \in Nat /\ WordBits * words <= n - 1 /\ n - 1 < WordBits * words + WordBits
      BY <1>2, <2>1, DivMod, DivBounds
  <2> HIDE DEF words
  <2> QED
      BY <2>2, SpanAdds
<1> HIDE DEF words
<1>5. /\ Len(next) = m + words /\ \A k \in 1 .. m : next[k] = w.code[k]
      /\ \A k \in 1 .. words : next[m + k] = Cut(k)
  <2>1. /\ w.code \in Seq(Word) /\ \A k \in 1 .. words : Cut(k) \in Seq({0, 1})
    <3> SUFFICES ASSUME NEW k \in 1 .. words PROVE Cut(k) \in Seq({0, 1})
        BY <1>2
    <3>2. k - 1 \in Nat /\ k \in Nat /\ k <= words
        BY <1>4
    <3>1. Span(k) <= Span(words) /\ Span(k) = k * WordBits /\ Span(k) \in Nat
        BY <1>4, <3>2, SpanMono, SpanAdds
    <3>3. Span(k - 1) = (k - 1) * WordBits /\ Span(k - 1) \in Nat
        BY <3>2, SpanAdds
    <3> DEFINE a == (k - 1) * WordBits + 1
               b == k * WordBits
    <3>4. a \in 1 .. a /\ a \in Nat /\ b \in Nat /\ b <= n
        BY <1>1, <1>4, <3>1, <3>3
    <3> HIDE DEF a, b
    <3>5. \A i \in a .. b : all[i] \in {0, 1}
        BY <1>1, <3>4
    <3>6. SubSeq(all, a, b) \in Seq({0, 1})
        BY <3>4, <3>5, SubSeqProperties
    <3> QED
        BY <3>6 DEF a, b
  <2>2. w.code \in Seq(Word \cup Seq({0, 1})) /\ cuts \in Seq(Word \cup Seq({0, 1}))
        /\ Len(cuts) = words
    <3>1. cuts \in [1 .. words -> Word \cup Seq({0, 1})]
        BY <2>1
    <3>2. cuts \in Seq(Word \cup Seq({0, 1})) /\ Len(cuts) = words
        BY <1>4, <3>1, FunctionIsSeq
    <3>3. w.code \in Seq(Word \cup Seq({0, 1}))
        BY <2>1
    <3> QED
        BY <3>2, <3>3
  <2> DEFINE T == Word \cup Seq({0, 1})
  <2>5. \A k \in 1 .. words : cuts[k] = Cut(k)
      OBVIOUS
  <2> HIDE DEF T, cuts, Cut
  <2>3. w.code \in Seq(T) /\ cuts \in Seq(T)
      BY <2>2 DEF T
  <2>4. /\ Len(next) = m + Len(cuts) /\ \A k \in 1 .. m : next[k] = w.code[k]
        /\ \A k \in 1 .. Len(cuts) : next[m + k] = cuts[k]
      BY <2>3, ConcatElements
  <2> HIDE DEF next
  <2> QED
      BY <2>2, <2>4, <2>5
<1> HIDE DEF next
<1>6. /\ \A k \in 1 .. Len(next), i \in 1 .. WordBits : C[Span(k - 1) + i - 1] = next[k][i]
      /\ \A i \in 1 .. Len(rest) : C[Span(Len(next)) + i - 1] = rest[i]
    BY <1>3 DEF Carries, CarriesCode
<1>7. CarriesCode(C, w.code)
  <2> SUFFICES ASSUME NEW k \in 1 .. m, NEW i \in 1 .. WordBits
               PROVE  C[Span(k - 1) + i - 1] = w.code[k][i]
      BY DEF CarriesCode
  <2>1. k \in 1 .. Len(next)
      BY <1>2, <1>4, <1>5
  <2>2. C[Span(k - 1) + i - 1] = next[k][i] /\ next[k] = w.code[k]
      BY <1>5, <1>6, <2>1
  <2> QED
      BY <2>2
<1>8. ASSUME NEW x \in 1 .. n PROVE C[Span(m) + x - 1] = all[x]
  <2>1. CASE x <= Span(words)
    <3>1. x - 1 \in Nat
        BY <1>1
    <3>2. PICK j \in Nat, i \in 1 .. WordBits : x - 1 = Span(j) + i - 1
        BY <3>1, SpanPlace
    <3> DEFINE k == j + 1
               mk == m + k
    <3>3. k \in Nat /\ k <= words
      <4> SUFFICES ASSUME words <= j PROVE FALSE
          BY <1>4
      <4>1. Span(words) <= Span(j) /\ Span(j) \in Nat
          BY <1>4, SpanMono, SpanAdds
      <4> QED
          BY <1>2, <1>4, <2>1, <3>2, <4>1
    <3>4. next[mk] = Cut(k) /\ mk \in 1 .. Len(next) /\ mk - 1 = m + j
      <4>1. k \in 1 .. words
          BY <3>3
      <4>2. next[m + k] = Cut(k)
          BY <1>5, <4>1
      <4>3. m \in Nat /\ words \in Nat /\ Len(next) = m + words /\ j \in Nat /\ k = j + 1
          BY <1>2, <1>4, <1>5
      <4> HIDE DEF Cut, k, m
      <4>4. m + k \in 1 .. Len(next) /\ m + k - 1 = m + j
          BY ONLY <4>1, <4>3
      <4>5. next[mk] = Cut(k)
          BY <4>2
      <4>6. mk \in 1 .. Len(next)
          BY <4>4
      <4>7. mk - 1 = m + j
        <5> HIDE DEF mk
        <5>1. mk = m + k
            BY DEF mk
        <5> QED
            BY ONLY <4>3, <5>1
      <4> QED
          BY <4>5, <4>6, <4>7
    <3>5. C[Span(m + j) + i - 1] = next[mk][i]
        BY <1>6, <3>4
    <3>6. Span(m + j) = Span(m) + Span(j) /\ Span(m) \in Nat /\ Span(j) \in Nat
        BY <1>2, SpanAdds
    <3>7. Cut(k)[i] = all[x]
      <4>1. /\ Span(j) = (k - 1) * WordBits /\ Span(j) \in Nat
            /\ Span(k) = k * WordBits /\ Span(k) = Span(j) + WordBits
        <5>1. Span(j) = j * WordBits /\ Span(j) \in Nat /\ Span(j + 1) = Span(j) + WordBits
            BY SpanAdds
        <5>2. Span(k) = k * WordBits
            BY <3>3, SpanAdds
        <5>3. k - 1 = j
            OBVIOUS
        <5> QED
            BY <5>1, <5>2, <5>3
      <4>2. Span(k) <= Span(words)
          BY <1>4, <3>3, SpanMono
      <4> DEFINE a == (k - 1) * WordBits + 1
                 b == k * WordBits
      <4>7. a = Span(j) + 1 /\ b = Span(j) + WordBits /\ b <= Span(words) /\ Span(j) \in Nat
          BY <4>1, <4>2
      <4> HIDE DEF a, b
      <4>3. /\ a = Span(j) + 1 /\ a \in Nat /\ b \in Nat /\ b <= n /\ b - a + 1 = WordBits
            /\ a <= b /\ 1 <= a
        <5>1. n \in Nat /\ Span(words) <= n - 1 /\ Span(words) \in Nat /\ WordBits \in Nat \ {0}
            BY <1>1, <1>2, <1>4
        <5> HIDE DEF n
        <5> QED
            BY ONLY <4>7, <5>1
      <4>4. \A y \in a .. b : all[y] \in {0, 1}
          BY <1>1, <4>3
      <4>5. \A y \in 1 .. b - a + 1 : SubSeq(all, a, b)[y] = all[a + y - 1]
          BY <4>3, <4>4, SubSeqProperties
      <4>8. i \in 1 .. b - a + 1
          BY <4>3
      <4>6. SubSeq(all, a, b)[i] = all[a + i - 1] /\ a + i - 1 = x
        <5>1. SubSeq(all, a, b)[i] = all[a + i - 1]
            BY <4>5, <4>8
        <5>2. a + i - 1 = x
            BY <3>2, <4>7
        <5> QED
            BY <5>1, <5>2
      <4> QED
          BY <4>6 DEF a, b
    <3>8. Span(m) + x - 1 = Span(m + j) + i - 1
        BY <3>2, <3>6, <1>1
    <3> QED
        BY <3>4, <3>5, <3>7, <3>8
  <2>2. CASE ~(x <= Span(words))
    <3> DEFINE a == words * WordBits + 1
               i == x - Span(words)
    <3>1. a \in Nat /\ a = Span(words) + 1 /\ a <= n /\ i \in 1 .. n - a + 1
        BY <1>1, <1>4, <2>2
    <3> HIDE DEF a
    <3>2. \A y \in a .. n : all[y] \in {0, 1}
      <4>1. a \in Nat /\ a >= 1 /\ n = Len(all) /\ all \in Seq({0, 1})
          BY <1>1, <1>4, <3>1
      <4> HIDE DEF n
      <4> QED
          BY <4>1
    <3>3. /\ Len(SubSeq(all, a, n)) = n - a + 1
          /\ \A y \in 1 .. n - a + 1 : SubSeq(all, a, n)[y] = all[a + y - 1]
        BY <1>1, <3>1, <3>2, SubSeqProperties
    <3>4. SubSeq(all, a, n) = rest
        BY DEF a
    <3>5. i \in 1 .. Len(rest) /\ rest[i] = all[x]
      <4>1. rest[i] = all[a + i - 1] /\ a + i - 1 = x
        <5>1. rest[i] = all[a + i - 1]
            BY <3>1, <3>3, <3>4
        <5>2. a + i - 1 = x
            BY <1>1, <1>4, <3>1
        <5> QED
            BY <5>1, <5>2
      <4> QED
          BY <3>1, <3>3, <3>4, <4>1
    <3>6. C[Span(Len(next)) + i - 1] = rest[i]
        BY <1>6, <3>5
    <3>7. Span(Len(next)) = Span(m) + Span(words) /\ Span(m) \in Nat
      <4>1. Len(next) = m + words /\ m \in Nat /\ words \in Nat
          BY <1>2, <1>4, <1>5
      <4> QED
          BY <4>1, SpanAdds
    <3>8. Span(Len(next)) + i - 1 = Span(m) + x - 1
        BY <1>1, <1>4, <3>7
    <3> QED
        BY <3>5, <3>6, <3>8
  <2> QED
      BY <2>1, <2>2
<1>9. ASSUME NEW i \in 1 .. Len(w.io) PROVE C[Span(m) + i - 1] = w.io[i]
  <2>1. i \in 1 .. n
      BY <1>1
  <2> QED
      BY <1>1, <1>8, <2>1
<1>10. ASSUME NEW i \in 1 .. Len(bits) PROVE C[Count(w) + i - 1] = bits[i]
  <2> DEFINE x == Len(w.io) + i
  <2>1. x \in 1 .. n /\ all[x] = bits[i]
      BY <1>1
  <2>2. C[Span(m) + x - 1] = bits[i]
      BY <1>8, <2>1
  <2>3. Count(w) + i - 1 = Span(m) + x - 1 /\ Span(m) \in Nat
    <3>1. Span(m) \in Nat
        BY <1>2, SpanAdds
    <3> QED
        BY <1>1, <3>1 DEF Count
  <2> QED
      BY <2>2, <2>3
<1> QED
    BY <1>7, <1>9, <1>10 DEF Carries

\* It counts them, too.
LEMMA BitOutCounts ==
  ASSUME NEW w, IsWriter(w), NEW bits \in Seq({0, 1}), bits # <<>>
  PROVE  /\ IsWriter(BitOut(w, bits)) /\ Len(BitOut(w, bits).io) \in 1 .. WordBits
         /\ Count(w) \in Nat /\ Len(bits) \in Nat \ {0}
         /\ Count(BitOut(w, bits)) = Count(w) + Len(bits)
<1> DEFINE all == w.io \o bits
           n == Len(all)
           words == (n - 1) \div WordBits
           rest == SubSeq(all, words * WordBits + 1, n)
           Cut(k) == SubSeq(all, (k - 1) * WordBits + 1, k * WordBits)
           cuts == [k \in 1 .. words |-> Cut(k)]
           m == Len(w.code)
<1>1. /\ all \in Seq({0, 1}) /\ n \in Nat \ {0} /\ n = Len(w.io) + Len(bits)
      /\ Len(w.io) \in Nat /\ Len(bits) \in Nat \ {0}
  <2>1. Len(bits) \in Nat \ {0} /\ w.io \in Seq({0, 1})
      BY EmptySeq DEF IsWriter
  <2> QED
      BY <2>1, ConcatElements
<1>2. WordBits \in Nat \ {0} /\ m \in Nat /\ w.code \in Seq(Word)
    BY WordBitsAssumption DEF IsWriter
<1>3. BitOut(w, bits).io = rest /\ BitOut(w, bits).code = w.code \o cuts
    BY DEF BitOut, all, words
<1> HIDE DEF all
<1>4. words \in Nat /\ Span(words) <= n - 1
      /\ Span(words) = words * WordBits /\ Span(words) \in Nat
  <2>1. n - 1 \in Nat
      BY <1>1
  <2> HIDE DEF n
  <2>2. words \in Nat /\ WordBits * words <= n - 1
      BY <1>2, <2>1, DivMod, DivBounds
  <2> HIDE DEF words
  <2> QED
      BY <2>2, SpanAdds
<1> HIDE DEF words
<1>5. Len(w.code \o cuts) = m + words
  <2> DEFINE T == Word \cup {Cut(k) : k \in 1 .. words}
  <2>1. cuts \in [1 .. words -> T]
      OBVIOUS
  <2> HIDE DEF cuts
  <2>2. cuts \in Seq(T) /\ Len(cuts) = words
      BY <1>4, <2>1, FunctionIsSeq
  <2>3. w.code \in Seq(T)
      BY <1>2
  <2> HIDE DEF T
  <2>4. Len(w.code \o cuts) = m + Len(cuts)
      BY <2>2, <2>3, ConcatProperties
  <2> QED
      BY <2>2, <2>4
<1>6. Len(rest) = n - Span(words)
  <2> DEFINE a == words * WordBits + 1
  <2>1. a \in Nat /\ a = Span(words) + 1 /\ a <= n /\ 1 <= a
      BY <1>1, <1>4
  <2> HIDE DEF a
  <2>2. \A y \in a .. n : all[y] \in {0, 1}
      BY <1>1, <2>1
  <2>3. Len(SubSeq(all, a, n)) = n - a + 1
      BY <1>1, <2>1, <2>2, SubSeqProperties
  <2>4. n - a + 1 = n - Span(words)
    <3>1. n \in Nat /\ Span(words) \in Nat
        BY <1>1, <1>4
    <3> QED
        BY ONLY <2>1, <3>1
  <2> QED
      BY <2>3, <2>4 DEF a
<1>7. /\ Span(m + words) = Span(m) + Span(words) /\ Span(m) \in Nat
    BY <1>2, <1>4, SpanAdds
<1>8. Count(w) = Span(m) + Len(w.io) /\ Count(BitOut(w, bits)) = Span(m + words) + Len(rest)
    BY <1>3, <1>5 DEF Count
<1>9. Count(w) \in Nat /\ Count(BitOut(w, bits)) = Count(w) + Len(bits)
  <2>1. Span(words) \in Nat /\ n \in Nat
      BY <1>1, <1>4
  <2> HIDE DEF n, m, rest
  <2> QED
      BY ONLY <1>1, <1>6, <1>7, <1>8, <2>1
<1>10. /\ IsWriter(BitOut(w, bits)) /\ Len(BitOut(w, bits).io) \in 1 .. WordBits
    BY BitOutFits DEF IsWriter
<1> QED
    BY <1>1, <1>9, <1>10

\* dach_write_stream: the bit, and the opposite of it for each one held back.
LEMMA WriteStreamCarries ==
  ASSUME NEW w, IsWriter(w), NEW b \in {0, 1}, NEW u \in Nat
  PROVE  /\ IsWriter(WriteStream(w, b, u)) /\ Len(WriteStream(w, b, u).io) \in 1 .. WordBits
         /\ Count(w) \in Nat /\ Count(WriteStream(w, b, u)) = Count(w) + 1 + u
         /\ \A C : Carries(C, WriteStream(w, b, u)) =>
               /\ Carries(C, w) /\ C[Count(w)] = b
               /\ \A i \in 1 .. u : C[Count(w) + i] = 1 - b
<1> DEFINE same == [i \in 1 .. u |-> 1 - b]
           one == <<b>>
           bits == one \o same
<1>1. same \in Seq({0, 1}) /\ Len(same) = u /\ \A i \in 1 .. u : same[i] = 1 - b
  <2>1. same \in [1 .. u -> {0, 1}]
      OBVIOUS
  <2> QED
      BY <2>1, FunctionIsSeq
<1>2. one \in Seq({0, 1}) /\ Len(one) = 1 /\ one[1] = b
    OBVIOUS
<1> HIDE DEF same, one
<1>3. /\ bits \in Seq({0, 1}) /\ Len(bits) = Len(one) + Len(same)
      /\ \A i \in 1 .. Len(one) : bits[i] = one[i]
      /\ \A i \in 1 .. Len(same) : bits[Len(one) + i] = same[i]
  <2>1. one \in Seq({0, 1}) /\ same \in Seq({0, 1})
      BY <1>1, <1>2
  <2> QED
      BY <2>1, ConcatElements
<1>4. WriteStream(w, b, u) = BitOut(w, bits)
    BY DEF WriteStream, bits, one, same
<1> HIDE DEF bits
<1>10. Len(bits) = 1 + u
    BY <1>1, <1>2, <1>3
<1>5. bits # <<>>
  <2>1. Len(bits) # 0
      BY <1>10
  <2> QED
      BY <2>1
<1>6. bits[1] = b /\ \A i \in 1 .. u : bits[1 + i] = 1 - b
  <2>1. bits[1] = b
      BY <1>2, <1>3
  <2>2. ASSUME NEW i \in 1 .. u PROVE bits[1 + i] = 1 - b
    <3>1. bits[Len(one) + i] = same[i]
        BY <1>1, <1>3
    <3> QED
        BY <1>1, <1>2, <3>1
  <2> QED
      BY <2>1, <2>2
<1>7. /\ IsWriter(BitOut(w, bits)) /\ Len(BitOut(w, bits).io) \in 1 .. WordBits
      /\ Count(w) \in Nat /\ Count(BitOut(w, bits)) = Count(w) + Len(bits)
    BY <1>3, <1>5, BitOutCounts
<1>8. ASSUME NEW C, Carries(C, BitOut(w, bits))
      PROVE  /\ Carries(C, w) /\ C[Count(w)] = b
             /\ \A i \in 1 .. u : C[Count(w) + i] = 1 - b
  <2>1. /\ Carries(C, w)
        /\ \A i \in 1 .. Len(bits) : C[Count(w) + i - 1] = bits[i]
      BY <1>3, <1>5, <1>8, BitOutCarries
  <2>2. C[Count(w)] = b
    <3>1. 1 \in 1 .. Len(bits) /\ Count(w) + 1 - 1 = Count(w)
        BY <1>7, <1>10
    <3> QED
        BY <1>6, <2>1, <3>1
  <2>3. ASSUME NEW i \in 1 .. u PROVE C[Count(w) + i] = 1 - b
    <3> DEFINE k == 1 + i
    <3>1. k \in 1 .. Len(bits) /\ Count(w) + k - 1 = Count(w) + i /\ bits[k] = 1 - b
        BY <1>6, <1>7, <1>10
    <3> HIDE DEF k
    <3>2. C[Count(w) + k - 1] = bits[k]
        BY <2>1, <3>1
    <3> QED
        BY <3>1, <3>2
  <2> QED
      BY <2>1, <2>2, <2>3
<1>9. Count(BitOut(w, bits)) = Count(w) + 1 + u
    BY <1>7, <1>10
<1> QED
    BY <1>4, <1>7, <1>8, <1>9

\* The zeros up to the end of a word.
LEMMA PadCarries ==
  ASSUME NEW w, IsWriter(w), w = [io |-> w.io, code |-> w.code], Len(w.io) \in 1 .. WordBits
  PROVE  /\ IsWriter(Pad(w)) /\ Count(w) \in Nat
         /\ Count(Pad(w)) = Span(Len(w.code) + 1) /\ Count(w) <= Count(Pad(w))
         /\ \A C : Carries(C, Pad(w)) =>
               /\ Carries(C, w)
               /\ \A p \in Count(w) .. Count(Pad(w)) - 1 : C[p] = 0
<1> DEFINE k == WordBits - Len(w.io)
           zeros == [i \in 1 .. k |-> 0]
           all == w.io \o zeros
           m == Len(w.code)
<1>1. /\ WordBits \in Nat /\ k \in Nat /\ m \in Nat /\ w.io \in Seq({0, 1})
      /\ w.code \in Seq(Word) /\ Len(w.io) \in Nat /\ Len(w.io) + k = WordBits
    BY WordBitsAssumption DEF IsWriter
<1>2. zeros \in Seq({0, 1}) /\ Len(zeros) = k /\ \A i \in 1 .. k : zeros[i] = 0
  <2>1. zeros \in [1 .. k -> {0, 1}]
      OBVIOUS
  <2> QED
      BY <1>1, <2>1, FunctionIsSeq
<1>3. Pad(w).io = all /\ Pad(w).code = w.code
    BY DEF Pad
<1> HIDE DEF zeros, k
<1>4. /\ all \in Seq({0, 1}) /\ Len(all) = Len(w.io) + Len(zeros)
      /\ \A i \in 1 .. Len(w.io) : all[i] = w.io[i]
      /\ \A i \in 1 .. Len(zeros) : all[Len(w.io) + i] = zeros[i]
    BY <1>1, <1>2, ConcatElements
<1> HIDE DEF all
<1>5. /\ Span(m) \in Nat /\ Span(m + 1) = Span(m) + WordBits
    BY <1>1, SpanAdds
<1>6. /\ Count(w) = Span(m) + Len(w.io) /\ Count(Pad(w)) = Span(m) + WordBits
    BY <1>1, <1>2, <1>3, <1>4 DEF Count
<1>7. ASSUME NEW C, Carries(C, Pad(w))
      PROVE  /\ Carries(C, w)
             /\ \A p \in Count(w) .. Count(Pad(w)) - 1 : C[p] = 0
  <2>1. /\ CarriesCode(C, w.code)
        /\ \A i \in 1 .. Len(all) : C[Span(m) + i - 1] = all[i]
      BY <1>3, <1>7 DEF Carries
  <2>2. ASSUME NEW i \in 1 .. Len(w.io) PROVE C[Span(m) + i - 1] = w.io[i]
    <3>1. i \in 1 .. Len(all)
        BY <1>1, <1>2, <1>4
    <3> QED
        BY <1>4, <2>1, <3>1
  <2>3. ASSUME NEW p \in Count(w) .. Count(Pad(w)) - 1 PROVE C[p] = 0
    <3> DEFINE i == p - Count(w) + 1
               j == Len(w.io) + i
    <3>1. i \in 1 .. k /\ j \in 1 .. Len(all) /\ p = Span(m) + j - 1
      <4>1. /\ Len(all) = Len(w.io) + k /\ Count(w) = Span(m) + Len(w.io)
            /\ Count(Pad(w)) = Span(m) + Len(w.io) + k
            /\ Len(w.io) \in Nat /\ k \in Nat /\ Span(m) \in Nat
          BY <1>1, <1>2, <1>4, <1>5, <1>6
      <4>2. p \in Int /\ Count(w) <= p /\ p <= Count(Pad(w)) - 1
          BY <4>1
      <4>3. /\ p \in Int /\ Span(m) + Len(w.io) <= p /\ p < Span(m) + Len(w.io) + k
            /\ i = p - (Span(m) + Len(w.io)) + 1
          BY <4>1, <4>2
      <4> DEFINE l == Len(w.io)
                 q == Span(m)
      <4>4. /\ p \in Int /\ q + l <= p /\ p < q + l + k /\ i = p - (q + l) + 1
            /\ l \in Nat /\ q \in Nat /\ k \in Nat /\ Len(all) = l + k
          BY <4>1, <4>3
      <4> HIDE DEF i, l, q
      <4>5. i \in 1 .. k /\ l + i \in 1 .. l + k /\ p = q + (l + i) - 1
          BY ONLY <4>4
      <4> QED
          BY <4>4, <4>5 DEF l, q
    <3>2. all[j] = 0
        BY <1>2, <1>4, <3>1
    <3> HIDE DEF j
    <3> QED
        BY <2>1, <3>1, <3>2
  <2> QED
      BY <2>1, <2>2, <2>3 DEF Carries
<1>8. IsWriter(Pad(w))
    BY <1>1, <1>3, <1>4 DEF IsWriter
<1> QED
    BY <1>1, <1>5, <1>6, <1>7, <1>8

-----------------------------------------------------------------------------
(* Streams that a writer's bits begin *)

\* Some stream carries what a writer has.
LEMMA StreamExists ==
  ASSUME NEW w, IsWriter(w), NEW D \in Stream
  PROVE  \E C \in Stream : Carries(C, w) /\ \A i \in Nat : C[Count(w) + i] = D[i]
<1> DEFINE m == Len(w.code)
           n == Count(w)
           At(p) == w.code[(p \div WordBits) + 1][p - Span(p \div WordBits) + 1]
           C == [p \in Nat |-> IF p < Span(m) THEN At(p)
                               ELSE IF p < n THEN w.io[p - Span(m) + 1]
                               ELSE D[p - n]]
<1>1. /\ WordBits \in Nat \ {0} /\ m \in Nat /\ w.code \in Seq(Word) /\ w.io \in Seq({0, 1})
      /\ Len(w.io) \in Nat
    BY WordBitsAssumption DEF IsWriter
<1>2. Span(m) \in Nat /\ n = Span(m) + Len(w.io) /\ n \in Nat
  <2>1. Span(m) \in Nat
      BY <1>1, SpanAdds
  <2> QED
      BY <1>1, <2>1 DEF Count
<1>3. ASSUME NEW k \in 1 .. m, NEW i \in 1 .. WordBits, NEW p, p = Span(k - 1) + i - 1
      PROVE  p \in Nat /\ p < Span(m) /\ At(p) = w.code[k][i]
  <2> DEFINE j == k - 1
  <2>1. j \in Nat /\ j < m /\ k = j + 1
      BY <1>1
  <2> HIDE DEF j
  <2>2. p = Span(j) + i - 1
      BY <1>3 DEF j
  <2>3. p \in Nat /\ p \div WordBits = j
      BY <2>1, <2>2, SpanDiv
  <2>4. Span(j) + WordBits <= Span(m) /\ Span(j) \in Nat
      BY <1>1, <2>1, SpanMono, SpanAdds
  <2>5. p < Span(m) /\ p - Span(j) + 1 = i
      BY <1>1, <1>2, <2>2, <2>4
  <2> QED
      BY <2>1, <2>3, <2>5
<1>4. ASSUME NEW p \in Nat, p < Span(m) PROVE At(p) \in {0, 1}
  <2>1. PICK j \in Nat, i \in 1 .. WordBits : p = Span(j) + i - 1 /\ j = p \div WordBits
      BY SpanPlace
  <2> DEFINE k == j + 1
  <2>2. k \in 1 .. m /\ k - 1 = j
    <3> SUFFICES ASSUME m <= j PROVE FALSE
        BY <1>1
    <3>1. Span(m) <= Span(j) /\ Span(j) \in Nat
        BY <1>1, SpanMono, SpanAdds
    <3> QED
        BY <1>1, <1>2, <1>4, <2>1, <3>1
  <2> HIDE DEF At, k
  <2>3. p = Span(k - 1) + i - 1
      BY <2>1, <2>2
  <2>4. At(p) = w.code[k][i]
      BY <1>3, <2>2, <2>3
  <2>5. w.code[k] \in Word
      BY <1>1, <2>2
  <2> QED
      BY <2>4, <2>5 DEF Word
<1> HIDE DEF At
<1>5. C \in Stream
  <2> SUFFICES ASSUME NEW p \in Nat
               PROVE  (IF p < Span(m) THEN At(p) ELSE IF p < n THEN w.io[p - Span(m) + 1]
                       ELSE D[p - n]) \in {0, 1}
      BY DEF Stream
  <2>1. CASE p < Span(m)
      BY <1>4, <2>1
  <2>2. CASE ~(p < Span(m)) /\ p < n
    <3>1. p - Span(m) + 1 \in 1 .. Len(w.io)
        BY <1>1, <1>2, <2>2
    <3> QED
        BY <1>1, <2>2, <3>1
  <2>3. CASE ~(p < Span(m)) /\ ~(p < n)
    <3>1. p - n \in Nat
        BY <1>2, <2>3
    <3> QED
        BY <2>3, <3>1 DEF Stream
  <2> QED
      BY <2>1, <2>2, <2>3
<1>6. CarriesCode(C, w.code)
  <2> SUFFICES ASSUME NEW k \in 1 .. m, NEW i \in 1 .. WordBits
               PROVE  C[Span(k - 1) + i - 1] = w.code[k][i]
      BY DEF CarriesCode
  <2> DEFINE p == Span(k - 1) + i - 1
  <2>1. p \in Nat /\ p < Span(m) /\ At(p) = w.code[k][i]
      BY <1>3
  <2> HIDE DEF p
  <2>2. C[p] = At(p)
      BY <2>1
  <2> QED
      BY <2>1, <2>2 DEF p
<1>7. ASSUME NEW i \in 1 .. Len(w.io) PROVE C[Span(m) + i - 1] = w.io[i]
  <2> DEFINE p == Span(m) + i - 1
  <2>1. p \in Nat /\ ~(p < Span(m)) /\ p < n /\ p - Span(m) + 1 = i
      BY <1>1, <1>2
  <2> HIDE DEF p
  <2>2. C[p] = w.io[i]
      BY <2>1
  <2> QED
      BY <2>2 DEF p
<1>8. ASSUME NEW i \in Nat PROVE C[n + i] = D[i]
  <2> DEFINE p == n + i
  <2>1. p \in Nat /\ ~(p < Span(m)) /\ ~(p < n) /\ p - n = i
    <3>1. n \in Nat /\ Span(m) \in Nat /\ Span(m) <= n
        BY <1>1, <1>2
    <3> HIDE DEF n
    <3> QED
        BY <3>1
  <2> HIDE DEF p
  <2>2. C[p] = D[i]
      BY <2>1
  <2> QED
      BY <2>2 DEF p
<1> HIDE DEF C
<1>9. Carries(C, w) /\ \A i \in Nat : C[Count(w) + i] = D[i]
    BY <1>6, <1>7, <1>8 DEF Carries
<1> QED
    BY <1>5, <1>9

\* The same bits read the same, wherever they are.
LEMMA SameReading ==
  ASSUME NEW C \in Stream, NEW D \in Stream, NEW p \in Nat, NEW q \in Nat,
         NEW n \in 0 .. WordBits, \A i \in 0 .. n - 1 : C[p + i] = D[q + i]
  PROVE  Reading(C, p)[n] = Reading(D, q)[n]
<1>1. WordBits \in Nat /\ n \in Nat /\ n <= WordBits
    BY WordBitsAssumption
<1> DEFINE G == {k \in Nat : k <= n => Reading(C, p)[k] = Reading(D, q)[k]}
<1>2. 0 \in G
    BY ReadingIs DEF Reads
<1>3. ASSUME NEW k \in Nat, k \in G PROVE k + 1 \in G
  <2> SUFFICES ASSUME k + 1 <= n PROVE Reading(C, p)[k + 1] = Reading(D, q)[k + 1]
      OBVIOUS
  <2> DEFINE j == k + 1
  <2>1. k \in 0 .. WordBits - 1 /\ k \in 0 .. n - 1 /\ Reading(C, p)[k] = Reading(D, q)[k]
      BY <1>1, <1>3
  <2>2. Reading(C, p)[j] = 2 * Reading(C, p)[k] + C[p + k]
      BY <2>1, ReadingNext
  <2>3. Reading(D, q)[j] = 2 * Reading(D, q)[k] + D[q + k]
      BY <2>1, ReadingNext
  <2> QED
      BY <1>3, <2>1, <2>2, <2>3
<1> HIDE DEF G
<1>4. \A k \in Nat : k \in G
    BY <1>2, <1>3, Inductive
<1> QED
    BY <1>1, <1>4 DEF G

\* Streams that agree on a word read it as the same number.
LEMMA SameStart ==
  ASSUME NEW C \in Stream, NEW D \in Stream,
         NEW n \in 0 .. WordBits, \A i \in 0 .. n - 1 : C[i] = D[i]
  PROVE  Reading(C, 0)[n] = Reading(D, 0)[n]
<1>1. ASSUME NEW p \in Nat, p = 0 PROVE Reading(C, p)[n] = Reading(D, p)[n]
  <2>1. \A i \in 0 .. n - 1 : C[p + i] = D[p + i]
      BY <1>1
  <2> QED
      BY ONLY <2>1, SameReading
<1> QED
    BY <1>1

\* Every number of WordBits - 1 bits is the reading of some.
LEMMA NumberIsRead ==
  ASSUME NEW v \in Nat, v < Half
  PROVE  \E D \in Stream : Rest(D, 0) = v
<1>1. WordBits \in Nat /\ WordBits - 1 \in Nat
    BY WordBitsAssumption
<1> DEFINE Read(k, x) == \E D \in Stream : Reading(D, 0)[k] = x
           G == {k \in Nat : k <= WordBits - 1 => \A x \in Nat : x < 2 ^ k => Read(k, x)}
<1>2. 0 \in G
  <2> SUFFICES ASSUME NEW x \in Nat, x < 2 ^ 0 PROVE Read(0, x)
      OBVIOUS
  <2>1. 2 ^ 0 = 1
      OBVIOUS
  <2>2. x = 0
      BY <2>1
  <2> DEFINE D == [i \in Nat |-> 0]
  <2>3. D \in Stream
      BY DEF Stream
  <2> HIDE DEF D
  <2>4. Reading(D, 0)[0] = 0
      BY <2>3, ReadingIs DEF Reads
  <2> QED
      BY <2>2, <2>3, <2>4
<1>3. ASSUME NEW k \in Nat, k \in G PROVE k + 1 \in G
  <2> DEFINE j == k + 1
  <2> SUFFICES ASSUME j <= WordBits - 1, NEW x \in Nat, x < 2 ^ j PROVE Read(j, x)
      OBVIOUS
  <2>1. k \in 0 .. WordBits - 1 /\ j \in 0 .. WordBits /\ k \in 0 .. WordBits
      BY <1>1
  <2>2. 2 ^ k \in Nat /\ 2 ^ j = 2 * 2 ^ k
      BY <2>1, Power
  <2>3. PICK y \in Nat, c \in {0, 1} : x = 2 * y + c
    <3> DEFINE y == x \div 2
               c == x - 2 * y
    <3>1. y \in Nat /\ 2 * y <= x /\ x < 2 * y + 2
        BY DivMod, DivBounds
    <3> HIDE DEF y
    <3>2. c \in {0, 1} /\ x = 2 * y + c
        BY <3>1
    <3> QED
        BY <3>1, <3>2
  <2>4. y < 2 ^ k
      BY <2>2, <2>3
  <2>5. PICK D \in Stream : Reading(D, 0)[k] = y
      BY <1>1, <1>3, <2>1, <2>4
  <2>6. PICK E \in Stream : E[k] = c /\ \A i \in 0 .. k - 1 : E[i] = D[i]
    <3> DEFINE E == [D EXCEPT ![k] = c]
    <3>1. E \in Stream /\ E[k] = c /\ \A i \in 0 .. k - 1 : E[i] = D[i]
        BY DEF Stream
    <3> HIDE DEF E
    <3> QED
        BY <3>1
  <2>7. Reading(E, 0)[k] = Reading(D, 0)[k]
      BY <2>1, <2>5, <2>6, SameStart
  <2>8. Reading(E, 0)[j] = 2 * Reading(E, 0)[k] + E[k]
    <3>1. Reading(E, 0)[j] = 2 * Reading(E, 0)[k] + E[0 + k]
        BY <2>1, <2>6, ReadingNext
    <3> QED
        BY <3>1
  <2>9. Reading(E, 0)[j] = x
      BY <2>3, <2>5, <2>6, <2>7, <2>8
  <2> QED
      BY <2>6, <2>9
<1> HIDE DEF G
<1>4. \A k \in Nat : k \in G
    BY <1>2, <1>3, Inductive
<1>5. 2 ^ (WordBits - 1) = Half
  <2> DEFINE k == WordBits - 2
             j == WordBits - 1
  <2>1. k \in 0 .. WordBits - 1 /\ j = k + 1
      BY WordBitsAssumption
  <2>2. 2 ^ j = 2 * 2 ^ k
      BY <2>1, Power
  <2> QED
      BY <2>2 DEF Half, Quarter
<1>6. Read(WordBits - 1, v)
    BY <1>1, <1>4, <1>5 DEF G
<1> QED
    BY <1>6 DEF Rest

\* Whatever interval a coder has come to, some stream goes on from there into it.
LEMMA StreamInto ==
  ASSUME NEW w, IsWriter(w), NEW u \in Nat, NEW e \in 0 .. Top
  PROVE  \E C \in Stream : /\ Carries(C, w)
                           /\ Window(C, Count(w), u) = e /\ Held(C, Count(w), u)
<1> DEFINE b == IF Half <= e THEN 1 ELSE 0
           v == IF Half <= e THEN e - Half ELSE e
           n == Count(w)
<1>1. b \in {0, 1} /\ v \in Nat /\ v < Half /\ e = (IF b = 1 THEN Half ELSE 0) + v
    BY Registers
<1>2. PICK R \in Stream : Rest(R, 0) = v
    BY <1>1, NumberIsRead
<1> HIDE DEF b, v
<1> DEFINE D == [i \in Nat |-> IF i = 0 THEN b ELSE IF i <= u THEN 1 - b ELSE R[i - u - 1]]
<1>3. D \in Stream
  <2> SUFFICES ASSUME NEW i \in Nat
               PROVE  (IF i = 0 THEN b ELSE IF i <= u THEN 1 - b ELSE R[i - u - 1]) \in {0, 1}
      BY DEF Stream
  <2>1. i > u => i - u - 1 \in Nat
      OBVIOUS
  <2>2. i > u => R[i - u - 1] \in {0, 1}
      BY <2>1 DEF Stream
  <2> QED
      BY <1>1, <2>2
<1>4. /\ D[0] = b /\ \A i \in 1 .. u : D[i] = 1 - b
      /\ \A i \in Nat : D[u + 1 + i] = R[i]
    OBVIOUS
<1> HIDE DEF D
<1>5. PICK C \in Stream : Carries(C, w) /\ \A i \in Nat : C[n + i] = D[i]
    BY <1>3, StreamExists
<1>6. n \in Nat /\ WordBits \in Nat /\ WordBits - 1 \in 0 .. WordBits
  <2>1. Len(w.code) \in Nat /\ Len(w.io) \in Nat
      BY DEF IsWriter
  <2>2. Span(Len(w.code)) \in Nat
      BY <2>1, SpanAdds
  <2> QED
      BY <2>1, <2>2, WordBitsAssumption DEF Count
<1> HIDE DEF n
<1>7. C[n] = b
  <2>1. C[n + 0] = D[0]
      BY <1>5
  <2> QED
      BY <1>4, <1>6, <2>1
<1>8. Held(C, n, u)
    BY <1>4, <1>5, <1>7 DEF Held
<1> DEFINE p == n + u + 1
           k == WordBits - 1
<1>9. ASSUME NEW i \in 0 .. k - 1 PROVE C[p + i] = R[0 + i]
  <2> DEFINE x == u + 1 + i
  <2>1. x \in Nat /\ n + x = p + i /\ i \in Nat
      BY <1>6
  <2>2. D[x] = R[i]
      BY <1>4, <2>1
  <2> HIDE DEF x
  <2>3. C[n + x] = D[x]
      BY <1>5, <2>1
  <2> QED
      BY <2>1, <2>2, <2>3
<1>10. p \in Nat /\ k \in 0 .. WordBits
    BY <1>6
<1> HIDE DEF p, k
<1>11. Reading(C, p)[k] = Reading(R, 0)[k]
    BY <1>9, <1>10, SameReading
<1>12. Rest(C, p) = v
    BY <1>2, <1>11 DEF Rest, k
<1>13. Window(C, n, u) = e
    BY <1>1, <1>7, <1>12 DEF Window, p
<1> QED
    BY <1>5, <1>8, <1>13 DEF n

-----------------------------------------------------------------------------
(* The coder as a function: what either direction goes through *)

\* The model as a value, and what one step of its update makes of it.
Table(f, cf, sc, cs, total, ph, sy, a) ==
    [freq |-> f, cumfreq |-> cf, sym_to_chr |-> sc, chr_to_sym |-> cs,
     scale |-> total, phase |-> ph, sym |-> sy, at |-> a]

Model == Table(freq, cumfreq, sym_to_chr, chr_to_sym, scale, phase, sym, at)
NewModel == Table(FreqAtStart, CumAtStart, ChrAtStart, SymAtStart, SymCount - 1, "ready", 0, 0)

Begun(m, s) == Table([m.freq EXCEPT ![m.sym_to_chr[s]] = @ + 1], m.cumfreq,
                     m.sym_to_chr, m.chr_to_sym, m.scale, "swap", s, s)

Swapped(m) ==
    LET chr1 == m.sym_to_chr[m.at]
        chr2 == m.sym_to_chr[m.at - 1]
    IN  Table(m.freq,
              [m.cumfreq EXCEPT ![chr1] = m.cumfreq[chr2], ![chr2] = m.cumfreq[chr1] - 1],
              [m.sym_to_chr EXCEPT ![m.at] = chr2, ![m.at - 1] = chr1],
              [m.chr_to_sym EXCEPT ![chr1] = m.at - 1, ![chr2] = m.at],
              m.scale, m.phase, m.sym, m.at - 1)

Updated(m) ==
    IF m.phase = "swap"
    THEN IF m.at > 1 /\ m.freq[m.sym_to_chr[m.at]] > m.freq[m.sym_to_chr[m.at - 1]]
         THEN Swapped(m)
         ELSE Table(m.freq, m.cumfreq, m.sym_to_chr, m.chr_to_sym, m.scale, "cum", m.sym, m.sym)
    ELSE IF m.at > 0
         THEN Table(m.freq, [m.cumfreq EXCEPT ![m.sym_to_chr[m.at]] = @ + 1],
                    m.sym_to_chr, m.chr_to_sym, m.scale, m.phase, m.sym, m.at - 1)
         ELSE Table(m.freq, m.cumfreq, m.sym_to_chr, m.chr_to_sym,
                    m.cumfreq[m.sym_to_chr[1]], "ready", 0, m.at)

\* UpdateBegin makes of the model what Begun says.
LEMMA BegunIs ==
  ASSUME NEW s, UpdateBegin(s)
  PROVE  Model' = Begun(Model, s)
BY DEF UpdateBegin, Model, Begun, Table

\* UpdateStep makes of it what Updated says.
LEMMA UpdatedIs ==
  ASSUME IInv, UpdateStep
  PROVE  Model' = Updated(Model)
<1>1. CASE SwapUp
    BY <1>1 DEF SwapUp, Outranks, FreqAt, Model, Updated, Swapped, Table
<1>2. CASE SwapDone
    BY <1>2 DEF SwapDone, Outranks, FreqAt, Model, Updated, table, Table
<1>3. CASE IncCum
    BY <1>3 DEF IncCum, Model, Updated, Table
<1>4. CASE UpdateEnd
  <2>1. Cum(1) = cumfreq[sym_to_chr[1]]
      BY SymCountAssumption DEF Cum
  <2> QED
      BY <1>4, <2>1 DEF UpdateEnd, Model, Updated, table, Table
<1> QED
    BY <1>1, <1>2, <1>3, <1>4 DEF UpdateStep

\* A coder at a point of the file: the model, the registers, what it does next,
\* how many bits of the code are decided and how many more are held back.
Coder(m, p, l, h, c, part, n, u) ==
    [model |-> m, pos |-> p, low |-> l, high |-> h, cur |-> c, part |-> part, n |-> n, u |-> u]

First == Coder(NewModel, 0, 0, Top, 0, "symbol", 0, 0)

CumOf(m, s) == IF s = SymCount THEN 0 ELSE m.cumfreq[m.sym_to_chr[s]]

Narrowed(f, c) ==
    LET s == c.model.chr_to_sym[f[c.pos + 1]]
        width == c.high - c.low + 1
    IN  Coder(c.model, c.pos + 1,
              c.low + (width * CumOf(c.model, s + 1)) \div c.model.scale,
              c.low + (width * CumOf(c.model, s)) \div c.model.scale - 1,
              s, "shift", c.n, c.u)

\* The tests of the normalisation loop.
SameHalfOf(c) == (c.low >= Half) = (c.high >= Half)
StraddlesOf(c) == ~SameHalfOf(c) /\ c.low % Half >= Quarter /\ c.high % Half < Quarter

Shifted(c) ==
    IF SameHalfOf(c)
    THEN Coder(c.model, c.pos, Shl(c.low), Shl(c.high) + 1, c.cur, "shift", c.n + c.u + 1, 0)
    ELSE IF StraddlesOf(c)
    THEN Coder(c.model, c.pos, Shl(c.low - Quarter), Shl(c.high + Quarter) + 1, c.cur, "shift",
               c.n, c.u + 1)
    ELSE Coder(Begun(c.model, c.cur), c.pos, c.low, c.high, c.cur, "learn", c.n, c.u)

Learnt(c) ==
    LET m == Updated(c.model)
    IN  Coder(m, c.pos, c.low, c.high, c.cur,
              IF m.phase = "ready" THEN "symbol" ELSE "learn", c.n, c.u)

\* What the coder is after its next step, on the file f.
After(f, c) == CASE c.part = "symbol" -> Narrowed(f, c)
                 [] c.part = "shift" -> Shifted(c)
                 [] OTHER -> Learnt(c)

At(part, n, u) == Coder(Model, pos, low, high, cur, part, n, u)

\* What After makes of a coder between two symbols.
LEMMA NarrowTo ==
  ASSUME NEW n, NEW u
  PROVE  After(input, At("symbol", n, u)) =
            Coder(Model, pos + 1, LowScale(NextSym), HighScale(NextSym), NextSym, "shift", n, u)
<1>1. After(input, At("symbol", n, u)) = Narrowed(input, At("symbol", n, u))
    BY DEF After, At, Coder
<1>2. CumOf(Model, NextSym) = Cum(NextSym) /\ CumOf(Model, NextSym + 1) = Cum(NextSym + 1)
    BY DEF CumOf, Cum, Model, Table
<1>3. Model.chr_to_sym[input[pos + 1]] = NextSym /\ Model.scale = scale
    BY DEF Model, Table, NextSym
<1> HIDE DEF Model
<1>4. Narrowed(input, At("symbol", n, u)) =
         Coder(Model, pos + 1, low + (range * Cum(NextSym + 1)) \div scale,
               low + (range * Cum(NextSym)) \div scale - 1, NextSym, "shift", n, u)
    BY <1>2, <1>3 DEF Narrowed, At, Coder, range
<1> QED
    BY <1>1, <1>4 DEF LowScale, HighScale

\* The actions of both programs take it there: narrowing ...
LEMMA NarrowIs ==
  ASSUME NEW n, NEW u, Narrow(NextSym), cur' = NextSym, pos' = pos + 1, UNCHANGED ppm
  PROVE  After(input, At("symbol", n, u)) = Coder(Model', pos', low', high', cur', "shift", n, u)
<1>1. Model' = Model
    BY DEF Model, Table, ppm, table
<1> QED
    BY <1>1, NarrowTo DEF Narrow

\* ... normalising ...
LEMMA ShiftIs ==
  ASSUME NEW n, NEW u, ShiftInterval, ~Normal, low \in Nat, high \in Nat,
         UNCHANGED <<ppm, pos, cur>>
  PROVE  /\ SameHalf => After(input, At("shift", n, u)) =
                           Coder(Model', pos', low', high', cur', "shift", n + u + 1, 0)
         /\ Straddles => After(input, At("shift", n, u)) =
                            Coder(Model', pos', low', high', cur', "shift", n, u + 1)
<1>1. Model' = Model
    BY DEF Model, Table, ppm, table
<1>2. After(input, At("shift", n, u)) = Shifted(At("shift", n, u))
    BY DEF After, At, Coder
<1>3. ASSUME SameHalf
      PROVE  Shifted(At("shift", n, u)) =
                Coder(Model, pos, Shl(low), Shl(high) + 1, cur, "shift", n + u + 1, 0)
    BY <1>3 DEF Shifted, At, Coder, SameHalf, SameHalfOf
<1>4. ASSUME Straddles
      PROVE  Shifted(At("shift", n, u)) =
                Coder(Model, pos, Shl(low - Quarter), Shl(high + Quarter) + 1, cur, "shift",
                      n, u + 1)
    BY <1>4 DEF Shifted, At, Coder, SameHalf, SameHalfOf, Straddles, StraddlesOf
<1>5. ASSUME SameHalf PROVE Squeeze = 0 /\ low - 0 = low /\ high + 0 = high
    BY <1>5 DEF Squeeze, Straddles
<1> QED
    BY <1>1, <1>2, <1>3, <1>4, <1>5 DEF ShiftInterval, Squeeze, Straddles

\* ... beginning to learn ...
LEMMA LearnIs ==
  ASSUME NEW n, NEW u, Normal, UpdateBegin(cur), UNCHANGED <<pos, low, high, cur>>
  PROVE  After(input, At("shift", n, u)) = Coder(Model', pos', low', high', cur', "learn", n, u)
<1>1. Model' = Begun(Model, cur)
    BY BegunIs
<1>2. After(input, At("shift", n, u)) = Shifted(At("shift", n, u))
    BY DEF After, At, Coder
<1>3. Shifted(At("shift", n, u)) = Coder(Begun(Model, cur), pos, low, high, cur, "learn", n, u)
    BY DEF Shifted, At, Coder, SameHalf, SameHalfOf, Straddles, StraddlesOf, Normal
<1> QED
    BY <1>1, <1>2, <1>3

\* ... and going on with it.
LEMMA UpdateIs ==
  ASSUME NEW n, NEW u, IInv, UpdateStep, UNCHANGED <<pos, low, high, cur>>
  PROVE  After(input, At("learn", n, u)) =
            Coder(Model', pos', low', high', cur',
                  IF phase' = "ready" THEN "symbol" ELSE "learn", n, u)
<1>1. Model' = Updated(Model)
    BY UpdatedIs
<1>2. After(input, At("learn", n, u)) = Learnt(At("learn", n, u))
    BY DEF After, At, Coder
<1>3. Learnt(At("learn", n, u)) =
         Coder(Updated(Model), pos, low, high, cur,
               IF Updated(Model).phase = "ready" THEN "symbol" ELSE "learn", n, u)
    BY DEF Learnt, At, Coder
<1>4. Model'.phase = phase'
    BY DEF Model, Table
<1> QED
    BY <1>1, <1>2, <1>3, <1>4

-----------------------------------------------------------------------------
(* What normalisation does to the numbers in the interval *)

\* It doubles the distance from the part of the range that is dropped.
LEMMA ShiftDoubles ==
  ASSUME low \in 0 .. Top, high \in 0 .. Top, low <= high, ShiftInterval,
         NEW b, b = IF high >= Half THEN Half ELSE 0
  PROVE  /\ SameHalf => /\ low' = 2 * (low - b) /\ high' = 2 * (high - b) + 1
                        /\ b <= low /\ high < b + Half
                        /\ ~Straddles
         /\ Straddles => low' = 2 * (low - Quarter) /\ high' = 2 * (high - Quarter) + 1
<1>1. ASSUME SameHalf
      PROVE  /\ low' = 2 * (low - b) /\ high' = 2 * (high - b) + 1
             /\ b <= low /\ high < b + Half /\ ~Straddles
  <2>1. low' = Shl(low) /\ high' = Shl(high) + 1 /\ ~Straddles
      BY <1>1, Registers DEF ShiftInterval, Squeeze, Straddles
  <2>2. CASE Half <= low
    <3>1. low' = 2 * low - (Top + 1) /\ high' = 2 * high - (Top + 1) + 1
        BY <2>1, <2>2, Registers, ShlFits
    <3> QED
        BY <2>1, <2>2, <3>1, Registers
  <2>3. CASE high < Half
    <3>1. low' = 2 * low /\ high' = 2 * high + 1
        BY <2>1, <2>3, Registers, ShlFits
    <3> QED
        BY <2>1, <2>3, <3>1, Registers
  <2> QED
      BY <1>1, <2>2, <2>3, Registers DEF SameHalf
<1>2. ASSUME Straddles
      PROVE  low' = 2 * (low - Quarter) /\ high' = 2 * (high - Quarter) + 1
  <2>1. Quarter <= low /\ low < Half /\ Half <= high /\ high < Half + Quarter
      BY <1>2, Tests
  <2>2. low' = Shl(low - Quarter) /\ high' = Shl(high + Quarter) + 1
      BY <1>2 DEF ShiftInterval, Squeeze
  <2>3. low - Quarter \in 0 .. Top /\ low - Quarter < Half
      BY <2>1, Registers
  <2>4. high + Quarter \in 0 .. Top /\ Half <= high + Quarter
      BY <2>1, Registers
  <2>5. low' = 2 * (low - Quarter) /\ high' = 2 * (high + Quarter) - (Top + 1) + 1
      BY <2>2, <2>3, <2>4, ShlFits
  <2> QED
      BY <2>1, <2>5, Registers
<1> QED
    BY <1>1, <1>2

\* So it does to the decoder's window.
LEMMA FlippedDoubles ==
  ASSUME low \in 0 .. Top, high \in 0 .. Top, low <= high, esym \in low .. high,
         NEW b, b = IF high >= Half THEN Half ELSE 0
  PROVE  /\ SameHalf => Shl(Flipped) = 2 * (esym - b) /\ (Half <= esym <=> b = Half)
         /\ Straddles => /\ Shl(Flipped) = 2 * (esym - Quarter)
                         /\ Quarter <= esym /\ esym < Half + Quarter
<1>1. ASSUME SameHalf PROVE Shl(Flipped) = 2 * (esym - b) /\ (Half <= esym <=> b = Half)
  <2>1. Flipped = esym
      BY <1>1 DEF Flipped, Straddles
  <2>2. CASE Half <= low
    <3>1. esym \in 0 .. Top /\ Half <= esym /\ b = Half
        BY <1>1, <2>2, Registers
    <3> QED
        BY <2>1, <3>1, Registers, ShlFits
  <2>3. CASE high < Half
    <3>1. esym \in 0 .. Top /\ esym < Half /\ b = 0
        BY <1>1, <2>3, Registers
    <3>2. Shl(esym) = 2 * esym
        BY <3>1, ShlFits
    <3> QED
        BY <2>1, <3>1, <3>2, Registers
  <2> QED
      BY <1>1, <2>2, <2>3, Registers DEF SameHalf
<1>2. ASSUME Straddles
      PROVE  /\ Shl(Flipped) = 2 * (esym - Quarter)
             /\ Quarter <= esym /\ esym < Half + Quarter
  <2>1. Quarter <= low /\ low < Half /\ Half <= high /\ high < Half + Quarter
      BY <1>2, Tests
  <2>2. Quarter <= esym /\ esym < Half + Quarter /\ esym \in Nat
      BY <2>1, Registers
  <2>3. CASE esym < Half
    <3>1. esym % Half = esym
        BY <2>2, <2>3, Registers, ModSmall
    <3>2. Flipped = esym - Quarter
        BY <1>2, <2>2, <2>3, <3>1, Registers DEF Flipped
    <3>3. esym - Quarter \in 0 .. Top /\ esym - Quarter < Half
        BY <2>2, <2>3, Registers
    <3> QED
        BY <2>2, <3>2, <3>3, ShlFits
  <2>4. CASE Half <= esym
    <3>1. esym % Half = esym - Half
      <4>1. esym \in Nat /\ Half <= esym /\ esym < 2 * Half /\ Half \in Nat \ {0}
          BY <2>2, <2>4, Registers
      <4> QED
          BY <4>1, ModOnce
    <3>2. Flipped = esym + Quarter
        BY <1>2, <2>2, <2>4, <3>1, Registers DEF Flipped
    <3>3. esym + Quarter \in 0 .. Top /\ Half <= esym + Quarter
        BY <2>2, <2>4, Registers
    <3>4. Shl(esym + Quarter) = 2 * (esym + Quarter) - (Top + 1)
        BY <3>3, ShlFits
    <3> QED
        BY <2>2, <3>2, <3>4, Registers
  <2> QED
      BY <2>2, <2>3, <2>4, Registers
<1> QED
    BY <1>1, <1>2

\* The stream's window is in the interval of the coder c.
Within(C, c) == c.low <= Window(C, c.n, c.u) /\ Window(C, c.n, c.u) <= c.high

\* Backwards: what is in the interval after a shift was in it before.
LEMMA ShiftBack ==
  ASSUME low \in 0 .. Top, high \in 0 .. Top, low <= high, ShiftInterval,
         NEW C \in Stream, NEW n \in Nat, NEW u \in Nat
  PROVE  /\ SameHalf /\ C[n] = (IF high >= Half THEN 1 ELSE 0)
               /\ low' <= Window(C, n + u + 1, 0) /\ Window(C, n + u + 1, 0) <= high'
            => low <= Window(C, n, u) /\ Window(C, n, u) <= high
         /\ Straddles /\ Held(C, n, u + 1)
               /\ low' <= Window(C, n, u + 1) /\ Window(C, n, u + 1) <= high'
            => low <= Window(C, n, u) /\ Window(C, n, u) <= high /\ Held(C, n, u)
<1> DEFINE b == IF high >= Half THEN Half ELSE 0
           w == Window(C, n, u)
           c == C[n + u + WordBits]
<1>1. /\ SameHalf => low' = 2 * (low - b) /\ high' = 2 * (high - b) + 1
      /\ Straddles => low' = 2 * (low - Quarter) /\ high' = 2 * (high - Quarter) + 1
    BY ShiftDoubles
<1>2. w \in 0 .. Top /\ c \in {0, 1} /\ C[n] \in {0, 1}
    BY WindowFits
<1>3. b \in Nat
    BY Registers
<1>4. ASSUME SameHalf, C[n] = (IF high >= Half THEN 1 ELSE 0),
             low' <= Window(C, n + u + 1, 0), Window(C, n + u + 1, 0) <= high'
      PROVE  low <= w /\ w <= high
  <2>1. b = (IF C[n] = 1 THEN Half ELSE 0)
      BY <1>4
  <2> HIDE DEF b
  <2>2. Window(C, n + u + 1, 0) = 2 * (w - b) + c
      BY <2>1, WindowAfterBit
  <2> DEFINE v == Window(C, n + u + 1, 0)
  <2> HIDE DEF v, w, c
  <2>3. v = 2 * (w - b) + c /\ 2 * (low - b) <= v /\ v <= 2 * (high - b) + 1
      BY <1>1, <1>4, <2>2 DEF v
  <2>4. low \in Nat /\ high \in Nat /\ w \in Nat
      BY <1>2, Registers
  <2> QED
      BY ONLY <1>2, <1>3, <2>3, <2>4
<1>5. ASSUME Straddles, Held(C, n, u + 1),
             low' <= Window(C, n, u + 1), Window(C, n, u + 1) <= high'
      PROVE  low <= w /\ w <= high /\ Held(C, n, u)
  <2>1. C[n + (u + 1)] = 1 - C[n] /\ n + (u + 1) = n + u + 1
      BY <1>5 DEF Held
  <2>2. Window(C, n, u + 1) = 2 * (w - Quarter) + c
      BY <2>1, WindowAfterHolding
  <2>3. Held(C, n, u)
      BY <1>5 DEF Held
  <2> DEFINE v == Window(C, n, u + 1)
  <2> HIDE DEF v, w, c
  <2>4. v = 2 * (w - Quarter) + c /\ 2 * (low - Quarter) <= v /\ v <= 2 * (high - Quarter) + 1
      BY <1>1, <1>5, <2>2 DEF v
  <2>5. low \in Nat /\ high \in Nat /\ w \in Nat /\ Quarter \in Nat
      BY <1>2, Registers
  <2>6. low <= w /\ w <= high
      BY ONLY <1>2, <2>4, <2>5
  <2> QED
      BY <2>3, <2>6
<1> QED
    BY <1>4, <1>5

\* Forwards: the decoder's window stays the stream's.
LEMMA ShiftOn ==
  ASSUME low \in 0 .. Top, high \in 0 .. Top, low <= high,
         NEW C \in Stream, NEW n \in Nat, NEW u \in Nat,
         esym = Window(C, n, u), esym \in low .. high
  PROVE  /\ SameHalf => Shl(Flipped) + C[n + u + WordBits] = Window(C, n + u + 1, 0)
         /\ Straddles => Shl(Flipped) + C[n + u + WordBits] = Window(C, n, u + 1)
<1> DEFINE b == IF high >= Half THEN Half ELSE 0
<1>1. /\ SameHalf => Shl(Flipped) = 2 * (esym - b) /\ (Half <= esym <=> b = Half)
      /\ Straddles => /\ Shl(Flipped) = 2 * (esym - Quarter)
                      /\ Quarter <= esym /\ esym < Half + Quarter
    BY FlippedDoubles
<1>2. C[n] \in {0, 1} /\ (C[n] = 1 <=> Half <= esym)
    BY WindowFits
<1>3. ASSUME SameHalf PROVE Shl(Flipped) + C[n + u + WordBits] = Window(C, n + u + 1, 0)
  <2>1. b = (IF C[n] = 1 THEN Half ELSE 0)
      BY <1>1, <1>2, <1>3, Registers
  <2> HIDE DEF b
  <2>2. Window(C, n + u + 1, 0) = 2 * (esym - b) + C[n + u + WordBits]
      BY <2>1, WindowAfterBit
  <2> QED
      BY <1>1, <1>3, <2>2
<1>4. ASSUME Straddles PROVE Shl(Flipped) + C[n + u + WordBits] = Window(C, n, u + 1)
  <2>1. C[n + u + 1] = 1 - C[n]
      BY <1>1, <1>4, WindowAfterHolding
  <2>2. Window(C, n, u + 1) = 2 * (esym - Quarter) + C[n + u + WordBits]
      BY <2>1, WindowAfterHolding
  <2> QED
      BY <1>1, <1>4, <2>2
<1> QED
    BY <1>3, <1>4

-----------------------------------------------------------------------------
(* The decoder finds the symbol that was coded *)

\* Later symbols have smaller sums.
LEMMA CumFalls ==
  ASSUME IInv, phase = "ready", NEW s \in Sym, NEW t \in Sym, s < t
  PROVE  Cum(t) <= Cum(s + 1)
<1>1. SymCount \in Nat
    BY SymCountAssumption
<1> DEFINE G == {d \in Nat : s + 1 + d \in Sym => Cum(s + 1 + d) <= Cum(s + 1)}
<1>2. 0 \in G
  <2>1. s + 1 \in Sym => Cum(s + 1) \in Nat
      BY CumBelowScale
  <2>2. s + 1 + 0 = s + 1
      BY <1>1 DEF Sym
  <2> QED
      BY <2>1, <2>2
<1>3. ASSUME NEW d \in Nat, d \in G PROVE d + 1 \in G
  <2> SUFFICES ASSUME s + 1 + (d + 1) \in Sym PROVE Cum(s + 1 + (d + 1)) <= Cum(s + 1)
      OBVIOUS
  <2> DEFINE a == s + 1 + d
  <2>1. a \in Sym /\ s + 1 + (d + 1) = a + 1 /\ s + 1 \in Sym
      BY <1>1 DEF Sym
  <2>2. Cum(a) <= Cum(s + 1)
      BY <1>3, <2>1
  <2> HIDE DEF a
  <2>3. Cum(a) \in Nat /\ Cum(a + 1) \in Nat /\ FreqAt(a) \in Nat /\ Cum(a) = Cum(a + 1) + FreqAt(a)
      BY <2>1, CumBelowScale
  <2>4. Cum(s + 1) \in Nat
      BY <2>1, CumBelowScale
  <2> DEFINE x == Cum(a + 1)
             y == Cum(a)
             z == Cum(s + 1)
  <2>5. x <= z
    <3> HIDE DEF x, y, z
    <3>1. y \in Nat /\ x \in Nat /\ z \in Nat /\ FreqAt(a) \in Nat /\ y = x + FreqAt(a) /\ y <= z
        BY <2>2, <2>3, <2>4 DEF x, y, z
    <3> QED
        BY ONLY <3>1
  <2> QED
      BY <2>1, <2>5
<1> HIDE DEF G
<1> DEFINE e == t - s - 1
<1>4. e \in Nat /\ s + 1 + e = t
    BY <1>1 DEF Sym
<1>5. e \in G
    BY <1>2, <1>3, <1>4, Inductive
<1> QED
    BY <1>4, <1>5 DEF G

\* Shares do not overlap: the one of a later symbol ends before an earlier one's.
LEMMA SharesApart ==
  ASSUME IInv, phase = "ready", NEW s \in Sym, NEW t \in Sym, s < t,
         low \in Nat, high \in Nat, low <= high
  PROVE  HighScale(t) < LowScale(s)
<1>1. Cum(t) \in Nat /\ Cum(s + 1) \in Nat /\ Cum(t) <= Cum(s + 1) /\ scale \in Nat \ {0}
    BY CumFalls, CumBelowScale
<1>2. range \in Nat
    BY DEF range
<1>3. /\ range * Cum(t) <= range * Cum(s + 1)
      /\ range * Cum(t) \in Nat /\ range * Cum(s + 1) \in Nat
    BY <1>1, <1>2, TimesMono, Distributes
<1> DEFINE x == (range * Cum(t)) \div scale
           y == (range * Cum(s + 1)) \div scale
<1>4. x \in Nat /\ y \in Nat /\ x <= y
    BY <1>1, <1>3, DivMod, DivMono
<1>5. HighScale(t) = low + x - 1 /\ LowScale(s) = low + y
    BY DEF HighScale, LowScale
<1> HIDE DEF x, y
<1> QED
    BY <1>4, <1>5

\* So the symbol that dach_decode finds is the one whose share its window is in.
LEMMA FoundIs ==
  ASSUME IInv, phase = "ready", low \in Nat, esym \in Nat, high \in Nat,
         low <= esym, esym <= high,
         NEW s \in Sym, LowScale(s) <= esym, esym <= HighScale(s)
  PROVE  Found = s
<1>1. /\ Found \in Sym /\ LowScale(Found) <= esym /\ esym <= HighScale(Found)
    BY TargetFits
<1>2. ASSUME NEW a \in Sym, NEW b \in Sym, a < b, LowScale(a) <= esym, esym <= HighScale(b)
      PROVE  FALSE
  <2>1. low <= high
      OBVIOUS
  <2>2. HighScale(b) < LowScale(a)
      BY <1>2, <2>1, SharesApart
  <2>3. HighScale(b) \in Int /\ LowScale(a) \in Nat
      BY <2>1, ShareInside
  <2> QED
      BY <1>2, <2>2, <2>3
<1>3. Found \in Int /\ s \in Int
    BY <1>1, SymCountAssumption DEF Sym
<1>4. ~(Found < s) /\ ~(s < Found)
    BY <1>1, <1>2
<1> QED
    BY <1>3, <1>4

-----------------------------------------------------------------------------
(* Everything the encoder has gone through *)

\* The states in H are those of a coder that has come from its first state to e.
Path(f, H, e) == /\ First \in H /\ e \in H
                 /\ \A c \in H : c = e \/ After(f, c) \in H
                 /\ \A c \in H : c.n \in Nat /\ c.u \in Nat /\ c.n + c.u <= e.n + e.u

\* Whatever follows the bits of the writer w: if it leads into the interval that
\* the coder has come to, it has led into every one on the way.
Traced(f, w, e) == \E H : /\ Path(f, H, e)
                          /\ \A C \in Stream :
                                Carries(C, w) /\ Within(C, e) /\ Held(C, e.n, e.u)
                                   => \A c \in H : Within(C, c)

\* A coder that has done nothing.
LEMMA TracedFirst ==
  ASSUME NEW f, NEW w PROVE Traced(f, w, First)
<1>1. Path(f, {First}, First)
  <2>1. First.n = 0 /\ First.u = 0
      BY DEF First, Coder
  <2> QED
      BY <2>1 DEF Path
<1> QED
    BY <1>1 DEF Traced

\* One step more: what leads the coder on leads it through all it went through.
LEMMA TracedMore ==
  ASSUME NEW f, NEW w, NEW e, Traced(f, w, e), NEW v, NEW d, d = After(f, e),
         d.n \in Nat, d.u \in Nat, e.n + e.u <= d.n + d.u,
         \A C \in Stream : Carries(C, v) /\ Within(C, d) /\ Held(C, d.n, d.u)
                              => Carries(C, w) /\ Within(C, e) /\ Held(C, e.n, e.u)
  PROVE  Traced(f, v, d)
<1>1. PICK H : /\ Path(f, H, e)
               /\ \A C \in Stream : Carries(C, w) /\ Within(C, e) /\ Held(C, e.n, e.u)
                                       => \A c \in H : Within(C, c)
    BY DEF Traced
<1> DEFINE G == H \cup {d}
<1>2. Path(f, G, d)
  <2>1. First \in G /\ d \in G
      BY <1>1 DEF Path
  <2>2. ASSUME NEW c \in G PROVE c = d \/ After(f, c) \in G
      BY <1>1 DEF Path
  <2>3. ASSUME NEW c \in G PROVE c.n \in Nat /\ c.u \in Nat /\ c.n + c.u <= d.n + d.u
    <3>1. e.n \in Nat /\ e.u \in Nat
        BY <1>1 DEF Path
    <3>2. c \in H => c.n \in Nat /\ c.u \in Nat /\ c.n + c.u <= e.n + e.u
        BY <1>1 DEF Path
    <3> QED
        BY <3>1, <3>2
  <2> QED
      BY <2>1, <2>2, <2>3 DEF Path
<1>3. ASSUME NEW C \in Stream, Carries(C, v), Within(C, d), Held(C, d.n, d.u), NEW c \in G
      PROVE  Within(C, c)
    BY <1>1, <1>3
<1> HIDE DEF G
<1> QED
    BY <1>2, <1>3 DEF Traced

\* What the program is about to do.
PartNow == IF stage \in {"shift out", "shift in"} THEN "shift"
        ELSE IF stage \in {"encoder learns", "decoder learns"} THEN "learn"
        ELSE "symbol"

\* The encoder's way here is one that its code leads along.
EncoderTraced == stage \in Coding \cup {"open"}
                    => Traced(input, Writer, At(PartNow, Count(Writer), underflow))

\* io_buffer and the code are what a writer has.
LEMMA WriterFits ==
  ASSUME CodecInv
  PROVE  IsWriter(Writer) /\ Count(Writer) \in Nat /\ underflow \in Nat
<1>1. io \in Seq({0, 1}) /\ code \in Seq(Word)
    BY DEF CodecInv, Bits
<1>2. Writer.io = io /\ Writer.code = code
    BY DEF Writer
<1>3. Len(io) \in Nat /\ Len(code) \in Nat
    BY <1>1
<1>4. Span(Len(code)) \in Nat
    BY <1>3, SpanAdds
<1> QED
    BY <1>1, <1>2, <1>3, <1>4, Types DEF IsWriter, Count

\* The trace begins ...
LEMMA InitTraced == Init => EncoderTraced
<1> SUFFICES ASSUME Init PROVE EncoderTraced
    OBVIOUS
<1>1. Model = NewModel
    BY DEF Init, PpmInit, Model, NewModel
<1>2. Count(Writer) = 0
  <2>1. Writer.io = <<>> /\ Writer.code = <<>>
      BY DEF Init, Writer
  <2>2. Len(<<>>) = 0 /\ Span(0) = 0
      BY SpanAdds
  <2> QED
      BY <2>1, <2>2 DEF Count
<1>3. At(PartNow, Count(Writer), underflow) = First
    BY <1>1, <1>2 DEF Init, At, First, PartNow
<1> QED
    BY <1>3, TracedFirst DEF EncoderTraced

\* ... goes on when a symbol narrows the interval ...
LEMMA NarrowTraced ==
  ASSUME CodecInv, EncoderTraced, EncodeNarrow PROVE EncoderTraced'
<1> DEFINE n == Count(Writer)
           e == At("symbol", n, underflow)
           d == Coder(Model', pos', low', high', cur', "shift", n, underflow)
<1>1. /\ stage = "encode" /\ stage' = "shift out" /\ pos < Len(input) /\ CanNarrow(NextSym)
      /\ Narrow(NextSym) /\ cur' = NextSym /\ pos' = pos + 1
      /\ UNCHANGED <<ppm, input, underflow, io, header, code, reader, output, lost>>
    BY DEF EncodeNarrow
<1>2. Traced(input, Writer, e)
    BY <1>1 DEF EncoderTraced, PartNow, Coding
<1>3. d = After(input, e)
    BY <1>1, NarrowIs
<1>4. n \in Nat /\ underflow \in Nat
    BY WriterFits
<1>5. /\ d.n = n /\ d.u = underflow /\ d.low = LowScale(NextSym) /\ d.high = HighScale(NextSym)
      /\ e.n = n /\ e.u = underflow /\ e.low = low /\ e.high = high
    BY <1>1 DEF Coder, At, Narrow
<1>6. ASSUME NEW C \in Stream, Within(C, d) PROVE Within(C, e)
  <2>1. NextSym \in Sym /\ IInv /\ phase = "ready"
      BY <1>1, NextSymFits DEF CodecInv, Learning
  <2>2. /\ LowScale(NextSym) \in Nat /\ low <= LowScale(NextSym)
        /\ HighScale(NextSym) \in Int /\ HighScale(NextSym) <= high
        /\ low \in Nat /\ high \in Nat
      BY <2>1, Types, ShareInside
  <2>3. Window(C, n, underflow) \in 0 .. Top
      BY <1>4, WindowFits
  <2>4. LowScale(NextSym) <= Window(C, n, underflow) /\ Window(C, n, underflow) <= HighScale(NextSym)
      BY <1>5, <1>6 DEF Within
  <2> DEFINE w == Window(C, n, underflow)
  <2> HIDE DEF w
  <2>5. low <= w /\ w <= high
    <3>1. w \in Int
        BY <2>3, Registers DEF w
    <3> QED
        BY <2>2, <2>4, <3>1 DEF w
  <2> QED
      BY <1>5, <2>5 DEF Within, w
<1> HIDE DEF e, d
<1>7. Traced(input, Writer, d)
  <2>1. e.n + e.u <= d.n + d.u /\ d.n \in Nat /\ d.u \in Nat
      BY <1>4, <1>5
  <2>2. ASSUME NEW C \in Stream, Carries(C, Writer), Within(C, d), Held(C, d.n, d.u)
        PROVE  Carries(C, Writer) /\ Within(C, e) /\ Held(C, e.n, e.u)
      BY <1>5, <1>6, <2>2
  <2> QED
      BY <1>2, <1>3, <2>1, <2>2, TracedMore
<1>8. Writer' = Writer /\ PartNow' = "shift"
    BY <1>1 DEF Writer, PartNow
<1>9. At(PartNow, Count(Writer), underflow)' = d
    BY <1>1, <1>8 DEF At, d
<1> QED
    BY <1>1, <1>7, <1>8, <1>9 DEF EncoderTraced

\* ... when a bit is decided and written, with those that waited for it ...
LEMMA ShiftOutTraced ==
  ASSUME CodecInv, EncoderTraced, ShiftOut PROVE EncoderTraced'
<1> DEFINE n == Count(Writer)
           b == IF high >= Half THEN 1 ELSE 0
           v == WriteStream(Writer, b, underflow)
           m == n + underflow + 1
           e == At("shift", n, underflow)
           d == Coder(Model', pos', low', high', cur', "shift", m, 0)
<1>1. /\ stage = "shift out" /\ stage' = "shift out" /\ SameHalf /\ ShiftInterval
      /\ io' = v.io /\ code' = v.code /\ underflow' = 0
      /\ UNCHANGED <<ppm, input, stage, pos, cur, header, reader, output, lost>>
    BY DEF ShiftOut, Written
<1>2. Traced(input, Writer, e)
    BY <1>1 DEF EncoderTraced, PartNow, Coding
<1>3. low \in 0 .. Top /\ high \in 0 .. Top /\ low <= high /\ low \in Nat /\ high \in Nat
    BY Types DEF CodecInv, Interval
<1>4. d = After(input, e)
    BY <1>1, <1>3, ShiftIs DEF Normal
<1>5. n \in Nat /\ underflow \in Nat /\ IsWriter(Writer) /\ b \in {0, 1} /\ m \in Nat
  <2>1. n \in Nat /\ underflow \in Nat /\ IsWriter(Writer)
      BY WriterFits
  <2> HIDE DEF n
  <2> QED
      BY <2>1
<1> HIDE DEF b
<1>6. /\ Count(v) = n + 1 + underflow
      /\ \A C : Carries(C, v) =>
            /\ Carries(C, Writer) /\ C[n] = b
            /\ \A i \in 1 .. underflow : C[n + i] = 1 - b
    BY <1>5, WriteStreamCarries
<1>7. Writer' = v
  <2>1. v = [io |-> v.io, code |-> v.code]
      BY DEF WriteStream, BitOut
  <2> HIDE DEF v
  <2> QED
      BY <1>1, <2>1 DEF Writer
<1> HIDE DEF n, v
<1>8. /\ d.n = m /\ d.u = 0 /\ d.low = low' /\ d.high = high'
      /\ e.n = n /\ e.u = underflow /\ e.low = low /\ e.high = high
    BY DEF Coder, At
<1>9. ASSUME NEW C \in Stream, Carries(C, v), Within(C, d)
      PROVE  Carries(C, Writer) /\ Within(C, e) /\ Held(C, n, underflow)
  <2>1. /\ Carries(C, Writer) /\ C[n] = b
        /\ \A i \in 1 .. underflow : C[n + i] = 1 - b
      BY <1>6, <1>9
  <2>2. low' <= Window(C, n + underflow + 1, 0) /\ Window(C, n + underflow + 1, 0) <= high'
      BY <1>8, <1>9 DEF Within
  <2>3. low <= Window(C, n, underflow) /\ Window(C, n, underflow) <= high
      BY <1>1, <1>3, <1>5, <2>1, <2>2, ShiftBack DEF b
  <2> QED
      BY <1>8, <2>1, <2>3 DEF Within, Held
<1> HIDE DEF e, d
<1>10. Traced(input, v, d)
  <2>1. e.n + e.u <= d.n + d.u /\ d.n \in Nat /\ d.u \in Nat
      BY <1>5, <1>8
  <2>2. ASSUME NEW C \in Stream, Carries(C, v), Within(C, d), Held(C, d.n, d.u)
        PROVE  Carries(C, Writer) /\ Within(C, e) /\ Held(C, e.n, e.u)
      BY <1>8, <1>9, <2>2
  <2> QED
      BY <1>2, <1>4, <2>1, <2>2, TracedMore
<1>11. PartNow' = "shift" /\ Count(Writer)' = m
  <2>1. Count(v) = m
      BY <1>5, <1>6
  <2> QED
      BY <1>1, <1>7, <2>1 DEF PartNow
<1>12. At(PartNow, Count(Writer), underflow)' = d
    BY <1>1, <1>11 DEF At, d
<1> QED
    BY <1>1, <1>7, <1>10, <1>12 DEF EncoderTraced

\* ... when one is put off ...
LEMMA UnderflowTraced ==
  ASSUME CodecInv, EncoderTraced, ShiftUnderflow PROVE EncoderTraced'
<1> DEFINE n == Count(Writer)
           u == underflow + 1
           e == At("shift", n, underflow)
           d == Coder(Model', pos', low', high', cur', "shift", n, u)
<1>1. /\ stage = "shift out" /\ stage' = "shift out" /\ Straddles /\ ShiftInterval
      /\ underflow' = u
      /\ UNCHANGED <<ppm, input, stage, pos, cur, io, header, code, reader, output, lost>>
    BY DEF ShiftUnderflow
<1>2. Traced(input, Writer, e)
    BY <1>1 DEF EncoderTraced, PartNow, Coding
<1>3. low \in 0 .. Top /\ high \in 0 .. Top /\ low <= high /\ low \in Nat /\ high \in Nat
    BY Types DEF CodecInv, Interval
<1>4. d = After(input, e)
    BY <1>1, <1>3, ShiftIs DEF Normal
<1>5. n \in Nat /\ underflow \in Nat
    BY WriterFits
<1>6. u \in Nat
    BY <1>5
<1> HIDE DEF n
<1>7. /\ d.n = n /\ d.u = u /\ d.low = low' /\ d.high = high'
      /\ e.n = n /\ e.u = underflow /\ e.low = low /\ e.high = high
    BY DEF Coder, At
<1>8. ASSUME NEW C \in Stream, Within(C, d), Held(C, n, u)
      PROVE  Within(C, e) /\ Held(C, n, underflow)
  <2>1. low' <= Window(C, n, underflow + 1) /\ Window(C, n, underflow + 1) <= high'
      BY <1>7, <1>8 DEF Within
  <2>2. /\ low <= Window(C, n, underflow) /\ Window(C, n, underflow) <= high
        /\ Held(C, n, underflow)
      BY <1>1, <1>3, <1>5, <1>8, <2>1, ShiftBack
  <2> QED
      BY <1>7, <2>2 DEF Within
<1> HIDE DEF e, d
<1>9. Traced(input, Writer, d)
  <2>1. e.n + e.u <= d.n + d.u /\ d.n \in Nat /\ d.u \in Nat
      BY <1>5, <1>6, <1>7
  <2>2. ASSUME NEW C \in Stream, Carries(C, Writer), Within(C, d), Held(C, d.n, d.u)
        PROVE  Carries(C, Writer) /\ Within(C, e) /\ Held(C, e.n, e.u)
      BY <1>7, <1>8, <2>2
  <2> QED
      BY <1>2, <1>4, <2>1, <2>2, TracedMore
<1>10. Writer' = Writer /\ PartNow' = "shift"
    BY <1>1 DEF Writer, PartNow
<1>11. At(PartNow, Count(Writer), underflow)' = d
    BY <1>1, <1>10 DEF At, d, n
<1> QED
    BY <1>1, <1>9, <1>10, <1>11 DEF EncoderTraced

\* The model learns; the interval and the code stay as they are.
LEMMA LearnTraced ==
  ASSUME CodecInv, EncoderTraced, EncodeLearn \/ EncodeUpdate PROVE EncoderTraced'
<1> DEFINE n == Count(Writer)
           e == At(PartNow, n, underflow)
           d == Coder(Model', pos', low', high', cur', PartNow', n, underflow)
<1>1. /\ stage \in Coding /\ stage' \in Coding
      /\ UNCHANGED <<input, pos, interval, cur, io, header, code, reader, output, lost>>
    BY DEF EncodeLearn, EncodeUpdate, Coding
<1>2. Traced(input, Writer, e)
    BY <1>1 DEF EncoderTraced
<1>3. d = After(input, e)
  <2>1. CASE EncodeLearn
    <3>1. PartNow = "shift" /\ PartNow' = "learn" /\ Normal /\ UpdateBegin(cur)
        BY <2>1 DEF EncodeLearn, PartNow
    <3> QED
        BY <1>1, <3>1, LearnIs DEF interval
  <2>2. CASE EncodeUpdate
    <3>1. /\ PartNow = "learn" /\ UpdateStep /\ IInv
          /\ PartNow' = IF phase' = "ready" THEN "symbol" ELSE "learn"
        BY <2>2 DEF EncodeUpdate, PartNow, CodecInv, Learning
    <3> QED
        BY <1>1, <3>1, UpdateIs DEF interval
  <2> QED
      BY <2>1, <2>2
<1>4. n \in Nat /\ underflow \in Nat
    BY WriterFits
<1>5. /\ d.n = n /\ d.u = underflow /\ d.low = low /\ d.high = high
      /\ e.n = n /\ e.u = underflow /\ e.low = low /\ e.high = high
    BY <1>1 DEF Coder, At, interval
<1>6. Writer' = Writer
    BY <1>1 DEF Writer
<1>7. At(PartNow, Count(Writer), underflow)' = d
    BY <1>1, <1>6 DEF At, interval
<1> HIDE DEF e, d, n
<1>8. Traced(input, Writer, d)
  <2>1. e.n + e.u <= d.n + d.u /\ d.n \in Nat /\ d.u \in Nat
      BY <1>4, <1>5
  <2>2. ASSUME NEW C \in Stream, Carries(C, Writer), Within(C, d), Held(C, d.n, d.u)
        PROVE  Carries(C, Writer) /\ Within(C, e) /\ Held(C, e.n, e.u)
      BY <1>5, <2>2 DEF Within
  <2> QED
      BY <1>2, <1>3, <2>1, <2>2, TracedMore
<1> QED
    BY <1>1, <1>6, <1>7, <1>8 DEF EncoderTraced

\* ... and in every step of encode().
LEMMA StepTraced == CodecInv /\ EncoderTraced /\ [Next]_vars => EncoderTraced'
<1> SUFFICES ASSUME CodecInv, EncoderTraced, [Next]_vars, stage' \in Coding \cup {"open"}
             PROVE  EncoderTraced'
    BY DEF EncoderTraced
<1>1. CASE OpenInput
  <2>1. /\ stage = "open" /\ stage' = "encode"
        /\ UNCHANGED <<ppm, input, pos, interval, cur, io, code, reader, output, lost>>
      BY <1>1 DEF OpenInput, Coding
  <2>2. Model' = Model /\ Writer' = Writer /\ PartNow' = PartNow
      BY <2>1 DEF Model, ppm, table, Writer, PartNow
  <2>3. At(PartNow, Count(Writer), underflow)' = At(PartNow, Count(Writer), underflow)
      BY <2>1, <2>2 DEF At, interval
  <2> QED
      BY <2>1, <2>2, <2>3 DEF EncoderTraced
<1>2. CASE EncodeNarrow
    BY <1>2, NarrowTraced
<1>3. CASE ShiftOut
    BY <1>3, ShiftOutTraced
<1>4. CASE ShiftUnderflow
    BY <1>4, UnderflowTraced
<1>5. CASE EncodeLearn \/ EncodeUpdate
    BY <1>5, LearnTraced
<1>6. ASSUME EncodeExit \/ StopEncoder \/ LoseCode \/ Decoder PROVE FALSE
  <2>1. CASE EncodeExit \/ StopEncoder \/ LoseCode
      BY <2>1 DEF EncodeExit, StopEncoder, LoseCode, Coding
  <2>2. CASE OpenCode \/ FillWindow \/ DecodeNarrow \/ DecodeLast \/ DecodeExit
      BY <2>2 DEF OpenCode, FillWindow, DecodeNarrow, DecodeLast, DecodeExit, Coding
  <2>3. CASE ShiftIn \/ ShiftInAborts \/ DecodeLearn \/ DecodeUpdate \/ Store \/ Close
      BY <2>3 DEF ShiftIn, ShiftInAborts, DecodeLearn, DecodeUpdate, Store, Close, Coding
  <2> QED
      BY <1>6, <2>1, <2>2, <2>3 DEF Decoder
<1>7. CASE UNCHANGED vars
  <2>1. UNCHANGED <<ppm, input, stage, pos, interval, cur, io, code>>
      BY <1>7 DEF vars
  <2>2. Model' = Model /\ Writer' = Writer /\ PartNow' = PartNow
      BY <2>1 DEF Model, ppm, table, Writer, PartNow
  <2>3. At(PartNow, Count(Writer), underflow)' = At(PartNow, Count(Writer), underflow)
      BY <2>1, <2>2 DEF At, interval
  <2> QED
      BY <2>1, <2>2, <2>3 DEF EncoderTraced
<1> QED
    BY <1>1, <1>2, <1>3, <1>4, <1>5, <1>6, <1>7 DEF Next, Encoder, Terminated

-----------------------------------------------------------------------------
(* How far the two programs are in the file *)

\* A code that has been cut off stays so, and nobody writes to the input.
LEMMA WhatStays == [Next]_vars => input' = input /\ (lost = "code" => lost' = "code")
<1>1. ASSUME NEW buf, Flush(buf) PROVE lost = "code" => lost' = "code"
    BY <1>1 DEF Flush
<1>2. CASE Encoder
  <2>1. CASE OpenInput \/ EncodeNarrow \/ EncodeExit \/ ShiftOut
      BY <2>1 DEF OpenInput, EncodeNarrow, EncodeExit, ShiftOut
  <2>2. CASE ShiftUnderflow \/ EncodeLearn \/ EncodeUpdate \/ StopEncoder
      BY <2>2 DEF ShiftUnderflow, EncodeLearn, EncodeUpdate, StopEncoder
  <2> QED
      BY <1>2, <2>1, <2>2 DEF Encoder
<1>3. CASE Decoder
  <2>1. CASE OpenCode \/ FillWindow \/ DecodeNarrow \/ DecodeLast \/ DecodeExit
      BY <2>1 DEF OpenCode, FillWindow, DecodeNarrow, DecodeLast, DecodeExit
  <2>2. CASE ShiftIn \/ ShiftInAborts \/ DecodeLearn \/ DecodeUpdate
      BY <2>2 DEF ShiftIn, ShiftInAborts, DecodeLearn, DecodeUpdate
  <2>3. CASE Store
      BY <1>1, <2>3 DEF Store
  <2>4. CASE Close
      BY <1>1, <2>4 DEF Close
  <2> QED
      BY <1>3, <2>1, <2>2, <2>3, <2>4 DEF Decoder
<1>4. CASE LoseCode
    BY <1>4 DEF LoseCode
<1>5. CASE UNCHANGED vars
    BY <1>5 DEF vars
<1> QED
    BY <1>2, <1>3, <1>4, <1>5 DEF Next, Terminated

\* The header has the size of the file, unless it did not fit or was lost.
SizeKnown == lost # "code" /\ SizeIsStored /\ stage \notin {"open", "failed", "abort"}
                => header = Len(input)

\* The decoder stops when it has counted to the header, and not before.
Stopping == /\ stop => stage \in {"store", "close", "done"} /\ pos = header
            /\ stage \in {"close", "done"} => stop
            /\ lost # "code" /\ SizeIsStored /\ input # <<>>
                  /\ stage \in {"fill"} \cup Decoding /\ ~stop
                  => pos < header

\* The decoder's interval has more than one point as long as the precision suffices.
Apart == PrecisionSuffices /\ stage = "shift in" => low < high

\* Nobody has read the code before the decoder does.
Unread == stage \in Coding \cup {"open", "encoded"} => ~eof_in

Sized == SizeKnown /\ Stopping /\ Apart /\ Unread

\* The symbol of the next byte is one that the interval has room for.
LEMMA NextSymIs ==
  ASSUME CodecInv, stage \in {"encode", "decode"}, pos < Len(input)
  PROVE  /\ NextSym \in 1 .. SymCount - 2 /\ NextSym \in Sym
         /\ sym_to_chr[NextSym] = input[pos + 1]
<1>1. input[pos + 1] \in Byte
    BY DEF CodecInv, Place
<1>2. IInv /\ phase = "ready"
    BY DEF CodecInv, Learning
<1>3. NextSym \in 1 .. SymCount - 2 /\ NextSym \in Sym
    BY <1>1, <1>2, ByteSym, SymCountAssumption DEF NextSym, Sym
<1>4. sym_to_chr[NextSym] = input[pos + 1]
    BY <1>1, <1>2, <1>3, SymCountAssumption DEF IInv, Bijective, NextSym, Byte, Chr
<1> QED
    BY <1>3, <1>4

\* As long as the precision suffices every symbol has a share of the interval.
LEMMA RoomForShare ==
  ASSUME CodecInv, stage \in {"encode", "decode"}, pos < Len(input), PrecisionSuffices,
         NEW s \in Sym
  PROVE  LowScale(s) < HighScale(s) /\ ~ShareIsEmpty(s) /\ high > low
<1>1. Wide /\ IInv /\ phase = "ready" /\ scale = SymCount - 1 + pos
    BY DEF CodecInv, Interval, Learning
<1>2. /\ range >= Quarter + 2 /\ 2 * (SymCount - 1 + Len(input) - 1) <= Quarter + 2
      /\ range \in Int /\ Quarter \in Nat
    BY <1>1, Types, Registers DEF Wide, PrecisionSuffices, range
<1>3. pos \in Nat /\ Len(input) \in Nat /\ SymCount \in Nat /\ pos < Len(input)
    BY Types
<1>4. range >= 2 * scale
    BY ONLY <1>1, <1>2, <1>3
<1>5. LowScale(s) < HighScale(s)
    BY <1>1, <1>4, Types, ShareIsWide
<1>6. LowScale(s) \in Nat /\ HighScale(s) \in Int
    BY <1>1, Types, ShareInside
<1>7. high > low
    BY <1>1, Types, Registers DEF Wide
<1> QED
    BY <1>5, <1>6, <1>7 DEF ShareIsEmpty

\* Nothing has been counted yet.
LEMMA InitSized == Init => Sized
BY DEF Init, Sized, SizeKnown, Stopping, Apart, Unread, Decoding

\* A step that does not touch what it says, or what the programs count.
LEMMA KeepSized ==
  ASSUME Sized, UNCHANGED <<input, pos, header, stop, eof_in>>, lost = "code" => lost' = "code",
         stage' \in Stages \ {"open", "shift in"}, stage # "open",
         stage \in {"failed", "abort"} => stage' \in {"failed", "abort"},
         stop => stage' \in {"store", "close", "done"},
         stage' \in {"close", "done"} => stop,
         stage' \in {"fill"} \cup Decoding /\ ~stop => stage \in {"fill"} \cup Decoding,
         stage' \in Coding \cup {"encoded"} => stage \in Coding \cup {"encoded"}
  PROVE  Sized'
<1>0. SizeIsStored' = SizeIsStored
    BY DEF SizeIsStored
<1>1. SizeKnown'
    BY <1>0 DEF Sized, SizeKnown
<1>2. Stopping'
    BY <1>0 DEF Sized, Stopping
<1>3. Apart'
    BY DEF Apart
<1>4. Unread'
    BY DEF Sized, Unread
<1> QED
    BY <1>1, <1>2, <1>3, <1>4 DEF Sized

\* Every step counts as it should.
LEMMA StepSized == CodecInv /\ Sized /\ [Next]_vars => Sized'
<1> SUFFICES ASSUME CodecInv, Sized, [Next]_vars PROVE Sized'
    OBVIOUS
<1>0. /\ input' = input /\ (lost = "code" => lost' = "code")
      /\ SizeIsStored' = SizeIsStored /\ PrecisionSuffices' = PrecisionSuffices
    BY WhatStays DEF SizeIsStored, PrecisionSuffices
<1>17. stop => stage \in {"store", "close", "done"}
    BY DEF Sized, Stopping
<1>1. CASE OpenInput
  <2>1. SizeIsStored => Len(input) % HdrLimit = Len(input)
      BY Types, BoundsAssumption, ModSmall DEF SizeIsStored
  <2>2. /\ stage = "open" /\ stage' \in {"failed", "encode"} /\ UNCHANGED <<stop, eof_in>>
        /\ stage' = "encode" => header' = Len(input) % HdrLimit
      BY <1>1 DEF OpenInput, reader, output
  <2>3. SizeKnown'
      BY <1>0, <2>1, <2>2 DEF SizeKnown
  <2>4. Stopping' /\ Apart' /\ Unread'
      BY <1>17, <2>2 DEF Sized, Stopping, Apart, Unread, Decoding
  <2> QED
      BY <2>3, <2>4 DEF Sized
<1>2. CASE EncodeNarrow
  <2>1. stage = "encode" /\ stage' = "shift out" /\ UNCHANGED <<stop, eof_in, header, lost>>
      BY <1>2 DEF EncodeNarrow, reader, output
  <2> QED
      BY <1>0, <1>17, <2>1 DEF Sized, SizeKnown, Stopping, Apart, Unread, Decoding, Coding
<1>3. CASE EncodeExit \/ DecodeExit \/ ShiftInAborts
  <2>1. /\ stage \in {"encode", "decode", "shift in"} /\ stage' \in {"failed", "abort"}
        /\ UNCHANGED <<input, pos, header, stop, eof_in, lost>>
      BY <1>3 DEF EncodeExit, DecodeExit, ShiftInAborts, reader, output
  <2> QED
      BY <1>17, <2>1, KeepSized DEF Stages, Final, Decoding, Coding
<1>4. CASE ShiftOut \/ ShiftUnderflow \/ EncodeLearn \/ EncodeUpdate \/ StopEncoder
  <2>1. /\ stage \in Coding /\ stage' \in Coding \cup {"encoded", "abort"}
        /\ UNCHANGED <<input, pos, header, stop, eof_in, lost>>
    <3>1. CASE ShiftOut \/ ShiftUnderflow
        BY <3>1 DEF ShiftOut, ShiftUnderflow, Coding, reader, output
    <3>2. CASE EncodeLearn \/ EncodeUpdate
        BY <3>2 DEF EncodeLearn, EncodeUpdate, Coding, reader, output
    <3>3. CASE StopEncoder
        BY <3>3 DEF StopEncoder, Coding, reader, output
    <3> QED
        BY <1>4, <3>1, <3>2, <3>3
  <2> QED
      BY <1>17, <2>1, KeepSized DEF Stages, Final, Decoding, Coding
<1>7. CASE LoseCode
  <2>1. /\ stage \in Coding \cup {"encoded"} /\ stage' = "encoded" /\ lost' = "code"
        /\ UNCHANGED <<stop, eof_in>>
      BY <1>7 DEF LoseCode, Coding, reader, output
  <2> QED
      BY <1>0, <1>17, <2>1 DEF Sized, SizeKnown, Stopping, Apart, Unread, Decoding, Coding
<1>8. CASE OpenCode
  <2>1. /\ stage = "encoded" /\ stage' = "fill" /\ pos' = 0 /\ eof_in' = FALSE
        /\ UNCHANGED <<header, stop, lost>>
      BY <1>8 DEF OpenCode, output
  <2>2. input # <<>> => Len(input) > 0
      BY Types, EmptySeq DEF CodecInv, Place
  <2>3. SizeKnown'
      BY <1>0, <2>1 DEF Sized, SizeKnown
  <2>4. Stopping'
      BY <1>0, <1>17, <2>1, <2>2, <2>3 DEF Sized, Stopping, SizeKnown
  <2> QED
      BY <2>1, <2>3, <2>4 DEF Sized, Apart, Unread, Coding
<1>9. CASE FillWindow
  <2>1. /\ stage = "fill" /\ stage' \in {"fill", "decode"}
        /\ UNCHANGED <<pos, header, stop, lost>>
      BY <1>9 DEF FillWindow, output
  <2> QED
      BY <1>0, <1>17, <2>1 DEF Sized, SizeKnown, Stopping, Apart, Unread, Decoding, Coding
<1>10. CASE DecodeNarrow
  <2>1. /\ stage = "decode" /\ pos + 1 <= header /\ pos + 1 # header /\ stage' = "shift in"
        /\ low' = LowScale(Found) /\ high' = HighScale(Found) /\ pos' = pos + 1
        /\ UNCHANGED <<header, stop, eof_in, lost>>
      BY <1>10 DEF DecodeNarrow, DecodeAsserts, Narrow, reader, output
  <2>2. pos \in Nat /\ header \in Nat /\ header <= Len(input) /\ Len(input) \in Nat
    <3>1. header \in 0 .. HdrLimit - 1 /\ header <= Len(input)
        BY DEF CodecInv, Place
    <3> QED
        BY <3>1, Types
  <2>3. pos < Len(input) /\ pos' < header
    <3>1. pos + 1 <= header /\ pos + 1 # header /\ pos' = pos + 1
        BY <2>1
    <3> QED
        BY ONLY <2>2, <3>1
  <2>4. Found \in Sym
      BY <2>1, Types, TargetFits DEF CodecInv, Learning, Interval, Decoding
  <2>5. Apart'
      BY <1>0, <2>1, <2>3, <2>4, RoomForShare DEF Apart
  <2>6. SizeKnown' /\ Stopping'
      BY <1>0, <1>17, <2>1, <2>3 DEF Sized, SizeKnown, Stopping
  <2> QED
      BY <2>1, <2>5, <2>6 DEF Sized, Unread, Coding
<1>11. CASE DecodeLast
  <2>1. /\ stage = "decode" /\ pos + 1 = header /\ stage' = "store" /\ stop' = TRUE
        /\ pos' = pos + 1 /\ UNCHANGED <<header, eof_in, lost>>
      BY <1>11 DEF DecodeLast, reader
  <2> QED
      BY <1>0, <2>1 DEF Sized, SizeKnown, Stopping, Apart, Unread, Coding
<1>12. CASE ShiftIn
  <2>1. Apart'
    <3> SUFFICES ASSUME PrecisionSuffices PROVE low' < high'
        BY <1>0 DEF Apart
    <3>1. ShiftInterval /\ ~Normal /\ low < high
        BY <1>12 DEF ShiftIn
    <3>2. low \in 0 .. Top /\ high \in 0 .. Top /\ low <= high
        BY DEF CodecInv, Interval
    <3> DEFINE b == IF high >= Half THEN Half ELSE 0
    <3>4. low \in Nat /\ high \in Nat /\ b \in Nat /\ Quarter \in Nat
        BY <3>2, Registers
    <3> HIDE DEF b
    <3>3. /\ SameHalf => low' = 2 * (low - b) /\ high' = 2 * (high - b) + 1
          /\ Straddles => low' = 2 * (low - Quarter) /\ high' = 2 * (high - Quarter) + 1
        BY <3>1, <3>2, ShiftDoubles DEF b
    <3> QED
        BY <3>1, <3>3, <3>4 DEF Normal
  <2>2. stage = "shift in" /\ stage' = "shift in" /\ UNCHANGED <<pos, header, stop, lost>>
      BY <1>12 DEF ShiftIn, output
  <2> QED
      BY <1>0, <1>17, <2>1, <2>2 DEF Sized, SizeKnown, Stopping, Unread, Coding, Decoding
<1>13. CASE DecodeLearn \/ DecodeUpdate \/ Store \/ Close
  <2>1. CASE DecodeLearn \/ DecodeUpdate
    <3>1. /\ stage \in {"shift in", "decoder learns"} /\ stage' \in {"decoder learns", "store"}
          /\ UNCHANGED <<input, pos, header, stop, eof_in, lost>>
        BY <2>1 DEF DecodeLearn, DecodeUpdate, reader, output
    <3> QED
        BY <1>17, <3>1, KeepSized DEF Stages, Final, Decoding, Coding
  <2>2. CASE Store
    <3>1. /\ stage = "store" /\ stage' = IF stop THEN "close" ELSE "decode"
          /\ UNCHANGED <<input, pos, header, stop, eof_in>>
        BY <2>2 DEF Store, reader
    <3> QED
        BY <1>0, <3>1, KeepSized DEF Stages, Final, Decoding, Coding
  <2>3. CASE Close
    <3>1. /\ stage = "close" /\ stage' = "done" /\ stop
          /\ UNCHANGED <<input, pos, header, stop, eof_in>>
        BY <2>3 DEF Close, reader, Sized, Stopping
    <3> QED
        BY <1>0, <3>1, KeepSized DEF Stages, Final, Decoding, Coding
  <2> QED
      BY <1>13, <2>1, <2>2, <2>3
<1>16. CASE UNCHANGED vars
  <2>1. UNCHANGED <<input, stage, pos, low, high, header, stop, eof_in, lost>>
      BY <1>16 DEF vars, reader, output, interval
  <2> QED
      BY <1>0, <2>1 DEF Sized, SizeKnown, Stopping, Apart, Unread
<1> QED
    BY <1>1, <1>2, <1>3, <1>4, <1>7, <1>8, <1>9, <1>10, <1>11, <1>12, <1>13, <1>16
    DEF Next, Encoder, Decoder, Terminated

-----------------------------------------------------------------------------
(* The end of the code *)

\* A one and then nothing but zeros is the middle of every interval.
LEMMA MiddleIsHalf ==
  ASSUME NEW C \in Stream, NEW n \in Nat, NEW u \in Nat,
         C[n] = 1, \A p \in Nat : n < p => C[p] = 0
  PROVE  Window(C, n, u) = Half /\ Held(C, n, u)
<1> DEFINE q == n + u + 1
<1>1. q \in Nat /\ \A k \in Nat : C[q + k] = 0
  <2>1. q \in Nat
      OBVIOUS
  <2>2. ASSUME NEW k \in Nat PROVE C[q + k] = 0
    <3>1. q + k \in Nat /\ n < q + k
        OBVIOUS
    <3> QED
        BY <3>1
  <2> QED
      BY <2>1, <2>2
<1> HIDE DEF q
<1>2. \A k \in 0 .. WordBits : Reading(C, q)[k] = 0
    BY <1>1, ReadingZeros
<1>3. Rest(C, q) = 0
  <2>1. WordBits - 1 \in 0 .. WordBits
      BY WordBitsAssumption
  <2> QED
      BY <1>2, <2>1 DEF Rest
<1>4. Window(C, n, u) = Half
    BY <1>3, Registers DEF Window, q
<1>5. ASSUME NEW i \in 1 .. u PROVE C[n + i] = 1 - C[n]
  <2>1. n + i \in Nat /\ n < n + i
      OBVIOUS
  <2> QED
      BY <2>1
<1> QED
    BY <1>4, <1>5 DEF Held

\* What dach_stop_encoder puts out after the bits of w, with u of them held back.
Selected(w, u) == WriteStream(w, 1, u + 1)
Ended(w, u) == BitOut(Selected(w, u), <<0>>)
Stopped(w, u) == BitOut(Pad(Ended(w, u)), <<0>>)

\* The whole code is in its words, and goes on with zeros.
LEMMA CodeEnds ==
  ASSUME NEW w, IsWriter(w), NEW u \in Nat
  PROVE  /\ Count(w) \in Nat /\ IsWriter(Stopped(w, u))
         /\ Count(w) + u < Span(Len(Stopped(w, u).code))
         /\ \E C \in Stream : /\ CarriesCode(C, Stopped(w, u).code) /\ Carries(C, w)
                              /\ C[Count(w)] = 1
                              /\ \A p \in Nat : Count(w) < p => C[p] = 0
<1> DEFINE selected == Selected(w, u)
           ended == Ended(w, u)
           padded == Pad(ended)
           last == Stopped(w, u)
           n == Count(w)
           zero == <<0>>
           m == Len(ended.code)
           L == Len(last.code)
<1>1. zero \in Seq({0, 1}) /\ zero # <<>> /\ Len(zero) = 1 /\ zero[1] = 0
    OBVIOUS
<1>2. /\ IsWriter(selected) /\ n \in Nat /\ Count(selected) = n + 1 + (u + 1)
      /\ \A C : Carries(C, selected) =>
            /\ Carries(C, w) /\ C[n] = 1
            /\ \A i \in 1 .. u + 1 : C[n + i] = 0
  <2>1. u + 1 \in Nat /\ 1 \in {0, 1}
      OBVIOUS
  <2>2. /\ IsWriter(WriteStream(w, 1, u + 1)) /\ Count(w) \in Nat
        /\ Count(WriteStream(w, 1, u + 1)) = Count(w) + 1 + (u + 1)
        /\ \A C : Carries(C, WriteStream(w, 1, u + 1)) =>
              /\ Carries(C, w) /\ C[Count(w)] = 1
              /\ \A i \in 1 .. u + 1 : C[Count(w) + i] = 1 - 1
      BY <2>1, WriteStreamCarries
  <2> QED
      BY <2>2 DEF Selected
<1> HIDE DEF selected, n, zero
<1>3. ended = BitOut(selected, zero) /\ ended = [io |-> ended.io, code |-> ended.code]
  <2>1. ended = BitOut(selected, zero)
      BY DEF Ended, selected, zero
  <2>2. BitOut(selected, zero) =
           [io |-> BitOut(selected, zero).io, code |-> BitOut(selected, zero).code]
      BY DEF BitOut
  <2> QED
      BY <2>1, <2>2
<1>4. last = BitOut(padded, zero)
    BY DEF Stopped, zero
<1> HIDE DEF ended
<1>5. /\ IsWriter(ended) /\ Len(ended.io) \in 1 .. WordBits
      /\ Count(ended) = n + u + 3
      /\ \A C : Carries(C, ended) => Carries(C, selected) /\ C[n + u + 2] = 0
  <2>1. /\ IsWriter(BitOut(selected, zero)) /\ Len(BitOut(selected, zero).io) \in 1 .. WordBits
        /\ Count(selected) \in Nat /\ Count(BitOut(selected, zero)) = Count(selected) + Len(zero)
      BY <1>1, <1>2, BitOutCounts
  <2>2. ASSUME NEW C, Carries(C, BitOut(selected, zero))
        PROVE  Carries(C, selected) /\ \A i \in 1 .. Len(zero) : C[Count(selected) + i - 1] = zero[i]
      BY <1>1, <1>2, <2>2, BitOutCarries
  <2>3. Count(selected) + Len(zero) = n + u + 3 /\ Count(selected) + 1 - 1 = n + u + 2
      BY <1>1, <1>2
  <2>4. 1 \in 1 .. Len(zero)
      BY <1>1
  <2>5. ASSUME NEW C, Carries(C, ended) PROVE Carries(C, selected) /\ C[n + u + 2] = 0
      BY <1>1, <1>3, <2>2, <2>3, <2>4, <2>5
  <2> QED
      BY <1>3, <2>1, <2>3, <2>5
<1>6. /\ IsWriter(padded) /\ Count(padded) = Span(m + 1) /\ Count(ended) <= Count(padded)
      /\ \A C : Carries(C, padded) =>
            /\ Carries(C, ended)
            /\ \A p \in Count(ended) .. Count(padded) - 1 : C[p] = 0
    BY <1>3, <1>5, PadCarries
<1> HIDE DEF padded, last
<1>7. /\ IsWriter(last) /\ Len(last.io) \in 1 .. WordBits
      /\ Count(padded) \in Nat /\ Count(last) = Count(padded) + 1
      /\ \A C : Carries(C, last) => Carries(C, padded) /\ C[Count(padded)] = 0
  <2>1. /\ IsWriter(BitOut(padded, zero)) /\ Len(BitOut(padded, zero).io) \in 1 .. WordBits
        /\ Count(padded) \in Nat /\ Count(BitOut(padded, zero)) = Count(padded) + Len(zero)
      BY <1>1, <1>6, BitOutCounts
  <2>2. ASSUME NEW C, Carries(C, BitOut(padded, zero))
        PROVE  Carries(C, padded) /\ \A i \in 1 .. Len(zero) : C[Count(padded) + i - 1] = zero[i]
      BY <1>1, <1>6, <2>2, BitOutCarries
  <2>3. 1 \in 1 .. Len(zero) /\ Count(padded) + 1 - 1 = Count(padded)
      BY <1>1, <2>1
  <2>4. ASSUME NEW C, Carries(C, last) PROVE Carries(C, padded) /\ C[Count(padded)] = 0
      BY <1>1, <1>4, <2>2, <2>3, <2>4
  <2> QED
      BY <1>1, <1>4, <2>1, <2>4
<1>8. L = m + 1
  <2>1. m \in Nat /\ L \in Nat /\ m + 1 \in Nat
      BY <1>5, <1>7 DEF IsWriter
  <2>2. Count(last) = Span(L) + Len(last.io)
      BY DEF Count
  <2>3. /\ Span(L) \in Nat /\ Span(m + 1) \in Nat
        /\ L < m + 1 => Span(L) + WordBits <= Span(m + 1)
        /\ m + 1 < L => Span(m + 1) + WordBits <= Span(L)
      BY <2>1, SpanMono, SpanAdds
  <2> DEFINE i == Len(last.io)
             k == m + 1
             a == Span(L)
             b == Span(k)
  <2>4. /\ i \in 1 .. WordBits /\ WordBits \in Nat /\ WordBits >= 3 /\ a \in Nat /\ b \in Nat
        /\ a + i = b + 1
        /\ L < k => a + WordBits <= b
        /\ k < L => b + WordBits <= a
        /\ L \in Nat /\ k \in Nat
      BY <1>6, <1>7, <2>1, <2>2, <2>3, WordBitsAssumption
  <2> HIDE DEF i, k, a, b, L
  <2>5. L = k
      BY ONLY <2>4
  <2> QED
      BY <2>5 DEF k
<1>9. n + u < Span(L)
  <2>1. n + u + 3 <= Span(m + 1) /\ Span(m + 1) \in Nat
      BY <1>5, <1>6, <1>7
  <2> QED
      BY <1>2, <1>8, <2>1
<1>10. PICK C \in Stream : Carries(C, last) /\ \A i \in Nat : C[Count(last) + i] = 0
  <2> DEFINE D == [i \in Nat |-> 0]
  <2>1. D \in Stream /\ \A i \in Nat : D[i] = 0
      BY DEF Stream
  <2> HIDE DEF D
  <2>2. \E C \in Stream : Carries(C, last) /\ \A i \in Nat : C[Count(last) + i] = D[i]
      BY <1>7, <2>1, StreamExists
  <2> QED
      BY <2>1, <2>2
<1>11. /\ Carries(C, w) /\ C[n] = 1
       /\ \A i \in 1 .. u + 1 : C[n + i] = 0
       /\ C[n + u + 2] = 0
       /\ \A p \in n + u + 3 .. Count(padded) - 1 : C[p] = 0
       /\ C[Count(padded)] = 0
  <2>1. Carries(C, padded) /\ C[Count(padded)] = 0
      BY <1>7, <1>10
  <2>2. Carries(C, ended) /\ \A p \in n + u + 3 .. Count(padded) - 1 : C[p] = 0
      BY <1>5, <1>6, <2>1
  <2>3. Carries(C, selected) /\ C[n + u + 2] = 0
      BY <1>5, <2>2
  <2> QED
      BY <1>2, <2>1, <2>2, <2>3
<1>12. ASSUME NEW p \in Nat, n < p PROVE C[p] = 0
  <2>1. CASE p <= n + u + 1
    <3> DEFINE i == p - n
    <3>1. i \in 1 .. u + 1 /\ n + i = p
        BY <1>2, <1>12, <2>1
    <3> HIDE DEF i
    <3>2. C[n + i] = 0
        BY <1>11, <3>1
    <3> QED
        BY <3>1, <3>2
  <2>2. CASE p = n + u + 2
      BY <1>11, <2>2
  <2>3. CASE p >= n + u + 3 /\ p < Count(padded)
    <3>1. p \in n + u + 3 .. Count(padded) - 1
        BY <1>2, <1>7, <2>3
    <3> QED
        BY <1>11, <3>1
  <2>4. CASE p = Count(padded)
      BY <1>11, <2>4
  <2>5. CASE p > Count(padded)
    <3> DEFINE i == p - Count(last)
    <3>1. i \in Nat /\ Count(last) + i = p
        BY <1>7, <2>5
    <3> HIDE DEF i
    <3>2. C[Count(last) + i] = 0
        BY <1>10, <3>1
    <3> QED
        BY <3>1, <3>2
  <2> QED
      BY <1>2, <1>7, <2>1, <2>2, <2>3, <2>4, <2>5
<1>13. CarriesCode(C, last.code)
    BY <1>10 DEF Carries
<1> QED
    BY <1>2, <1>7, <1>9, <1>11, <1>12, <1>13 DEF n, last

\* Fewer bits than fill a register make a number below the middle.
LEMMA ReadingSmall ==
  ASSUME NEW C \in Stream, NEW p \in Nat, NEW k \in 0 .. WordBits - 1
  PROVE  Reading(C, p)[k] \in Nat /\ Reading(C, p)[k] < Half
<1>1. WordBits \in Nat \ {0}
    BY WordBitsAssumption
<1> DEFINE G == {d \in Nat : d <= WordBits - 1 => Reading(C, p)[WordBits - 1 - d] < Half}
<1>2. 0 \in G
  <2>1. Rest(C, p) < Half
      BY RestSlides
  <2>2. WordBits - 1 - 0 = WordBits - 1
      BY <1>1
  <2> QED
      BY <2>1, <2>2 DEF Rest
<1>3. ASSUME NEW d \in Nat, d \in G PROVE d + 1 \in G
  <2> DEFINE i == WordBits - 1 - (d + 1)
             j == WordBits - 1 - d
  <2> SUFFICES ASSUME d + 1 <= WordBits - 1 PROVE Reading(C, p)[i] < Half
      OBVIOUS
  <2>1. i \in 0 .. WordBits - 1 /\ j = i + 1
      BY <1>1
  <2>2. Reading(C, p)[j] < Half
      BY <1>1, <1>3
  <2> HIDE DEF i, j
  <2>3. /\ Reading(C, p)[i] \in Nat /\ Reading(C, p)[j] = 2 * Reading(C, p)[i] + C[p + i]
        /\ C[p + i] \in {0, 1}
      BY <2>1, ReadingNext
  <2> QED
      BY <2>2, <2>3, Registers
<1> HIDE DEF G
<1> DEFINE e == WordBits - 1 - k
<1>4. e \in Nat /\ e <= WordBits - 1 /\ WordBits - 1 - e = k
    BY <1>1
<1>5. e \in G
    BY <1>2, <1>3, <1>4, Inductive
<1>6. Reading(C, p)[k] \in Nat
  <2>1. k \in 0 .. WordBits
      BY <1>1
  <2> QED
      BY <2>1, ReadingIs
<1> QED
    BY <1>4, <1>5, <1>6 DEF G

-----------------------------------------------------------------------------
(* The decoder reads the code that the encoder has written *)

\* The decoder has taken the first q bits of C; the next are in io_buffer.
Taken(C, q) == /\ \A i \in 1 .. Len(io) : io[i] = C[q + i - 1]
               /\ q + Len(io) = IF eof_in THEN Span(Len(code) + 1) ELSE Span(nread)
               /\ eof_in => nread = Len(code)

\* dach_bitin returns the next bit of the stream.
LEMMA TakeBit ==
  ASSUME Bits, NEW C, NEW q \in Nat, Taken(C, q), CarriesCode(C, code), MayRead,
         eof_in' => \A p \in Nat : Span(Len(code)) <= p => C[p] = 0,
         io' = Tail(Buffer), TakeBuffer, code' = code
  PROVE  Head(Buffer) = C[q] /\ Taken(C, q + 1)' /\ Len(io') = Len(Buffer) - 1
<1>1. /\ Buffer \in Seq({0, 1}) /\ Buffer # <<>>
      /\ nread \in Nat /\ Len(code) \in Nat /\ nread <= Len(code)
      /\ io \in Seq({0, 1}) /\ Len(io) \in Nat
      /\ WordBits \in Nat
    BY BufferFits, WordBitsAssumption DEF Bits
<1>2. /\ Len(Buffer) \in Nat \ {0} /\ Len(io') = Len(Buffer) - 1
      /\ Head(Buffer) = Buffer[1]
      /\ \A i \in 1 .. Len(io') : io'[i] = Buffer[i + 1]
  <2>1. Len(Buffer) \in Nat \ {0}
      BY <1>1, EmptySeq
  <2> QED
      BY <1>1, <2>1, HeadTailProperties
<1>3. /\ \A i \in 1 .. Len(Buffer) : Buffer[i] = C[q + i - 1]
      /\ q + Len(Buffer) = IF eof_in' THEN Span(Len(code) + 1) ELSE Span(nread')
      /\ eof_in' => nread' = Len(code)
  <2>1. CASE ~Refill
    <3>1. Buffer = io /\ nread' = nread /\ eof_in' = eof_in
        BY <2>1 DEF Buffer, TakeBuffer, Bits
    <3> QED
        BY <3>1 DEF Taken
  <2>2. CASE Refill
    <3>1. io = <<>> /\ Len(io) = 0 /\ eof_in = FALSE
        BY <2>2 DEF Refill, MayRead, Bits
    <3>2. q = Span(nread)
        BY <3>1 DEF Taken
    <3>3. Span(nread + 1) = Span(nread) + WordBits
        BY <1>1, SpanAdds
    <3>4. CASE nread < Len(code)
      <4>1. /\ Buffer = code[nread + 1] /\ nread' = nread + 1 /\ eof_in' = FALSE
        <5>1. nread # Len(code)
            BY <1>1, <3>4
        <5>2. eof_in' = FALSE
            BY <3>1, <5>1 DEF TakeBuffer
        <5> QED
            BY <2>2, <3>4, <5>2 DEF Buffer, TakeBuffer
      <4> DEFINE k == nread + 1
      <4>2. k \in 1 .. Len(code) /\ k - 1 = nread
          BY <1>1, <3>4
      <4>3. code[k] \in Word
          BY <4>2 DEF Bits
      <4>4. Len(Buffer) = WordBits
          BY <1>1, <4>1, <4>3, FunctionIsSeq DEF Word
      <4> HIDE DEF k
      <4>5. ASSUME NEW i \in 1 .. Len(Buffer) PROVE Buffer[i] = C[q + i - 1]
        <5>1. C[Span(k - 1) + i - 1] = code[k][i]
            BY <4>2, <4>4 DEF CarriesCode
        <5> QED
            BY <3>2, <4>1, <4>2, <5>1 DEF k
      <4> QED
          BY <3>2, <3>3, <4>1, <4>4, <4>5
    <3>5. CASE ~(nread < Len(code))
      <4>1. nread = Len(code)
          BY <1>1, <3>5
      <4>2. /\ Buffer = [i \in 1 .. WordBits |-> 0] /\ nread' = nread /\ eof_in' = TRUE
          BY <2>2, <3>5, <4>1 DEF Buffer, TakeBuffer
      <4>3. Len(Buffer) = WordBits /\ \A i \in 1 .. WordBits : Buffer[i] = 0
        <5>1. [i \in 1 .. WordBits |-> 0] \in [1 .. WordBits -> {0, 1}]
            OBVIOUS
        <5>2. Len([i \in 1 .. WordBits |-> 0]) = WordBits
            BY <1>1, <5>1, FunctionIsSeq
        <5> QED
            BY <4>2, <5>2
      <4>4. ASSUME NEW i \in 1 .. Len(Buffer) PROVE Buffer[i] = C[q + i - 1]
        <5>1. q + i - 1 \in Nat /\ Span(Len(code)) <= q + i - 1
            BY <1>1, <3>2, <4>1, <4>3
        <5> QED
            BY <4>2, <4>3, <5>1
      <4> QED
          BY <3>2, <3>3, <4>1, <4>2, <4>3, <4>4
    <3> QED
        BY <3>4, <3>5
  <2> QED
      BY <2>1, <2>2
<1>4. Head(Buffer) = C[q]
  <2>1. 1 \in 1 .. Len(Buffer) /\ q + 1 - 1 = q
      BY <1>2
  <2> QED
      BY <1>2, <1>3, <2>1
<1>5. ASSUME NEW i \in 1 .. Len(io') PROVE io'[i] = C[q + 1 + i - 1]
  <2> DEFINE k == i + 1
  <2>1. k \in 1 .. Len(Buffer) /\ q + k - 1 = q + 1 + i - 1 /\ io'[i] = Buffer[k]
      BY <1>2
  <2> HIDE DEF k
  <2>2. Buffer[k] = C[q + k - 1]
      BY <1>3, <2>1
  <2> QED
      BY <2>1, <2>2
<1>6. q + 1 + Len(io') = q + Len(Buffer)
    BY <1>2
<1> QED
    BY <1>2, <1>3, <1>4, <1>5, <1>6 DEF Taken

\* The file has been coded to its end.
Finished(e) == e.part = "symbol" /\ e.pos = Len(input)

\* C begins with the words of the code.  It leads the coder through the states in
\* H to e: to the end of the file, or at least as far as there are words of it.
\* A code that has not been cut off goes on behind that end, and then with zeros.
Coded(C, H, e) ==
    /\ C \in Stream /\ CarriesCode(C, code)
    /\ Path(input, H, e) /\ \A c \in H : Within(C, c)
    /\ Finished(e) \/ Span(Len(code)) <= e.n
    /\ lost # "code" => /\ Finished(e) /\ e.n + e.u < Span(Len(code))
                        /\ \A p \in Nat : Span(Len(code)) <= p => C[p] = 0

\* The decoder has read the beginning of the code, k bits so far.
Filling(C) == \E k \in 0 .. WordBits - 1 :
                 /\ Taken(C, k) /\ esym = Reading(C, 0)[k]
                 /\ Len(io) = IF k = 0 THEN 0 ELSE WordBits - k

\* The decoder goes where the encoder went, and sees of the code what comes next.
Synced(C, H) ==
    IF stage = "fill" THEN At("symbol", 0, 0) = First /\ Filling(C)
    ELSE \E n \in Nat, u \in Nat : /\ At(PartNow, n, u) \in H /\ esym = Window(C, n, u)
                                   /\ Taken(C, n + u + WordBits)

\* What the decoder reads leads it where the encoder went, unless it reads on
\* behind the words that are left of a code.
DecoderFollows ==
    /\ stage = "encoded" => \E C, H, e : Coded(C, H, e)
    /\ stage \in {"fill"} \cup Decoding /\ ~stop /\ (lost = "code" => ~eof_in)
          => \E C, H, e : Coded(C, H, e) /\ Synced(C, H)

\* A step that leaves the code alone.
LEMMA KeepCoded ==
  ASSUME NEW C, NEW H, NEW e, Coded(C, H, e), UNCHANGED <<input, code>>,
         lost' = "code" <=> lost = "code"
  PROVE  Coded(C, H, e)'
BY DEF Coded, Finished

\* As long as there is a byte to come the encoder has gone on from here.
LEMMA NotAtEnd ==
  ASSUME CodecInv, NEW C, NEW H, NEW e, Coded(C, H, e), NEW part, NEW n \in Nat, NEW u \in Nat,
         At(part, n, u) \in H, Taken(C, n + u + WordBits), lost = "code" => ~eof_in,
         part # "symbol" \/ pos < Len(input)
  PROVE  After(input, At(part, n, u)) \in H
<1> SUFFICES ASSUME At(part, n, u) = e PROVE FALSE
    BY DEF Coded, Path
<1>1. e.part = part /\ e.pos = pos /\ e.n = n
    BY DEF At, Coder
<1>2. ~Finished(e)
    BY <1>1, Types DEF Finished
<1>3. Span(Len(code)) <= n /\ ~eof_in
    BY <1>1, <1>2 DEF Coded
<1>4. n + u + WordBits + Len(io) = Span(nread)
    BY <1>3 DEF Taken
<1>5. nread \in Nat /\ Len(code) \in Nat /\ nread <= Len(code) /\ Len(io) \in Nat
      /\ WordBits \in Nat \ {0}
    BY WordBitsAssumption DEF CodecInv, Bits
<1>6. Span(nread) <= Span(Len(code)) /\ Span(nread) \in Nat /\ Span(Len(code)) \in Nat
    BY <1>5, SpanMono, SpanAdds
<1> QED
    BY <1>3, <1>4, <1>5, <1>6

\* There is always a bit to read where the encoder has shifted one out.
LEMMA CodeSuffices ==
  ASSUME CodecInv, NEW C, NEW H, NEW e, Coded(C, H, e), NEW c \in H,
         Taken(C, c.n + c.u + WordBits), lost # "code"
  PROVE  MayRead
<1> SUFFICES ASSUME Refill, eof_in PROVE FALSE
    BY DEF MayRead
<1>1. c.n \in Nat /\ c.u \in Nat /\ c.n + c.u <= e.n + e.u /\ e.n \in Nat /\ e.u \in Nat
    BY DEF Coded, Path
<1>2. e.n + e.u < Span(Len(code))
    BY DEF Coded
<1>3. Len(code) \in Nat /\ WordBits \in Nat /\ Len(io) = 0
    BY WordBitsAssumption DEF CodecInv, Bits, Refill
<1>4. Span(Len(code) + 1) = Span(Len(code)) + WordBits /\ Span(Len(code)) \in Nat
    BY <1>3, SpanAdds
<1>5. c.n + c.u + WordBits + Len(io) = Span(Len(code) + 1)
    BY DEF Taken
<1> QED
    BY <1>1, <1>2, <1>3, <1>4, <1>5

\* dach_stop_encoder: the point it selects is in the interval.
LEMMA StopFollows ==
  ASSUME CodecInv, EncoderTraced, StopEncoder PROVE DecoderFollows'
<1> DEFINE last == Stopped(Writer, underflow)
<1>1. /\ stage = "encode" /\ pos = Len(input) /\ low \in Nat /\ low < Half /\ Half <= high
      /\ UNCHANGED <<input, lost>>
    BY Types DEF StopEncoder, CodecInv, Interval, Wide
<1>2. stage' = "encoded" /\ code' = last.code
  <2>1. ~(low >= Half)
      BY <1>1, Registers
  <2> QED
      BY <2>1 DEF StopEncoder, Written, Stopped, Ended, Selected
<1> HIDE DEF last
<1>3. PICK u, n, e :
         /\ u \in Nat /\ n \in Nat
         /\ u = underflow /\ n = Count(Writer) /\ e = At("symbol", Count(Writer), underflow)
    BY WriterFits
<1>4. e.n = n /\ e.u = u /\ e.low = low /\ e.high = high /\ e.part = "symbol" /\ e.pos = pos
    BY <1>3 DEF At, Coder
<1>5. PICK H : /\ Path(input, H, e)
               /\ \A C \in Stream : Carries(C, Writer) /\ Within(C, e) /\ Held(C, e.n, e.u)
                                       => \A c \in H : Within(C, c)
    BY <1>1, <1>3 DEF EncoderTraced, PartNow, Coding, Traced
<1>6. /\ n + u < Span(Len(last.code)) /\ IsWriter(last)
      /\ \E C \in Stream : /\ CarriesCode(C, last.code) /\ Carries(C, Writer)
                           /\ C[n] = 1
                           /\ \A p \in Nat : n < p => C[p] = 0
    BY <1>3, WriterFits, CodeEnds DEF last
<1>7. PICK C \in Stream : /\ CarriesCode(C, last.code) /\ Carries(C, Writer)
                          /\ C[n] = 1
                          /\ \A p \in Nat : n < p => C[p] = 0
    BY <1>6
<1>8. Window(C, n, u) = Half /\ Held(C, n, u)
    BY <1>3, <1>7, MiddleIsHalf
<1>9. \A c \in H : Within(C, c)
  <2>1. Within(C, e)
      BY <1>1, <1>4, <1>8, Registers DEF Within
  <2> QED
      BY <1>4, <1>5, <1>7, <1>8, <2>1
<1>10. ASSUME NEW p \in Nat, Span(Len(code')) <= p PROVE C[p] = 0
  <2>1. Len(last.code) \in Nat
      BY <1>6 DEF IsWriter
  <2>2. n < p
    <3>1. n + u < Span(Len(last.code)) /\ Span(Len(last.code)) <= p /\ Span(Len(last.code)) \in Nat
        BY <1>2, <1>6, <1>10, <2>1, SpanAdds
    <3>2. u \in Nat /\ n \in Nat /\ p \in Nat
        BY <1>3
    <3> QED
        BY ONLY <3>1, <3>2
  <2> QED
      BY <1>7, <2>2
<1>11. Coded(C, H, e)'
  <2>1. CarriesCode(C, code')
      BY <1>2, <1>7
  <2>2. Path(input', H, e)
      BY <1>1, <1>5
  <2>3. Finished(e)'
      BY <1>1, <1>4 DEF Finished
  <2>4. e.n + e.u < Span(Len(code'))
      BY <1>2, <1>4, <1>6
  <2> QED
      BY <1>9, <1>10, <2>1, <2>2, <2>3, <2>4 DEF Coded
<1> QED
    BY <1>2, <1>11 DEF DecoderFollows, Decoding

\* A beginning of a code is the code of a beginning.
LEMMA CutCarries ==
  ASSUME NEW C, CarriesCode(C, code), code \in Seq(Word),
         (\E m \in 0 .. Len(code) : code' = SubSeq(code, 1, m)) \/ code' = <<>>
  PROVE  CarriesCode(C, code') /\ Span(Len(code')) <= Span(Len(code))
<1>1. PICK m \in 0 .. Len(code) : Len(code') = m /\ \A k \in 1 .. m : code'[k] = code[k]
  <2>1. Len(code) \in Nat
      OBVIOUS
  <2>2. CASE code' = <<>>
    <3>1. Len(code') = 0 /\ 0 \in 0 .. Len(code)
        BY <2>1, <2>2
    <3> QED
        BY <3>1
  <2>3. ASSUME NEW m \in 0 .. Len(code), code' = SubSeq(code, 1, m)
        PROVE  Len(code') = m /\ \A k \in 1 .. m : code'[k] = code[k]
    <3>1. \A i \in 1 .. m : code[i] \in Word
        BY <2>1
    <3>2. /\ Len(SubSeq(code, 1, m)) = IF 1 <= m THEN m - 1 + 1 ELSE 0
          /\ \A i \in 1 .. m - 1 + 1 : SubSeq(code, 1, m)[i] = code[1 + i - 1]
        BY <2>1, <3>1, SubSeqProperties
    <3> QED
        BY <2>1, <2>3, <3>2
  <2> QED
      BY <2>2, <2>3
<1>2. CarriesCode(C, code')
  <2> SUFFICES ASSUME NEW k \in 1 .. Len(code'), NEW i \in 1 .. WordBits
               PROVE  C[Span(k - 1) + i - 1] = code'[k][i]
      BY DEF CarriesCode
  <2>1. k \in 1 .. Len(code) /\ code'[k] = code[k]
      BY <1>1
  <2> QED
      BY <2>1 DEF CarriesCode
<1>3. Span(Len(code')) <= Span(Len(code))
  <2>1. Len(code') \in Nat /\ Len(code) \in Nat /\ Len(code') <= Len(code)
      BY <1>1
  <2> QED
      BY <2>1, SpanMono
<1> QED
    BY <1>2, <1>3

\* Some words of the code are lost: the rest leads as far as it goes.
LEMMA LoseFollows ==
  ASSUME CodecInv, EncoderTraced, DecoderFollows, LoseCode PROVE DecoderFollows'
<1>1. /\ stage \in Coding \cup {"encoded"} /\ stage' = "encoded" /\ lost' = "code"
      /\ input' = input
      /\ (\E m \in 0 .. Len(code) : code' = SubSeq(code, 1, m)) \/ code' = <<>>
    BY DEF LoseCode, Coding
<1>2. code \in Seq(Word)
    BY DEF CodecInv, Bits
<1>3. \E C, H, e : /\ C \in Stream /\ CarriesCode(C, code)
                   /\ Path(input, H, e) /\ \A c \in H : Within(C, c)
                   /\ Finished(e) \/ Span(Len(code)) <= e.n
                   /\ e.n \in Nat
  <2>1. CASE stage = "encoded"
      BY <2>1 DEF DecoderFollows, Coded, Path
  <2>2. CASE stage \in Coding
    <3>1. PICK u, n, e :
             /\ u \in Nat /\ n \in Nat
             /\ u = underflow /\ n = Count(Writer) /\ e = At(PartNow, Count(Writer), underflow)
        BY WriterFits
    <3>2. e.n = n /\ e.u = u /\ e.low = low /\ e.high = high
        BY <3>1 DEF At, Coder
    <3>3. PICK H : /\ Path(input, H, e)
                   /\ \A C \in Stream : Carries(C, Writer) /\ Within(C, e) /\ Held(C, e.n, e.u)
                                           => \A c \in H : Within(C, c)
        BY <2>2, <3>1 DEF EncoderTraced, Traced
    <3>4. low \in 0 .. Top /\ low \in Nat /\ high \in Nat /\ low <= high
        BY Types DEF CodecInv, Interval
    <3>5. PICK C \in Stream : Carries(C, Writer) /\ Window(C, n, u) = low /\ Held(C, n, u)
        BY <3>1, <3>4, WriterFits, StreamInto
    <3>6. \A c \in H : Within(C, c)
      <4>1. Within(C, e)
          BY <3>2, <3>4, <3>5 DEF Within
      <4> QED
          BY <3>2, <3>3, <3>5, <4>1
    <3>7. CarriesCode(C, code)
        BY <3>5 DEF Carries, Writer
    <3>8. Span(Len(code)) <= n
      <4>1. Len(code) \in Nat /\ Len(io) \in Nat /\ Writer.io = io /\ Writer.code = code
          BY DEF CodecInv, Bits, Writer
      <4>2. Span(Len(code)) \in Nat
          BY <4>1, SpanAdds
      <4> QED
          BY <3>1, <4>1, <4>2 DEF Count
    <3> QED
        BY <3>1, <3>2, <3>3, <3>5, <3>6, <3>7, <3>8
  <2> QED
      BY <1>1, <2>1, <2>2
<1>4. PICK C, H, e : /\ C \in Stream /\ CarriesCode(C, code)
                     /\ Path(input, H, e) /\ \A c \in H : Within(C, c)
                     /\ Finished(e) \/ Span(Len(code)) <= e.n
                     /\ e.n \in Nat
    BY <1>3
<1>5. CarriesCode(C, code') /\ Span(Len(code')) <= Span(Len(code))
    BY <1>1, <1>2, <1>4, CutCarries
<1>6. Finished(e)' \/ Span(Len(code')) <= e.n
  <2>1. CASE Finished(e)
      BY <1>1, <2>1 DEF Finished
  <2>2. CASE Span(Len(code)) <= e.n
    <3>1. Len(code) \in Nat /\ Len(code') \in Nat
      <4>1. code' \in Seq(Word)
          BY LoseCodeStep DEF CodecInv, Bits
      <4> QED
          BY <1>2, <4>1
    <3>2. Span(Len(code)) \in Nat /\ Span(Len(code')) \in Nat
        BY <3>1, SpanAdds
    <3> QED
        BY <1>4, <1>5, <2>2, <3>2
  <2> QED
      BY <1>4, <2>1, <2>2
<1>7. Path(input', H, e)
    BY <1>1, <1>4
<1>8. Coded(C, H, e)'
    BY <1>1, <1>4, <1>5, <1>6, <1>7 DEF Coded
<1> QED
    BY <1>1, <1>8 DEF DecoderFollows, Decoding

\* A new decoder is where the encoder began.
LEMMA OpenFollows ==
  ASSUME CodecInv, DecoderFollows, OpenCode PROVE DecoderFollows'
<1>1. /\ stage = "encoded" /\ PpmReset /\ stage' = "fill"
      /\ pos' = 0 /\ low' = 0 /\ high' = Top /\ cur' = 0
      /\ io' = <<>> /\ nread' = 0 /\ eof_in' = FALSE /\ esym' = 0
      /\ UNCHANGED <<input, code, lost>>
    BY DEF OpenCode
<1>2. PICK C, H, e : Coded(C, H, e)
    BY <1>1 DEF DecoderFollows
<1>3. Coded(C, H, e)'
    BY <1>1, <1>2, KeepCoded
<1>4. At("symbol", 0, 0)' = First
  <2>1. Model' = NewModel
      BY <1>1 DEF PpmReset, Model, NewModel, Table
  <2> QED
      BY <1>1, <2>1 DEF At, First
<1>5. Filling(C)'
  <2>1. Len(io') = 0 /\ Span(0) = 0 /\ 0 \in 0 .. WordBits - 1
      BY <1>1, SpanAdds, WordBitsAssumption
  <2>2. Reading(C, 0)[0] = 0
      BY <1>2, ReadingIs DEF Coded, Reads
  <2>3. Taken(C, 0)'
      BY <1>1, <2>1 DEF Taken
  <2> QED
      BY <1>1, <2>1, <2>2, <2>3 DEF Filling
<1> QED
    BY <1>1, <1>3, <1>4, <1>5 DEF DecoderFollows, Synced

\* dach_start_decoder takes the first WordBits bits.
LEMMA FillFollows ==
  ASSUME CodecInv, DecoderFollows, FillWindow PROVE DecoderFollows'
<1>1. /\ stage = "fill" /\ esym' = Shl(esym) + Head(Buffer) /\ io' = Tail(Buffer) /\ TakeBuffer
      /\ stage' = IF Len(Buffer) = 1 THEN "decode" ELSE stage
      /\ UNCHANGED <<ppm, input, pos, interval, cur, code, lost, stop>>
    BY DEF FillWindow, output
<1> SUFFICES ASSUME ~stop, lost = "code" => ~eof_in'
             PROVE  \E C, H, e : Coded(C, H, e)' /\ Synced(C, H)'
    BY <1>1 DEF DecoderFollows
<1>2. lost = "code" => ~eof_in
    BY <1>1 DEF TakeBuffer
<1>3. PICK C, H, e : Coded(C, H, e) /\ At("symbol", 0, 0) = First /\ Filling(C)
    BY <1>1, <1>2 DEF DecoderFollows, Synced
<1>4. PICK k \in 0 .. WordBits - 1 : /\ Taken(C, k) /\ esym = Reading(C, 0)[k]
                                     /\ Len(io) = IF k = 0 THEN 0 ELSE WordBits - k
    BY <1>3 DEF Filling
<1>5. C \in Stream /\ CarriesCode(C, code) /\ WordBits \in Nat /\ WordBits >= 3
    BY <1>3, WordBitsAssumption DEF Coded
<1>6. Coded(C, H, e)'
    BY <1>1, <1>3, KeepCoded
<1>7. At("symbol", 0, 0)' = First
  <2>1. Model' = Model
      BY <1>1 DEF Model, ppm, table
  <2> QED
      BY <1>1, <1>3, <2>1 DEF At, interval
<1> DEFINE j == k + 1
<1>8. Head(Buffer) = C[k] /\ Taken(C, j)' /\ Len(io') = Len(Buffer) - 1
  <2>1. MayRead
    <3> SUFFICES ASSUME io = <<>>, eof_in PROVE FALSE
        BY DEF MayRead, Refill
    <3>1. k + 0 = Span(Len(code) + 1) /\ Len(io) = 0
        BY <1>4 DEF Taken
    <3>2. k = 0
        BY <1>4, <1>5, <3>1
    <3>3. Len(code) \in Nat
        BY DEF CodecInv, Bits
    <3>4. Span(Len(code) + 1) = Span(Len(code)) + WordBits /\ Span(Len(code)) \in Nat
        BY <3>3, SpanAdds
    <3> QED
        BY <1>5, <3>1, <3>2, <3>4
  <2>2. eof_in' => \A p \in Nat : Span(Len(code)) <= p => C[p] = 0
      BY <1>3 DEF Coded
  <2>3. Bits /\ k \in Nat
      BY <1>5 DEF CodecInv
  <2> QED
      BY <1>1, <1>4, <1>5, <2>1, <2>2, <2>3, TakeBit
<1>9. esym' = Reading(C, 0)[j]
  <2>1. Reading(C, 0)[k] \in Nat /\ Reading(C, 0)[k] < Half
      BY <1>5, ReadingSmall
  <2>2. Shl(esym) = 2 * Reading(C, 0)[k]
    <3>1. esym \in 0 .. Top /\ esym < Half
        BY <1>4, <2>1 DEF CodecInv, Interval
    <3> QED
        BY <1>4, <3>1, ShlFits
  <2>3. Reading(C, 0)[j] = 2 * Reading(C, 0)[k] + C[0 + k]
      BY <1>5, ReadingNext
  <2> QED
      BY <1>1, <1>8, <2>2, <2>3
<1>10. Len(Buffer) = WordBits - k
  <2>1. CASE k = 0
    <3>1. io = <<>>
        BY <1>4, <2>1 DEF CodecInv, Bits
    <3>2. Buffer \in Word
      <4>1. nread < Len(code) => code[nread + 1] \in Word
        <5>1. nread \in Nat /\ Len(code) \in Nat /\ code \in Seq(Word)
            BY DEF CodecInv, Bits
        <5> QED
            BY <5>1
      <4> QED
          BY <3>1, <4>1 DEF Buffer, Refill, Word
    <3> QED
        BY <1>5, <2>1, <3>2, FunctionIsSeq DEF Word
  <2>2. CASE k # 0
    <3>1. Len(io) = WordBits - k /\ Len(io) # 0
        BY <1>4, <1>5, <2>2
    <3>2. io # <<>>
        BY <3>1
    <3> QED
        BY <3>1, <3>2 DEF Buffer, Refill
  <2> QED
      BY <2>1, <2>2
<1>11. CASE Len(Buffer) = 1
  <2>1. stage' = "decode" /\ j = WordBits
    <3>1. WordBits - k = 1 /\ k \in Nat /\ WordBits \in Nat
      <4>1. k \in Nat
          BY <1>5
      <4> QED
          BY <1>5, <1>10, <1>11, <4>1
    <3>2. j = WordBits
        BY ONLY <3>1
    <3> QED
        BY <1>1, <1>11, <3>2
  <2>2. PartNow' = "symbol"
      BY <2>1 DEF PartNow
  <2>3. Window(C, 0, 0) = esym'
    <3>1. 1 = 0 + 1 /\ 0 + 0 + 1 = 1
        OBVIOUS
    <3>2. Reading(C, 0)[WordBits] = (IF C[0] = 1 THEN Half ELSE 0) + Rest(C, 1)
        BY <1>5, <3>1, RestSlides
    <3> QED
        BY <1>9, <2>1, <3>1, <3>2 DEF Window
  <2>4. At(PartNow, 0, 0)' \in H
      BY <1>3, <1>7, <2>2 DEF Coded, Path
  <2>5. Taken(C, 0 + 0 + WordBits)'
      BY <1>5, <1>8, <2>1
  <2>6. Synced(C, H)'
    <3>1. 0 \in Nat /\ esym' = Window(C, 0, 0)
        BY <2>3
    <3> QED
        BY <2>1, <2>4, <2>5, <3>1 DEF Synced
  <2> QED
      BY <1>6, <2>6
<1>12. CASE Len(Buffer) # 1
  <2>1. stage' = "fill" /\ j \in 0 .. WordBits - 1 /\ Len(io') = WordBits - j /\ j # 0
      BY <1>1, <1>5, <1>8, <1>10, <1>12
  <2> HIDE DEF j
  <2>2. Filling(C)'
      BY <1>8, <1>9, <2>1 DEF Filling
  <2>3. Synced(C, H)'
      BY <1>7, <2>1, <2>2 DEF Synced
  <2> QED
      BY <1>6, <2>3
<1> QED
    BY <1>11, <1>12

\* What the invariant says of a decoder that is under way.
LEMMA Following ==
  ASSUME DecoderFollows, stage \in Decoding, ~stop, lost = "code" => ~eof_in
  PROVE  \E C, H, e, n, u :
            /\ n \in Nat /\ u \in Nat /\ Coded(C, H, e) /\ At(PartNow, n, u) \in H /\ esym = Window(C, n, u)
            /\ Taken(C, n + u + WordBits)
<1>1. stage # "fill"
    BY DEF Decoding
<1>2. PICK C, H, e : Coded(C, H, e) /\ Synced(C, H)
    BY DEF DecoderFollows
<1>3. PICK n \in Nat, u \in Nat : /\ At(PartNow, n, u) \in H /\ esym = Window(C, n, u)
                                 /\ Taken(C, n + u + WordBits)
    BY <1>1, <1>2 DEF Synced
<1> QED
    BY <1>2, <1>3

\* The symbol it finds is the next one of the file, whose share the encoder took.
LEMMA FindsNext ==
  ASSUME CodecInv, stage = "decode", pos < Len(input),
         NEW C, NEW H, NEW e, NEW n \in Nat, NEW u \in Nat, Coded(C, H, e),
         esym = Window(C, n, u), After(input, At("symbol", n, u)) \in H
  PROVE  Found = NextSym
<1> DEFINE d == After(input, At("symbol", n, u))
<1>1. d = Coder(Model, pos + 1, LowScale(NextSym), HighScale(NextSym), NextSym, "shift", n, u)
    BY NarrowTo
<1>2. d.low = LowScale(NextSym) /\ d.high = HighScale(NextSym) /\ d.n = n /\ d.u = u
    BY <1>1 DEF Coder
<1> HIDE DEF d
<1>3. Within(C, d)
    BY DEF Coded, d
<1>4. LowScale(NextSym) <= esym /\ esym <= HighScale(NextSym)
    BY <1>2, <1>3 DEF Within
<1>5. NextSym \in Sym
    BY NextSymIs
<1>6. IInv /\ phase = "ready" /\ low <= esym /\ esym <= high
    BY DEF CodecInv, Learning, Interval, Decoding
<1> QED
    BY <1>4, <1>5, <1>6, Types, FoundIs

\* The same, of a decoder that is in step with the encoder.
LEMMA SyncedFound ==
  ASSUME CodecInv, DecoderFollows, stage = "decode", pos < Len(input), ~stop,
         lost = "code" => ~eof_in
  PROVE  /\ Found = NextSym
         /\ \E C, H, e, n, u :
               /\ n \in Nat /\ u \in Nat /\ Coded(C, H, e) /\ After(input, At("symbol", n, u)) \in H
               /\ esym = Window(C, n, u) /\ Taken(C, n + u + WordBits)
<1>1. PICK C, H, e, n, u :
         /\ n \in Nat /\ u \in Nat /\ Coded(C, H, e) /\ At(PartNow, n, u) \in H /\ esym = Window(C, n, u)
         /\ Taken(C, n + u + WordBits)
    BY Following DEF Decoding
<1>2. PartNow = "symbol"
    BY DEF PartNow
<1>3. After(input, At("symbol", n, u)) \in H
    BY <1>1, <1>2, NotAtEnd
<1>4. Found = NextSym
    BY <1>1, <1>3, FindsNext
<1> QED
    BY <1>1, <1>3, <1>4

\* The rest of decode(), where it moves on in step with the encoder.
LEMMA NarrowFollows ==
  ASSUME CodecInv, DecoderFollows, DecodeNarrow PROVE DecoderFollows'
<1>1. /\ stage = "decode" /\ pos + 1 <= header /\ stage' = "shift in" /\ CanNarrow(Found)
      /\ Narrow(Found) /\ cur' = Found /\ pos' = pos + 1
      /\ UNCHANGED <<ppm, input, underflow, io, header, code, nread, eof_in, esym, stop, lost>>
    BY DEF DecodeNarrow, DecodeAsserts, reader, output
<1>2. pos < Len(input)
  <2>1. pos \in Nat /\ header \in 0 .. HdrLimit - 1 /\ header <= Len(input) /\ Len(input) \in Nat
      BY Types DEF CodecInv, Place
  <2>2. header \in Int
      BY <2>1
  <2>3. pos + 1 <= header
      BY <1>1
  <2> QED
      BY ONLY <2>1, <2>2, <2>3
<1> SUFFICES ASSUME ~stop, lost = "code" => ~eof_in
             PROVE  \E C, H, e : Coded(C, H, e)' /\ Synced(C, H)'
    BY <1>1 DEF DecoderFollows
<1>3. /\ Found = NextSym
      /\ \E C, H, e, n, u :
            /\ n \in Nat /\ u \in Nat /\ Coded(C, H, e) /\ After(input, At("symbol", n, u)) \in H
            /\ esym = Window(C, n, u) /\ Taken(C, n + u + WordBits)
    BY <1>1, <1>2, SyncedFound
<1>4. PICK C, H, e, n, u :
         /\ n \in Nat /\ u \in Nat /\ Coded(C, H, e) /\ After(input, At("symbol", n, u)) \in H
         /\ esym = Window(C, n, u) /\ Taken(C, n + u + WordBits)
    BY <1>3
<1>5. Coded(C, H, e)'
    BY <1>1, <1>4, KeepCoded
<1>6. At(PartNow, n, u)' \in H
  <2>1. PartNow' = "shift"
      BY <1>1 DEF PartNow
  <2>2. After(input, At("symbol", n, u)) = Coder(Model', pos', low', high', cur', "shift", n, u)
      BY <1>1, <1>3, NarrowIs
  <2> QED
      BY <1>4, <2>1, <2>2 DEF At
<1>7. Taken(C, n + u + WordBits)'
    BY <1>1, <1>4 DEF Taken
<1>8. Synced(C, H)'
    BY <1>1, <1>4, <1>6, <1>7 DEF Synced
<1> QED
    BY <1>5, <1>8

\* Both drop the same bit.
LEMMA ShiftFollows ==
  ASSUME CodecInv, DecoderFollows, ShiftIn PROVE DecoderFollows'
<1>1. /\ stage = "shift in" /\ stage' = "shift in" /\ ~Normal /\ MayRead /\ ShiftInterval
      /\ esym' = Shl(Flipped) + Head(Buffer) /\ io' = Tail(Buffer) /\ TakeBuffer
      /\ UNCHANGED <<ppm, input, pos, cur, code, stop, lost>>
    BY DEF ShiftIn, output
<1> SUFFICES ASSUME ~stop, lost = "code" => ~eof_in'
             PROVE  \E C, H, e : Coded(C, H, e)' /\ Synced(C, H)'
    BY <1>1 DEF DecoderFollows
<1>2. lost = "code" => ~eof_in
    BY <1>1 DEF TakeBuffer
<1>3. PartNow = "shift" /\ PartNow' = "shift"
    BY <1>1 DEF PartNow
<1>4. PICK C, H, e, n, u :
         /\ n \in Nat /\ u \in Nat /\ Coded(C, H, e) /\ At("shift", n, u) \in H /\ esym = Window(C, n, u)
         /\ Taken(C, n + u + WordBits)
    BY <1>1, <1>2, <1>3, Following DEF Decoding
<1>5. After(input, At("shift", n, u)) \in H
    BY <1>2, <1>4, NotAtEnd
<1>6. Coded(C, H, e)'
    BY <1>1, <1>4, KeepCoded
<1>7. C \in Stream /\ CarriesCode(C, code) /\ WordBits \in Nat /\ n \in Nat /\ u \in Nat
    BY <1>4, WordBitsAssumption DEF Coded
<1> DEFINE q == n + u + WordBits
<1>8. Head(Buffer) = C[q] /\ Taken(C, q + 1)'
  <2>1. eof_in' => \A p \in Nat : Span(Len(code)) <= p => C[p] = 0
      BY <1>4 DEF Coded
  <2>2. Bits /\ q \in Nat
      BY <1>7 DEF CodecInv
  <2> HIDE DEF q
  <2>3. Taken(C, q)
      BY <1>4 DEF q
  <2> QED
      BY <1>1, <1>7, <2>1, <2>2, <2>3, TakeBit
<1>9. low \in 0 .. Top /\ high \in 0 .. Top /\ low <= high /\ low \in Nat /\ high \in Nat
      /\ esym \in low .. high
  <2>1. /\ low \in 0 .. Top /\ high \in 0 .. Top /\ low <= high /\ low <= esym /\ esym <= high
      BY <1>1 DEF CodecInv, Interval, Decoding
  <2> QED
      BY <2>1, Types
<1>10. CASE SameHalf
  <2> DEFINE m == n + u + 1
  <2>1. m \in Nat /\ 0 \in Nat /\ m + 0 + WordBits = q + 1
      BY <1>7
  <2>2. esym' = Window(C, m, 0)
    <3>1. Shl(Flipped) + C[n + u + WordBits] = Window(C, n + u + 1, 0)
        BY <1>4, <1>7, <1>9, <1>10, ShiftOn
    <3> QED
        BY <1>1, <1>8, <3>1
  <2>3. At(PartNow, m, 0)' \in H
    <3>1. After(input, At("shift", n, u)) = Coder(Model', pos', low', high', cur', "shift", m, 0)
        BY <1>1, <1>9, <1>10, ShiftIs
    <3> QED
        BY <1>3, <1>5, <3>1 DEF At
  <2> HIDE DEF m, q
  <2>4. Taken(C, m + 0 + WordBits)'
      BY <1>8, <2>1
  <2>5. Synced(C, H)'
      BY <1>1, <1>7, <2>1, <2>2, <2>3, <2>4 DEF Synced
  <2> QED
      BY <1>6, <2>5
<1>11. CASE Straddles
  <2> DEFINE v == u + 1
  <2>1. v \in Nat /\ n + v + WordBits = q + 1
      BY <1>7
  <2>2. esym' = Window(C, n, v)
    <3>1. Shl(Flipped) + C[n + u + WordBits] = Window(C, n, u + 1)
        BY <1>4, <1>7, <1>9, <1>11, ShiftOn
    <3> QED
        BY <1>1, <1>8, <3>1
  <2>3. At(PartNow, n, v)' \in H
    <3>1. After(input, At("shift", n, u)) = Coder(Model', pos', low', high', cur', "shift", n, v)
        BY <1>1, <1>9, <1>11, ShiftIs
    <3> QED
        BY <1>3, <1>5, <3>1 DEF At
  <2> HIDE DEF v, q
  <2>4. Taken(C, n + v + WordBits)'
      BY <1>8, <2>1
  <2>5. Synced(C, H)'
      BY <1>1, <1>7, <2>1, <2>2, <2>3, <2>4 DEF Synced
  <2> QED
      BY <1>6, <2>5
<1> QED
    BY <1>1, <1>10, <1>11 DEF Normal

\* Both learn the same symbol.
LEMMA LearnFollows ==
  ASSUME CodecInv, DecoderFollows, DecodeLearn \/ DecodeUpdate PROVE DecoderFollows'
<1>1. /\ stage \in {"shift in", "decoder learns"} /\ stage' \in {"decoder learns", "store"}
      /\ UNCHANGED <<input, pos, interval, cur, io, code, nread, eof_in, esym, stop, lost>>
    BY DEF DecodeLearn, DecodeUpdate, reader, output
<1> SUFFICES ASSUME ~stop, lost = "code" => ~eof_in
             PROVE  \E C, H, e : Coded(C, H, e)' /\ Synced(C, H)'
    BY <1>1 DEF DecoderFollows
<1>2. PICK C, H, e, n, u :
         /\ n \in Nat /\ u \in Nat /\ Coded(C, H, e) /\ At(PartNow, n, u) \in H /\ esym = Window(C, n, u)
         /\ Taken(C, n + u + WordBits)
    BY <1>1, Following DEF Decoding
<1>3. PartNow # "symbol"
    BY <1>1 DEF PartNow
<1>4. After(input, At(PartNow, n, u)) \in H
    BY <1>2, <1>3, NotAtEnd
<1>5. At(PartNow, n, u)' = After(input, At(PartNow, n, u))
  <2>1. CASE DecodeLearn
    <3>1. PartNow = "shift" /\ PartNow' = "learn" /\ Normal /\ UpdateBegin(cur)
        BY <2>1 DEF DecodeLearn, PartNow
    <3> QED
        BY <1>1, <3>1, LearnIs DEF interval, At
  <2>2. CASE DecodeUpdate
    <3>1. /\ PartNow = "learn" /\ UpdateStep /\ IInv
          /\ PartNow' = IF phase' = "ready" THEN "symbol" ELSE "learn"
        BY <2>2 DEF DecodeUpdate, PartNow, CodecInv, Learning
    <3> QED
        BY <1>1, <3>1, UpdateIs DEF interval, At
  <2> QED
      BY <2>1, <2>2
<1>6. Coded(C, H, e)'
    BY <1>1, <1>2, KeepCoded
<1>7. Taken(C, n + u + WordBits)'
    BY <1>1, <1>2 DEF Taken
<1>8. Synced(C, H)'
    BY <1>1, <1>2, <1>4, <1>5, <1>7 DEF Synced
<1> QED
    BY <1>6, <1>8

\* What becomes of the byte does not matter for the next one.
LEMMA StoreFollows ==
  ASSUME CodecInv, DecoderFollows, Store PROVE DecoderFollows'
<1>1. /\ stage = "store" /\ stage' = IF stop THEN "close" ELSE "decode"
      /\ UNCHANGED <<ppm, input, pos, interval, cur, io, header, code, reader, chr, stop>>
    BY DEF Store
<1>2. lost' = "code" <=> lost = "code"
    BY DEF Store, Flush
<1> SUFFICES ASSUME ~stop, lost = "code" => ~eof_in
             PROVE  \E C, H, e : Coded(C, H, e)' /\ Synced(C, H)'
    BY <1>1, <1>2 DEF DecoderFollows, Decoding, reader
<1>3. PICK C, H, e, n, u :
         /\ n \in Nat /\ u \in Nat /\ Coded(C, H, e) /\ At(PartNow, n, u) \in H /\ esym = Window(C, n, u)
         /\ Taken(C, n + u + WordBits)
    BY <1>1, Following DEF Decoding
<1>4. PartNow' = PartNow /\ Model' = Model
    BY <1>1 DEF PartNow, Model, ppm, table
<1>5. At(PartNow, n, u)' = At(PartNow, n, u)
    BY <1>1, <1>4 DEF At, interval
<1>6. Coded(C, H, e)'
    BY <1>1, <1>2, <1>3, KeepCoded
<1>7. Taken(C, n + u + WordBits)' /\ esym' = esym
    BY <1>1, <1>3 DEF Taken, reader
<1>8. Synced(C, H)'
    BY <1>1, <1>3, <1>5, <1>7 DEF Synced
<1> QED
    BY <1>6, <1>8

\* There is no decoder yet.
LEMMA InitFollows == Init => DecoderFollows
BY DEF Init, DecoderFollows, Decoding

\* Every step of the pair keeps the decoder in step with the encoder.
LEMMA StepFollows ==
  CodecInv /\ Sized /\ EncoderTraced /\ DecoderFollows /\ [Next]_vars => DecoderFollows'
<1> SUFFICES ASSUME CodecInv, Sized, EncoderTraced, DecoderFollows, [Next]_vars
             PROVE  DecoderFollows'
    OBVIOUS
<1>1. CASE OpenInput \/ EncodeNarrow \/ EncodeExit
    BY <1>1 DEF OpenInput, EncodeNarrow, EncodeExit, DecoderFollows, Decoding
<1>2. CASE ShiftOut \/ ShiftUnderflow \/ EncodeLearn \/ EncodeUpdate
    BY <1>2 DEF ShiftOut, ShiftUnderflow, EncodeLearn, EncodeUpdate, DecoderFollows, Decoding
<1>3. CASE StopEncoder
    BY <1>3, StopFollows
<1>4. CASE LoseCode
    BY <1>4, LoseFollows
<1>5. CASE OpenCode
    BY <1>5, OpenFollows
<1>6. CASE FillWindow
    BY <1>6, FillFollows
<1>7. CASE DecodeNarrow
    BY <1>7, NarrowFollows
<1>8. CASE DecodeLast
    BY <1>8 DEF DecodeLast, DecoderFollows
<1>9. CASE ShiftIn
    BY <1>9, ShiftFollows
<1>10. CASE DecodeLearn \/ DecodeUpdate
    BY <1>10, LearnFollows
<1>11. CASE Store
    BY <1>11, StoreFollows
<1>12. CASE DecodeExit \/ ShiftInAborts \/ Close
    BY <1>12 DEF DecodeExit, ShiftInAborts, Close, DecoderFollows, Decoding
<1>13. CASE UNCHANGED vars
  <2>1. UNCHANGED <<ppm, input, stage, pos, low, high, cur, io, code, nread, eof_in, esym,
                    stop, lost>>
      BY <1>13 DEF vars, interval, reader, output
  <2>2. Model' = Model /\ PartNow' = PartNow
      BY <2>1 DEF Model, ppm, table, PartNow
  <2>3. ASSUME NEW part, NEW n, NEW u PROVE At(part, n, u)' = At(part, n, u)
      BY <2>1, <2>2 DEF At
  <2>4. ASSUME NEW C, NEW H, NEW e, Coded(C, H, e) PROVE Coded(C, H, e)'
      BY <2>1, <2>4, KeepCoded
  <2>5. ASSUME NEW C, NEW q, Taken(C, q) PROVE Taken(C, q)'
      BY <2>1, <2>5 DEF Taken
  <2>6. ASSUME NEW C, NEW H, Synced(C, H) PROVE Synced(C, H)'
    <3>1. CASE stage = "fill"
        BY <2>1, <2>3, <2>5, <2>6, <3>1 DEF Synced, Filling
    <3>2. CASE stage # "fill"
      <4>1. PICK n \in Nat, u \in Nat : /\ At(PartNow, n, u) \in H /\ esym = Window(C, n, u)
                                        /\ Taken(C, n + u + WordBits)
          BY <2>6, <3>2 DEF Synced
      <4>2. At(PartNow, n, u)' \in H
          BY <2>2, <2>3, <4>1 DEF At
      <4>3. Taken(C, n + u + WordBits)'
          BY <2>5, <4>1
      <4> QED
          BY <2>1, <3>2, <4>1, <4>2, <4>3 DEF Synced
    <3> QED
        BY <3>1, <3>2
  <2> QED
      BY <2>1, <2>4, <2>6 DEF DecoderFollows
<1> QED
    BY <1>1, <1>2, <1>3, <1>4, <1>5, <1>6, <1>7, <1>8, <1>9, <1>10, <1>11, <1>12, <1>13
    DEF Next, Encoder, Decoder, Terminated

-----------------------------------------------------------------------------
(* What decode() puts out *)

\* s is the beginning of t, element by element.
Begins(s, t) == Len(s) <= Len(t) /\ \A k \in 1 .. Len(s) : s[k] = t[k]

\* One more element of t.
LEMMA BeginsAppend ==
  ASSUME NEW S, NEW a \in Seq(S), NEW b \in Seq(S), NEW t, Len(t) \in Nat, NEW x \in S,
         Begins(a \o b, t), Len(a \o b) < Len(t), t[Len(a \o b) + 1] = x
  PROVE  /\ a \o Append(b, x) \in Seq(S) /\ Begins(a \o Append(b, x), t)
         /\ Len(a \o Append(b, x)) = Len(a \o b) + 1
<1> DEFINE c == Append(b, x)
<1>1. /\ c \in Seq(S) /\ Len(c) = Len(b) + 1 /\ c[Len(b) + 1] = x
      /\ \A i \in 1 .. Len(b) : c[i] = b[i]
    BY AppendProperties
<1> HIDE DEF c
<1>2. /\ a \o b \in Seq(S) /\ Len(a) \in Nat /\ Len(b) \in Nat /\ Len(a \o b) = Len(a) + Len(b)
      /\ \A i \in 1 .. Len(a) : (a \o b)[i] = a[i]
      /\ \A i \in 1 .. Len(b) : (a \o b)[Len(a) + i] = b[i]
    BY ConcatElements
<1>3. /\ a \o c \in Seq(S) /\ Len(c) \in Nat /\ Len(a \o c) = Len(a) + Len(c)
      /\ \A i \in 1 .. Len(a) : (a \o c)[i] = a[i]
      /\ \A i \in 1 .. Len(c) : (a \o c)[Len(a) + i] = c[i]
    BY <1>1, ConcatElements
<1>4. Len(a \o c) = Len(a \o b) + 1
    BY <1>1, <1>2, <1>3
<1>5. ASSUME NEW k \in 1 .. Len(a \o c) PROVE (a \o c)[k] = t[k]
  <2>1. CASE k <= Len(a)
    <3>1. k \in 1 .. Len(a) /\ k \in 1 .. Len(a \o b)
        BY <1>2, <1>3, <2>1
    <3> QED
        BY <1>2, <1>3, <3>1 DEF Begins
  <2>2. CASE k > Len(a)
    <3> DEFINE i == k - Len(a)
    <3>1. i \in 1 .. Len(c) /\ k = Len(a) + i /\ i \in Nat
        BY <1>2, <1>3, <2>2
    <3> HIDE DEF i
    <3>2. (a \o c)[k] = c[i]
        BY <1>3, <3>1
    <3>3. CASE i = Len(b) + 1
      <4>1. k = Len(a \o b) + 1
          BY <1>2, <3>1, <3>3
      <4> QED
          BY <1>1, <3>2, <3>3, <4>1
    <3>4. CASE i # Len(b) + 1
      <4>1. i \in 1 .. Len(b) /\ k \in 1 .. Len(a \o b)
          BY <1>1, <1>2, <3>1, <3>4
      <4>2. c[i] = b[i] /\ (a \o b)[k] = b[i]
          BY <1>1, <1>2, <3>1, <4>1
      <4> QED
          BY <3>2, <4>1, <4>2 DEF Begins
    <3> QED
        BY <3>3, <3>4
  <2> QED
      BY <1>2, <1>3, <2>1, <2>2
<1>6. Len(a \o c) <= Len(t)
    BY <1>2, <1>4
<1> QED
    BY <1>3, <1>4, <1>5, <1>6 DEF Begins, c

\* All but the last elements.
LEMMA BeginsCut ==
  ASSUME NEW S, NEW a \in Seq(S), NEW b \in Seq(S), NEW t, Len(t) \in Nat,
         Begins(a \o b, t), NEW n \in 0 .. Len(b)
  PROVE  a \o SubSeq(b, 1, n) \in Seq(S) /\ Begins(a \o SubSeq(b, 1, n), t)
<1> DEFINE c == SubSeq(b, 1, n)
<1>0. Len(b) \in Nat /\ n \in Nat /\ n <= Len(b)
    OBVIOUS
<1>1. c \in Seq(S) /\ Len(c) = n /\ \A i \in 1 .. n : c[i] = b[i]
  <2>1. \A i \in 1 .. n : b[i] \in S
      BY <1>0
  <2> QED
      BY <1>0, <2>1, SubSeqProperties
<1> HIDE DEF c
<1>2. /\ Len(a) \in Nat /\ Len(a \o b) = Len(a) + Len(b)
      /\ \A i \in 1 .. Len(a) : (a \o b)[i] = a[i]
      /\ \A i \in 1 .. Len(b) : (a \o b)[Len(a) + i] = b[i]
    BY ConcatElements
<1>6. c \in Seq(S)
    BY <1>1
<1>7. /\ a \o c \in Seq(S) /\ Len(a \o c) = Len(a) + Len(c)
      /\ \A i \in 1 .. Len(a) : (a \o c)[i] = a[i]
      /\ \A i \in 1 .. Len(c) : (a \o c)[Len(a) + i] = c[i]
    BY <1>6, ConcatElements
<1>3. /\ a \o c \in Seq(S) /\ Len(a \o c) = Len(a) + n
      /\ \A i \in 1 .. Len(a) : (a \o c)[i] = a[i]
      /\ \A i \in 1 .. n : (a \o c)[Len(a) + i] = c[i]
    BY <1>1, <1>7
<1>4. Len(a \o c) <= Len(t)
    BY <1>0, <1>2, <1>3 DEF Begins
<1>5. ASSUME NEW k \in 1 .. Len(a \o c) PROVE (a \o c)[k] = t[k]
  <2>1. k \in 1 .. Len(a \o b)
      BY <1>0, <1>2, <1>3
  <2>2. CASE k <= Len(a)
    <3>1. k \in 1 .. Len(a)
        BY <1>2, <1>3, <2>2
    <3> QED
        BY <1>2, <1>3, <2>1, <3>1 DEF Begins
  <2>3. CASE k > Len(a)
    <3> DEFINE i == k - Len(a)
    <3>1. i \in 1 .. n /\ i \in 1 .. Len(b) /\ k = Len(a) + i
        BY <1>0, <1>2, <1>3, <2>3
    <3> HIDE DEF i
    <3>2. (a \o c)[k] = c[i] /\ c[i] = b[i] /\ (a \o b)[k] = b[i]
        BY <1>1, <1>2, <1>3, <3>1
    <3> QED
        BY <2>1, <3>2 DEF Begins
  <2> QED
      BY <1>2, <1>3, <2>2, <2>3
<1> QED
    BY <1>3, <1>4, <1>5 DEF Begins, c

\* Nothing that the decoder has read stood behind the words of the code.
Genuine == lost = "code" => ~eof_in

\* A read that came back short is not forgotten.
LEMMA GenuineBefore == CodecInv /\ Sized /\ [Next]_vars /\ Genuine' => Genuine
<1> SUFFICES ASSUME CodecInv, Sized, [Next]_vars, Genuine', lost = "code", eof_in PROVE FALSE
    BY DEF Genuine
<1>1. ~eof_in'
    BY WhatStays DEF Genuine
<1>2. stage \notin Coding \cup {"open", "encoded"}
    BY DEF Sized, Unread
<1>3. CASE Encoder \/ LoseCode \/ OpenCode
  <2>1. stage \in Coding \cup {"open", "encoded"}
    <3>1. CASE Encoder
        BY <3>1 DEF Encoder, Coding, OpenInput, EncodeNarrow, EncodeExit, ShiftOut, ShiftUnderflow,
                    EncodeLearn, EncodeUpdate, StopEncoder
    <3>2. CASE LoseCode \/ OpenCode
        BY <3>2 DEF LoseCode, OpenCode, Coding
    <3> QED
        BY <1>3, <3>1, <3>2
  <2> QED
      BY <1>2, <2>1
<1>4. CASE FillWindow \/ ShiftIn
    BY <1>1, <1>4 DEF FillWindow, ShiftIn, TakeBuffer
<1>5. CASE DecodeNarrow \/ DecodeLast \/ DecodeExit \/ ShiftInAborts
    BY <1>1, <1>5 DEF DecodeNarrow, DecodeLast, DecodeExit, ShiftInAborts, reader
<1>6. CASE DecodeLearn \/ DecodeUpdate \/ Store \/ Close
    BY <1>1, <1>6 DEF DecodeLearn, DecodeUpdate, Store, Close, reader
<1>7. CASE UNCHANGED vars
    BY <1>1, <1>7 DEF vars, reader
<1> QED
    BY <1>3, <1>4, <1>5, <1>6, <1>7 DEF Next, Decoder, Terminated

\* How many bytes the decoder has handed over to buf.
Sent == IF stage \in {"decode", "close", "done"} THEN pos
        ELSE IF stage \in {"shift in", "decoder learns", "store"} THEN pos - 1 ELSE 0

\* The decoder is about to put out the byte that follows what it has put out.
Exact == /\ Begins(PutOut, input)
         /\ lost # "output" /\ stage \notin {"failed", "abort"} => Len(PutOut) = Sent
         /\ stage = "shift in" => pos >= 1 /\ sym_to_chr[cur] = input[pos]
         /\ stage \in {"decoder learns", "store"} => pos >= 1 /\ chr = input[pos]

\* Unless it read behind the words of the code, what it has put out is true.
Restored == outfile \in Seq(Chr) /\ (Genuine => Exact)

\* The bytes of the file are among those that the model can return.
LEMMA InputIs ==
  ASSUME CodecInv
  PROVE  /\ input \in Seq(Chr) /\ Len(input) \in Nat /\ pos \in Nat /\ pos <= Len(input)
         /\ outbuf \in Seq(Chr) /\ chr \in Chr
         /\ \A k \in 1 .. Len(input) : input[k] \in Byte
<1>1. input \in Seq(Byte) /\ outbuf \in Seq(Chr) /\ chr \in Chr
    BY DEF CodecInv, Place, Output
<1>2. Byte \subseteq Chr
    BY SymCountAssumption DEF Byte, Chr
<1>3. input \in Seq(Chr)
  <2>1. \A k \in 1 .. Len(input) : input[k] \in Chr
      BY <1>1, <1>2
  <2>2. input \in [1 .. Len(input) -> Chr] /\ Len(input) \in Nat
      BY <1>1, <2>1, SeqDef
  <2> QED
      BY <2>2, FunctionIsSeq
<1> QED
    BY <1>1, <1>3, Types

\* Nothing has been put out.
LEMMA InitRestored == Init => Restored
<1> SUFFICES ASSUME Init PROVE Restored
    OBVIOUS
<1>1. /\ stage = "open" /\ outfile = <<>> /\ outbuf = <<>> /\ lost = "nothing" /\ pos = 0
      /\ input \in BoundedSeq(Byte, MaxLen)
    BY DEF Init
<1>2. PutOut = <<>>
    BY <1>1 DEF PutOut
<1>3. Len(input) \in Nat
    BY InitCodecInv, Types
<1> QED
    BY <1>1, <1>2, <1>3 DEF Restored, Exact, Begins, Sent

\* A step that puts nothing out and leaves the count as it is.
LEMMA KeepRestored ==
  ASSUME Restored, Genuine' => Genuine, UNCHANGED <<input, outbuf, outfile>>,
         lost' = "output" <=> lost = "output", stage # "done", stage' # "done",
         stage \in {"failed", "abort"} => stage' \in {"failed", "abort"},
         stage' \notin {"failed", "abort"} => Sent' = Sent,
         Exact /\ stage' = "shift in" => pos' >= 1 /\ sym_to_chr'[cur'] = input[pos'],
         Exact /\ stage' \in {"decoder learns", "store"} => pos' >= 1 /\ chr' = input[pos']
  PROVE  Restored'
<1>1. PutOut' = PutOut
    BY DEF PutOut
<1>2. Genuine' => Exact'
    BY <1>1 DEF Restored, Exact, Begins
<1> QED
    BY <1>2 DEF Restored

\* The symbol that dach_decode finds.
LEMMA NextFound ==
  ASSUME CodecInv, Sized, DecoderFollows, Genuine, stage = "decode", pos + 1 <= header
  PROVE  pos < Len(input) /\ Found = NextSym /\ sym_to_chr[Found] = input[pos + 1]
<1>1. pos < Len(input)
  <2>1. header \in 0 .. HdrLimit - 1 /\ header <= Len(input) /\ Len(input) \in Nat /\ pos \in Nat
      BY Types DEF CodecInv, Place
  <2>2. header \in Int /\ pos + 1 <= header
      BY <2>1
  <2> QED
      BY ONLY <2>1, <2>2
<1>2. ~stop
    BY DEF Sized, Stopping
<1>3. Found = NextSym
    BY <1>1, <1>2, SyncedFound DEF Genuine
<1> QED
    BY <1>1, <1>3, NextSymIs

\* dach_decode finds the byte that comes next ...
LEMMA FoundRestored ==
  ASSUME CodecInv, Sized, DecoderFollows, Restored, Genuine' => Genuine,
         DecodeNarrow \/ DecodeLast
  PROVE  Restored'
<1>1. /\ stage = "decode" /\ pos + 1 <= header /\ pos' = pos + 1
      /\ UNCHANGED <<input, outbuf, outfile, lost>>
    BY DEF DecodeNarrow, DecodeLast, DecodeAsserts, output
<1>2. pos \in Nat
    BY Types
<1>3. /\ stage' \in {"shift in", "store"}
      /\ stage' = "shift in" => cur' = Found /\ sym_to_chr' = sym_to_chr
      /\ stage' = "store" => chr' = sym_to_chr[Found]
    BY DEF DecodeNarrow, DecodeLast, ppm, table
<1>4. PutOut' = PutOut
    BY <1>1, <1>3 DEF PutOut
<1> SUFFICES ASSUME Genuine' PROVE Exact'
    BY <1>1 DEF Restored
<1>5. Genuine /\ Exact
    BY DEF Restored
<1>6. sym_to_chr[Found] = input[pos + 1]
    BY <1>1, <1>5, NextFound
<1>7. Sent' = Sent
  <2>1. Sent = pos /\ Sent' = pos' - 1
      BY <1>1, <1>3 DEF Sent
  <2>2. pos' = pos + 1
      BY <1>1
  <2> QED
      BY ONLY <1>2, <2>1, <2>2
<1>8. pos' >= 1
    BY <1>1, <1>2
<1>9. Begins(PutOut, input)' /\ (lost' # "output" => Len(PutOut') = Sent')
    BY <1>1, <1>4, <1>5, <1>7 DEF Exact, Begins
<1> QED
    BY <1>1, <1>3, <1>6, <1>8, <1>9 DEF Exact

\* ... and returns it.
LEMMA LearnRestored ==
  ASSUME CodecInv, Restored, Genuine' => Genuine, DecodeLearn \/ DecodeUpdate
  PROVE  Restored'
<1>1. /\ stage \in {"shift in", "decoder learns"} /\ stage' \in {"decoder learns", "store"}
      /\ UNCHANGED <<input, pos, outbuf, outfile, lost>>
      /\ chr' = IF stage = "shift in" THEN sym_to_chr[cur] ELSE chr
    BY DEF DecodeLearn, DecodeUpdate, output
<1>2. Sent' = Sent
    BY <1>1 DEF Sent
<1>3. Exact => pos' >= 1 /\ chr' = input[pos']
    BY <1>1 DEF Exact
<1> QED
    BY <1>1, <1>2, <1>3, KeepRestored

\* fwrite of some bytes that follow in the file.
LEMMA FlushRestored ==
  ASSUME NEW buf \in Seq(Chr), NEW t, Len(t) \in Nat, outfile \in Seq(Chr), Flush(buf)
  PROVE  /\ outfile' \in Seq(Chr)
         /\ (lost = "output" => Begins(outfile, t)) /\ (lost # "output" => Begins(outfile \o buf, t))
               => Begins(outfile', t)
         /\ lost' # "output" => lost # "output" /\ outfile' = outfile \o buf
<1>1. CASE lost # "output" /\ outfile' = outfile \o buf /\ UNCHANGED lost
    BY <1>1, ConcatElements
<1>2. CASE lost = "nothing" /\ lost' = "output"
             /\ \E n \in 0 .. Len(buf) - 1 : outfile' = outfile \o SubSeq(buf, 1, n)
  <2>1. PICK n \in 0 .. Len(buf) - 1 : outfile' = outfile \o SubSeq(buf, 1, n)
      BY <1>2
  <2>2. n \in 0 .. Len(buf) /\ Len(buf) \in Nat
      BY <2>1
  <2>3. outfile \o SubSeq(buf, 1, n) \in Seq(Chr)
    <3>1. \A i \in 1 .. n : buf[i] \in Chr
        BY <2>2
    <3>2. SubSeq(buf, 1, n) \in Seq(Chr)
        BY <2>2, <3>1, SubSeqProperties
    <3> QED
        BY <3>2, ConcatElements
  <2>4. Begins(outfile \o buf, t) => Begins(outfile \o SubSeq(buf, 1, n), t)
      BY <2>2, BeginsCut
  <2> QED
      BY <1>2, <2>1, <2>3, <2>4
<1>3. CASE lost = "output" /\ UNCHANGED <<outfile, lost>>
    BY <1>3
<1> QED
    BY <1>1, <1>2, <1>3 DEF Flush

\* The bytes with the one that decode() puts into buf.
LEMMA StoredBegins ==
  ASSUME CodecInv, Restored, Genuine, stage = "store"
  PROVE  /\ Append(outbuf, chr) \in Seq(Chr) /\ outfile \o Append(outbuf, chr) \in Seq(Chr)
         /\ lost = "output" => Begins(outfile, input)
         /\ lost # "output" => /\ Begins(outfile \o Append(outbuf, chr), input)
                               /\ Len(outfile \o Append(outbuf, chr)) = pos
<1>1. Exact /\ outfile \in Seq(Chr) /\ outbuf \in Seq(Chr) /\ chr \in Chr
    BY InputIs DEF Restored
<1>2. Append(outbuf, chr) \in Seq(Chr)
    BY <1>1, AppendProperties
<1>3. outfile \o Append(outbuf, chr) \in Seq(Chr)
    BY <1>1, <1>2, ConcatElements
<1>4. CASE lost = "output"
    BY <1>1, <1>2, <1>3, <1>4 DEF Exact, PutOut
<1>5. CASE lost # "output"
  <2>1. PutOut = outfile \o outbuf
      BY <1>5 DEF PutOut
  <2>2. Begins(outfile \o outbuf, input) /\ Len(outfile \o outbuf) = Sent
        /\ pos >= 1 /\ chr = input[pos]
      BY <1>1, <1>5, <2>1 DEF Exact
  <2>3. Sent = pos - 1
      BY DEF Sent
  <2>4. pos \in Nat /\ Len(input) \in Nat /\ pos <= Len(input)
      BY Types
  <2>5. Len(outfile \o outbuf) < Len(input) /\ Len(outfile \o outbuf) + 1 = pos
      BY <2>2, <2>3, <2>4
  <2>6. input[Len(outfile \o outbuf) + 1] = chr
      BY <2>2, <2>5
  <2> DEFINE q == outfile \o Append(outbuf, chr)
             p == outfile \o outbuf
  <2>7. Begins(q, input) /\ Len(q) = Len(p) + 1
      BY <1>1, <2>2, <2>4, <2>5, <2>6, BeginsAppend
  <2> QED
      BY <1>2, <1>3, <1>5, <2>5, <2>7
<1> QED
    BY <1>4, <1>5

\* decode() appends it to what it has put out ...
LEMMA StoreRestored ==
  ASSUME CodecInv, Restored, Genuine' => Genuine, Store
  PROVE  Restored'
<1> DEFINE buf == Append(outbuf, chr)
<1>1. /\ stage = "store" /\ stage' \in {"close", "decode"} /\ UNCHANGED <<input, pos>>
    BY DEF Store
<1>2. IF Len(buf) = MaxBuf THEN Flush(buf) /\ outbuf' = <<>>
      ELSE outbuf' = buf /\ UNCHANGED <<outfile, lost>>
    BY DEF Store
<1>3. outfile \in Seq(Chr) /\ outbuf \in Seq(Chr) /\ chr \in Chr /\ Len(input) \in Nat
      /\ buf \in Seq(Chr)
    BY InputIs, AppendProperties DEF Restored
<1>4. Sent' = pos
    BY <1>1 DEF Sent
<1>5. outfile' \in Seq(Chr)
  <2> HIDE DEF buf
  <2> QED
      BY <1>2, <1>3, FlushRestored
<1> SUFFICES ASSUME Genuine' PROVE Exact'
    BY <1>5 DEF Restored
<1>6. /\ lost = "output" => Begins(outfile, input)
      /\ lost # "output" => Begins(outfile \o buf, input) /\ Len(outfile \o buf) = pos
    BY <1>1, StoredBegins
<1> HIDE DEF buf
<1>7. Begins(PutOut', input) /\ (lost' # "output" => Len(PutOut') = pos)
  <2>1. CASE Len(buf) # MaxBuf
    <3>1. /\ lost = "output" => PutOut' = outfile
          /\ lost # "output" => PutOut' = outfile \o buf
          /\ lost' = lost
        BY <1>1, <1>2, <2>1 DEF PutOut
    <3> QED
        BY <1>6, <3>1
  <2>2. CASE Len(buf) = MaxBuf
    <3>1. Flush(buf) /\ outbuf' = <<>>
        BY <1>2, <2>2
    <3>2. PutOut' = outfile'
      <4>1. outfile' \o <<>> = outfile'
          BY <1>5, ConcatEmptySeq
      <4> QED
          BY <1>1, <3>1, <4>1 DEF PutOut
    <3>3. Begins(outfile', input) /\ (lost' # "output" => Len(outfile') = pos)
        BY <1>3, <1>6, <3>1, FlushRestored
    <3> QED
        BY <3>2, <3>3
  <2> QED
      BY <2>1, <2>2
<1> QED
    BY <1>1, <1>4, <1>7 DEF Exact

\* ... and writes the rest in the end.
LEMMA CloseRestored ==
  ASSUME CodecInv, Restored, Genuine' => Genuine, Close
  PROVE  Restored'
<1>1. stage = "close" /\ stage' = "done" /\ Flush(outbuf) /\ UNCHANGED <<input, pos, outbuf>>
    BY DEF Close
<1>2. outfile \in Seq(Chr) /\ outbuf \in Seq(Chr) /\ Len(input) \in Nat
    BY InputIs DEF Restored
<1>3. outfile' \in Seq(Chr)
    BY <1>1, <1>2, FlushRestored
<1> SUFFICES ASSUME Genuine' PROVE Exact'
    BY <1>3 DEF Restored
<1>4. Exact
    BY DEF Restored
<1>5. /\ lost = "output" => Begins(outfile, input)
      /\ lost # "output" => Begins(outfile \o outbuf, input) /\ Len(outfile \o outbuf) = pos
    BY <1>1, <1>4 DEF Exact, PutOut, Sent
<1>6. PutOut' = outfile' /\ Sent' = pos
    BY <1>1 DEF PutOut, Sent
<1>7. Begins(outfile', input) /\ (lost' # "output" => Len(outfile') = pos)
    BY <1>1, <1>2, <1>5, FlushRestored
<1> QED
    BY <1>1, <1>6, <1>7 DEF Exact

\* Every step keeps the output the beginning of the file.
LEMMA StepRestored ==
  CodecInv /\ Sized /\ DecoderFollows /\ Restored /\ [Next]_vars => Restored'
<1> SUFFICES ASSUME CodecInv, Sized, DecoderFollows, Restored, [Next]_vars PROVE Restored'
    OBVIOUS
<1>0. Genuine' => Genuine
    BY GenuineBefore
<1>1. CASE OpenInput \/ EncodeNarrow \/ ShiftOut \/ ShiftUnderflow
  <2>1. /\ stage \in Coding \cup {"open"} /\ stage' \in Coding \cup {"failed"}
        /\ UNCHANGED <<input, outbuf, outfile, lost>>
      BY <1>1 DEF OpenInput, EncodeNarrow, ShiftOut, ShiftUnderflow, Coding, output
  <2> QED
      BY <1>0, <2>1, KeepRestored DEF Coding, Sent
<1>2. CASE EncodeLearn \/ EncodeUpdate \/ StopEncoder
  <2>1. /\ stage \in Coding /\ stage' \in Coding \cup {"encoded", "abort"}
        /\ UNCHANGED <<input, outbuf, outfile, lost>>
      BY <1>2 DEF EncodeLearn, EncodeUpdate, StopEncoder, Coding, output
  <2> QED
      BY <1>0, <2>1, KeepRestored DEF Coding, Sent
<1>3. CASE EncodeExit \/ DecodeExit \/ ShiftInAborts
  <2>1. /\ stage \in {"encode", "decode", "shift in"} /\ stage' \in {"failed", "abort"}
        /\ UNCHANGED <<input, outbuf, outfile, lost>>
      BY <1>3 DEF EncodeExit, DecodeExit, ShiftInAborts, output
  <2> QED
      BY <1>0, <2>1, KeepRestored
<1>4. CASE LoseCode
  <2>1. /\ stage \in Coding \cup {"encoded"} /\ stage' = "encoded"
        /\ lost = "nothing" /\ lost' = "code" /\ UNCHANGED <<input, outbuf, outfile>>
      BY <1>4 DEF LoseCode, Coding, output
  <2> QED
      BY <1>0, <2>1, KeepRestored DEF Coding, Sent
<1>5. CASE OpenCode \/ FillWindow
  <2>1. /\ stage \in {"encoded", "fill"} /\ stage' \in {"fill", "decode"}
        /\ UNCHANGED <<input, outbuf, outfile, lost>>
        /\ stage' = "decode" => stage = "fill" /\ pos' = pos
      BY <1>5 DEF OpenCode, FillWindow, output
  <2>2. stage = "fill" => pos = 0
      BY DEF CodecInv, Place
  <2>3. Sent' = Sent
      BY <2>1, <2>2 DEF Sent
  <2> QED
      BY <1>0, <2>1, <2>3, KeepRestored
<1>6. CASE DecodeNarrow \/ DecodeLast
    BY <1>0, <1>6, FoundRestored
<1>7. CASE ShiftIn
  <2>1. /\ stage = "shift in" /\ stage' = "shift in"
        /\ UNCHANGED <<input, outbuf, outfile, lost, pos, cur, sym_to_chr>>
      BY <1>7 DEF ShiftIn, output, ppm, table
  <2>2. Sent' = Sent
      BY <2>1 DEF Sent
  <2>3. Exact => pos' >= 1 /\ sym_to_chr'[cur'] = input[pos']
      BY <2>1 DEF Exact
  <2> QED
      BY <1>0, <2>1, <2>2, <2>3, KeepRestored
<1>8. CASE DecodeLearn \/ DecodeUpdate
    BY <1>0, <1>8, LearnRestored
<1>9. CASE Store
    BY <1>0, <1>9, StoreRestored
<1>10. CASE Close
    BY <1>0, <1>10, CloseRestored
<1>11. CASE UNCHANGED vars
    BY <1>11 DEF vars, output, reader, ppm, table, Restored, Genuine, Exact, Begins, PutOut, Sent
<1> QED
    BY <1>1, <1>2, <1>3, <1>4, <1>5, <1>6, <1>7, <1>8, <1>9, <1>10, <1>11
    DEF Next, Encoder, Decoder, Terminated

-----------------------------------------------------------------------------
(* The decoded file, and what stops the programs *)

\* Everything together is inductive.
Faithful == CodecInv /\ Sized /\ EncoderTraced /\ DecoderFollows /\ Restored

\* Every reachable state satisfies the strengthened invariant: the trace of the
\* encoder, the decoder that follows it, and the output that comes of it.
THEOREM CodecIsFaithful == Spec => []Faithful
<1>1. Init => Faithful
    BY InitCodecInv, InitSized, InitTraced, InitFollows, InitRestored DEF Faithful
<1>2. Faithful /\ [Next]_vars => Faithful'
    BY StepCodecInv, StepSized, StepTraced, StepFollows, StepRestored DEF Faithful
<1> QED
    BY <1>1, <1>2, PTL DEF Spec

\* Whatever was lost of either file, and whatever the header holds, what decode()
\* puts out is the beginning of the file until a read of the code comes back short
\* (dach_decode, dach_bitin, decode()).
THEOREM OutputIsTrue == Spec => []TrueUntilEof
<1>1. ASSUME Faithful PROVE TrueUntilEof
  <2> SUFFICES ASSUME ~eof_in PROVE IsPrefix(PutOut, input)
      BY DEF TrueUntilEof
  <2>1. CodecInv /\ Restored
      BY <1>1 DEF Faithful
  <2>2. Begins(PutOut, input)
      BY <2>1 DEF Restored, Genuine, Exact
  <2>3. input \in Seq(Chr) /\ outbuf \in Seq(Chr) /\ outfile \in Seq(Chr)
      BY <2>1, InputIs DEF Restored
  <2>4. PutOut \in Seq(Chr)
      BY <2>3, ConcatElements DEF PutOut
  <2> HIDE DEF PutOut
  <2> QED
      BY <2>2, <2>3, <2>4, PrefixByElements DEF Begins
<1> QED
    BY <1>1, CodecIsFaithful, PTL

\* A beginning that is as long as the whole.
LEMMA SameElements ==
  ASSUME NEW S, NEW s \in Seq(S), NEW t \in Seq(S), Len(s) = Len(t), Begins(s, t)
  PROVE  s = t
BY SeqEqual DEF Begins

\* A decoder that has ended has put out the whole file.
LEMMA WholeFile ==
  ASSUME Faithful, stage = "close" \/ stage = "done", lost = "nothing", SizeIsStored
  PROVE  Begins(PutOut, input) /\ Len(PutOut) = Len(input)
<1>1. CodecInv /\ Sized /\ Restored
    BY DEF Faithful
<1>2. header = Len(input) /\ pos = header
    BY <1>1 DEF Sized, SizeKnown, Stopping
<1>3. Exact
    BY <1>1 DEF Restored, Genuine
<1> QED
    BY <1>2, <1>3 DEF Exact, Sent

\* When decode() returns and nothing was lost the decoded file is the file, for
\* every file whose size fits the header (encode(), decode()).
THEOREM DecodedIsTheFile == Spec => []RoundTrip
<1>1. ASSUME Faithful PROVE RoundTrip
  <2> SUFFICES ASSUME stage = "done", lost = "nothing", SizeIsStored PROVE outfile = input
      BY DEF RoundTrip
  <2>1. input \in Seq(Chr) /\ outfile \in Seq(Chr)
      BY <1>1, InputIs DEF Faithful, Restored
  <2>2. PutOut = outfile
      BY DEF PutOut
  <2>3. Begins(outfile, input) /\ Len(outfile) = Len(input)
      BY <1>1, <2>2, WholeFile
  <2> QED
      BY <2>1, <2>3, SameElements
<1> QED
    BY <1>1, CodecIsFaithful, PTL

\* The checks of dach_encode_step pass as long as the precision suffices, and the
\* one of dach_stop_encoder always.
LEMMA EncodeGoesOn == ASSUME CodecInv PROVE EncoderGoesOn
<1> SUFFICES ASSUME stage = "encode"
             PROVE  /\ low < Half
                    /\ pos < Len(input) /\ PrecisionSuffices => CanNarrow(NextSym)
    BY DEF EncoderGoesOn
<1>1. low < Half
    BY DEF CodecInv, Interval, Wide
<1>2. ASSUME pos < Len(input), PrecisionSuffices PROVE CanNarrow(NextSym)
  <2>1. NextSym \in 1 .. SymCount - 2 /\ NextSym \in Sym /\ SymCount \in Nat
      BY <1>2, NextSymIs, Types
  <2>2. ~ShareIsEmpty(NextSym) /\ high > low
      BY <1>2, <2>1, RoomForShare
  <2>3. NextSym # 0 /\ NextSym <= SymCount - 2
      BY <2>1
  <2> QED
      BY <2>2, <2>3 DEF CanNarrow, StepAsserts
<1> QED
    BY <1>1, <1>2

\* As long as the total of the table is at most half of the interval, dach_encode_step
\* finds a share that is not empty for every byte and none of its asserts fails,
\* and dach_stop_encoder's assert on low holds.
THEOREM EncoderNeverGivesUp == Spec => []EncoderGoesOn
BY EncodeGoesOn, CodecInvariance, PTL

\* The checks of dach_decode before its loop ...
LEMMA DecodeGoesOn ==
  ASSUME Faithful, stage = "decode", lost # "code", SizeIsStored, PrecisionSuffices, input # <<>>
  PROVE  DecodeAsserts /\ CanNarrow(Found)
<1>1. CodecInv /\ Sized /\ DecoderFollows
    BY DEF Faithful
<1>2. pos < header /\ ~stop
    BY <1>1 DEF Sized, Stopping, Decoding
<1>3. pos + 1 <= header
  <2>1. pos \in Nat /\ header \in 0 .. HdrLimit - 1 /\ HdrLimit \in Nat
      BY <1>1, Types, BoundsAssumption DEF CodecInv, Place
  <2>2. header \in Nat
      BY <2>1
  <2> QED
      BY ONLY <1>2, <2>1, <2>2
<1>4. pos < Len(input) /\ Found = NextSym
    BY <1>1, <1>3, NextFound DEF Genuine
<1>5. Found \in 1 .. SymCount - 2 /\ Found \in Sym /\ SymCount \in Nat
    BY <1>1, <1>4, NextSymIs, Types
<1>6. ~ShareIsEmpty(Found) /\ high > low
    BY <1>1, <1>4, <1>5, RoomForShare
<1>7. Found # 0 /\ Found <= SymCount - 2
    BY <1>5
<1> QED
    BY <1>3, <1>6, <1>7 DEF DecodeAsserts, CanNarrow, StepAsserts

\* ... and in it pass on a code that is whole.
LEMMA ShiftGoesOn ==
  ASSUME Faithful, stage = "shift in", lost # "code", PrecisionSuffices
  PROVE  high > low /\ MayRead
<1>1. CodecInv /\ Sized /\ DecoderFollows
    BY DEF Faithful
<1>2. low < high /\ low \in Nat /\ high \in Nat
    BY <1>1, Types DEF Sized, Apart
<1>3. ~stop
    BY <1>1 DEF Sized, Stopping
<1>4. PICK C, H, e, n, u :
         /\ n \in Nat /\ u \in Nat /\ Coded(C, H, e) /\ At(PartNow, n, u) \in H /\ esym = Window(C, n, u)
         /\ Taken(C, n + u + WordBits)
    BY <1>1, <1>3, Following DEF Decoding
<1> DEFINE c == At(PartNow, n, u)
<1>5. c \in H /\ c.n = n /\ c.u = u
    BY <1>4 DEF At, Coder
<1> HIDE DEF c
<1>6. MayRead
    BY <1>1, <1>4, <1>5, CodeSuffices
<1> QED
    BY <1>2, <1>6

\* On a code that is whole neither program exits with an error or fails an assert,
\* for every file that is not empty, fits the header and that the precision
\* suffices for: the bits that dach_stop_encoder adds are enough for the one read
\* behind the end that dach_bitin allows (encode(), decode(), dach_ar64.c).
THEOREM CodecGoesOn == Spec => []NeverGivesUp
<1>1. Init => NeverGivesUp
    BY DEF Init, NeverGivesUp
<1>2. Faithful /\ NeverGivesUp /\ [Next]_vars => NeverGivesUp'
  <2> SUFFICES ASSUME Faithful, NeverGivesUp, [Next]_vars,
                      lost' # "code", input' # <<>>, SizeIsStored', PrecisionSuffices'
               PROVE  stage' \notin {"failed", "abort"}
      BY DEF NeverGivesUp
  <2>1. /\ lost # "code" /\ input # <<>> /\ SizeIsStored /\ PrecisionSuffices
      BY WhatStays DEF SizeIsStored, PrecisionSuffices
  <2>2. stage \notin {"failed", "abort"}
      BY <2>1 DEF NeverGivesUp
  <2>3. CodecInv
      BY DEF Faithful
  <2>4. CASE EncodeExit \/ StopEncoder
    <3>1. stage = "encode" => low < Half /\ (pos < Len(input) => CanNarrow(NextSym))
        BY <2>1, <2>3, EncodeGoesOn DEF EncoderGoesOn
    <3>2. low \in Nat /\ Half \in Nat
        BY <2>3, Types, Registers
    <3> QED
        BY <2>4, <3>1, <3>2 DEF EncodeExit, StopEncoder
  <2>5. CASE DecodeExit
      BY <2>1, <2>5, DecodeGoesOn DEF DecodeExit
  <2>6. CASE ShiftInAborts
      BY <2>1, <2>6, ShiftGoesOn DEF ShiftInAborts
  <2>7. CASE OpenInput \/ EncodeNarrow \/ ShiftOut \/ ShiftUnderflow \/ EncodeLearn \/ EncodeUpdate
      BY <2>1, <2>2, <2>7 DEF OpenInput, EncodeNarrow, ShiftOut, ShiftUnderflow, EncodeLearn, EncodeUpdate
  <2>8. CASE OpenCode \/ FillWindow \/ DecodeNarrow \/ DecodeLast \/ ShiftIn
      BY <2>2, <2>8 DEF OpenCode, FillWindow, DecodeNarrow, DecodeLast, ShiftIn
  <2>9. CASE DecodeLearn \/ DecodeUpdate \/ Store \/ Close \/ LoseCode
      BY <2>2, <2>9 DEF DecodeLearn, DecodeUpdate, Store, Close, LoseCode
  <2>10. CASE UNCHANGED vars
      BY <2>2, <2>10 DEF vars
  <2> QED
      BY <2>4, <2>5, <2>6, <2>7, <2>8, <2>9, <2>10 DEF Next, Encoder, Decoder, Terminated
<1> QED
    BY <1>1, <1>2, CodecIsFaithful, PTL DEF Spec

-----------------------------------------------------------------------------
(* The transfer of a file *)

\* A beginning is what SubSeq cuts off.
LEMMA BeginsIsPart ==
  ASSUME NEW S, NEW s \in Seq(S), NEW t \in Seq(S), Begins(s, t)
  PROVE  s = SubSeq(t, 1, Len(s))
<1> DEFINE n == Len(s)
           u == SubSeq(t, 1, n)
<1>1. n \in Nat /\ n <= Len(t) /\ Len(t) \in Nat
    BY DEF Begins
<1> HIDE DEF n
<1>2. \A i \in 1 .. n : t[i] \in S
    BY <1>1
<1>3. u \in Seq(S) /\ Len(u) = n /\ \A i \in 1 .. n : u[i] = t[i]
    BY <1>1, <1>2, SubSeqProperties
<1> HIDE DEF u
<1>4. Len(s) = Len(u) /\ \A i \in 1 .. Len(s) : s[i] = u[i]
    BY <1>3 DEF Begins, n
<1>5. s = u
    BY <1>3, <1>4, SeqEqual
<1> QED
    BY <1>5 DEF u, n

\* A step that puts nothing into the decoded file: it may be a program's last.
LEMMA NothingDelivered ==
  ASSUME UNCHANGED <<input, outfile, lost>>, stage \notin Final, stage' # "done"
  PROVE  [Transfer!TransferNext]_(Transfer!transfer)
BY DEF Final, Transfer!TransferNext, Transfer!GiveUp, Transfer!transfer

\* fwrite, where bytes have been lost or are lost now.
LEMMA FlushAfterLoss ==
  ASSUME NEW buf \in Seq(Chr), outfile \in Seq(Chr), Flush(buf), input' = input,
         stage \notin Final, lost' # "nothing"
  PROVE  [Transfer!TransferNext]_(Transfer!transfer)
<1>1. CASE lost = "output"
  <2>1. UNCHANGED <<outfile, lost>>
      BY <1>1 DEF Flush
  <2> QED
      BY <1>1, <2>1 DEF Transfer!transfer
<1>2. CASE lost \notin {"nothing", "output"}
  <2>1. outfile' = outfile \o buf /\ lost' = lost
      BY <1>2 DEF Flush
  <2>2. IsPrefix(outfile, outfile')
      BY <2>1, PrefixOfConcat
  <2> QED
      BY <1>2, <2>1, <2>2 DEF Transfer!TransferNext, Transfer!Salvage, Transfer!IsPrefix
<1>3. CASE lost = "nothing"
  <2>1. PICK n \in 0 .. Len(buf) - 1 : outfile' = outfile \o SubSeq(buf, 1, n)
      BY <1>3 DEF Flush
  <2>2. SubSeq(buf, 1, n) \in Seq(Chr)
    <3>1. \A i \in 1 .. n : buf[i] \in Chr
        OBVIOUS
    <3> QED
        BY <3>1, SubSeqProperties
  <2>3. IsPrefix(outfile, outfile')
      BY <2>1, <2>2, PrefixOfConcat
  <2>4. Transfer!IsPrefix(outfile, outfile')
      BY <2>3 DEF IsPrefix, Transfer!IsPrefix
  <2>5. Transfer!Damage
      BY <1>3, <2>4 DEF Final, Transfer!Damage
  <2> QED
      BY <2>5 DEF Transfer!TransferNext
<1> QED
    BY <1>1, <1>2, <1>3

\* A full buf reaches the file: the bytes that come next.
LEMMA StoreDelivers ==
  ASSUME Faithful, Store
  PROVE  [Transfer!TransferNext]_(Transfer!transfer)
<1> DEFINE buf == Append(outbuf, chr)
<1>1. /\ stage = "store" /\ stage' \in {"close", "decode"} /\ input' = input
      /\ stage \notin Final /\ stage' \notin Final
    BY DEF Store, Final
<1>2. IF Len(buf) = MaxBuf THEN Flush(buf) ELSE UNCHANGED <<outfile, lost>>
    BY DEF Store
<1>3. CodecInv /\ Restored
    BY DEF Faithful
<1>4. input \in Seq(Chr) /\ outfile \in Seq(Chr) /\ outbuf \in Seq(Chr) /\ chr \in Chr
    BY <1>3, InputIs DEF Restored
<1>5. buf \in Seq(Chr)
    BY <1>4, AppendProperties
<1>6. lost = "nothing" => outfile \o buf \in Seq(Chr) /\ Begins(outfile \o buf, input)
    BY <1>1, <1>3, StoredBegins DEF Genuine
<1> HIDE DEF buf
<1>7. CASE Len(buf) # MaxBuf
    BY <1>1, <1>2, <1>7, NothingDelivered DEF Final
<1>8. CASE Len(buf) = MaxBuf /\ lost' # "nothing"
    BY <1>1, <1>2, <1>4, <1>5, <1>8, FlushAfterLoss
<1>9. CASE Len(buf) = MaxBuf /\ lost' = "nothing"
  <2>1. lost = "nothing" /\ outfile' = outfile \o buf
      BY <1>2, <1>9 DEF Flush
  <2> DEFINE n == Len(outfile \o buf)
  <2>2. n \in Len(outfile) + 1 .. Len(input)
    <3>1. n = Len(outfile) + Len(buf) /\ Len(outfile) \in Nat
        BY <1>4, <1>5, ConcatElements
    <3>2. n <= Len(input) /\ Len(input) \in Nat
        BY <1>4, <1>6, <2>1 DEF Begins
    <3>3. Len(buf) \in Nat \ {0}
        BY <1>9, BoundsAssumption
    <3> HIDE DEF n
    <3> QED
        BY <3>1, <3>2, <3>3
  <2>3. outfile' = SubSeq(input, 1, n)
      BY <1>4, <1>6, <2>1, BeginsIsPart
  <2> HIDE DEF n
  <2> QED
      BY <1>1, <1>9, <2>1, <2>2, <2>3 DEF Final, Transfer!TransferNext, Transfer!Deliver
<1> QED
    BY <1>7, <1>8, <1>9

\* What is left of it does too, and the file is complete.
LEMMA CloseCompletes ==
  ASSUME Faithful, SizeIsStored, Close
  PROVE  [Transfer!TransferNext]_(Transfer!transfer)
<1>1. stage = "close" /\ stage' = "done" /\ Flush(outbuf) /\ input' = input /\ stage \notin Final
    BY DEF Close, Final
<1>2. input \in Seq(Chr) /\ outfile \in Seq(Chr) /\ outbuf \in Seq(Chr)
    BY InputIs DEF Faithful, Restored
<1>3. CASE lost' # "nothing"
    BY <1>1, <1>2, <1>3, FlushAfterLoss
<1>4. CASE lost' = "nothing"
  <2>1. lost = "nothing" /\ outfile' = outfile \o outbuf
      BY <1>1, <1>4 DEF Flush
  <2>2. Begins(outfile \o outbuf, input) /\ Len(outfile \o outbuf) = Len(input)
      BY <1>1, <2>1, WholeFile DEF PutOut
  <2>3. outfile \o outbuf \in Seq(Chr)
      BY <1>2, ConcatElements
  <2>4. outfile' = input
      BY <1>2, <2>1, <2>2, <2>3, SameElements
  <2> QED
      BY <1>1, <1>4, <2>1, <2>4 DEF Final, Transfer!TransferNext, Transfer!Complete
<1> QED
    BY <1>3, <1>4

\* encode and decode implement the safety part of the transfer of a file, for
\* every file whose size fits the header (encode(), decode() of dach.c).
THEOREM ImplementsTransferSafety == Spec /\ SizeIsStored => Transfer!TransferSafety
<1>1. Init => Transfer!TransferInit
    BY DEF Init, Transfer!TransferInit
<1>2. SizeIsStored /\ [Next]_vars => SizeIsStored'
    BY WhatStays DEF SizeIsStored
<1>3. Faithful /\ SizeIsStored /\ [Next]_vars => [Transfer!TransferNext]_(Transfer!transfer)
  <2> SUFFICES ASSUME Faithful, SizeIsStored, [Next]_vars
               PROVE  [Transfer!TransferNext]_(Transfer!transfer)
      OBVIOUS
  <2>1. CASE Encoder
    <3>1. CASE OpenInput \/ EncodeNarrow \/ EncodeExit \/ ShiftOut
        BY <3>1, NothingDelivered DEF OpenInput, EncodeNarrow, EncodeExit, ShiftOut, output, Final
    <3>2. CASE ShiftUnderflow \/ EncodeLearn \/ EncodeUpdate \/ StopEncoder
        BY <3>2, NothingDelivered
        DEF ShiftUnderflow, EncodeLearn, EncodeUpdate, StopEncoder, output, Final
    <3> QED
        BY <2>1, <3>1, <3>2 DEF Encoder
  <2>2. CASE Decoder
    <3>1. CASE OpenCode \/ FillWindow \/ DecodeNarrow \/ DecodeLast \/ DecodeExit
        BY <3>1, NothingDelivered
        DEF OpenCode, FillWindow, DecodeNarrow, DecodeLast, DecodeExit, output, Final
    <3>2. CASE ShiftIn \/ ShiftInAborts \/ DecodeLearn \/ DecodeUpdate
        BY <3>2, NothingDelivered
        DEF ShiftIn, ShiftInAborts, DecodeLearn, DecodeUpdate, output, Final
    <3>3. CASE Store
        BY <3>3, StoreDelivers
    <3>4. CASE Close
        BY <3>4, CloseCompletes
    <3> QED
        BY <2>2, <3>1, <3>2, <3>3, <3>4 DEF Decoder
  <2>3. CASE LoseCode
    <3>1. /\ lost = "nothing" /\ lost' = "code" /\ stage \notin Final
          /\ UNCHANGED <<input, outfile>>
        BY <2>3 DEF LoseCode, output, Final
    <3>2. outfile \in Seq(Chr)
        BY DEF Faithful, Restored
    <3>3. IsPrefix(outfile, outfile')
        BY <3>1, <3>2, PrefixByElements
    <3> QED
        BY <3>1, <3>3 DEF Final, Transfer!TransferNext, Transfer!Damage, Transfer!IsPrefix
  <2>4. CASE UNCHANGED vars
      BY <2>4 DEF vars, output, Transfer!transfer
  <2> QED
      BY <2>1, <2>2, <2>3, <2>4 DEF Next, Terminated
<1> QED
    BY <1>1, <1>2, <1>3, CodecIsFaithful, PTL DEF Spec, Transfer!TransferSafety
-----------------------------------------------------------------------------
(* How long normalisation takes *)

LEMMA RangeFits == ASSUME CodecInv PROVE range \in 1 .. Top + 1
<1>1. low \in 0 .. Top /\ high \in 0 .. Top /\ low <= high
    BY DEF CodecInv, Interval
<1>2. range = high - low + 1 /\ Top \in Nat
    BY Registers DEF range
<1> QED
    BY <1>1, <1>2

LEMMA RangeDoubles ==
  ASSUME CodecInv, ShiftOut \/ ShiftUnderflow \/ ShiftIn
  PROVE  range' = 2 * range
<1> DEFINE b == IF high >= Half THEN Half ELSE 0
<1>1. low \in 0 .. Top /\ high \in 0 .. Top /\ low <= high
    BY DEF CodecInv, Interval
<1>2. ShiftInterval /\ (SameHalf \/ Straddles)
    BY DEF ShiftOut, ShiftUnderflow, ShiftIn, Normal
<1>3. /\ SameHalf => low' = 2 * (low - b) /\ high' = 2 * (high - b) + 1
      /\ Straddles => low' = 2 * (low - Quarter) /\ high' = 2 * (high - Quarter) + 1
    BY <1>1, <1>2, ShiftDoubles
<1>4. b \in Int /\ Quarter \in Int /\ low \in Int /\ high \in Int
    BY <1>1, Registers
<1>5. range = high - low + 1 /\ range' = high' - low' + 1
    BY DEF range
<1> HIDE DEF b
<1> QED
    BY <1>2, <1>3, <1>4, <1>5

\* Every iteration of either normalisation loop doubles the interval, which has at
\* most 2^WordBits points: whatever symbols are coded, and also when the interval
\* has collapsed, a loop has at most WordBits iterations (dach_ar64.c).
THEOREM NormalisationDoubles ==
  Spec => /\ [](range \in 1 .. Top + 1)
          /\ [][ShiftOut \/ ShiftUnderflow \/ ShiftIn => range' = 2 * range]_vars
<1>1. CodecInv => range \in 1 .. Top + 1
    BY RangeFits
<1>2. CodecInv /\ [Next]_vars
        => [ShiftOut \/ ShiftUnderflow \/ ShiftIn => range' = 2 * range]_vars
    BY RangeDoubles
<1> QED
    BY <1>1, <1>2, CodecInvariance, PTL DEF Spec

-----------------------------------------------------------------------------
(* How long the pair of programs takes *)

\* What is ahead, in stages, with n bytes in the file and k of them to come: those of a
\* symbol four at a time, those of the file twice, and the code is lost only once.
AheadAt(s, n, k, loss) ==
    CASE s = "open" -> 8 * n + 20
      [] s = "shift out" -> 4 * n + 4 * k + 16
      [] s = "encoder learns" -> 4 * n + 4 * k + 15
      [] s = "encode" -> 4 * n + 4 * k + 13
      [] s = "encoded" -> IF loss = "nothing" THEN 4 * n + 10 ELSE 4 * n + 9
      [] s = "fill" -> 4 * n + 8
      [] s = "shift in" -> 4 * k + 5
      [] s = "decoder learns" -> 4 * k + 4
      [] s = "store" -> 4 * k + 3
      [] s = "decode" -> 4 * k + 2
      [] s = "close" -> 1
      [] OTHER -> 0
Ahead == AheadAt(stage, Len(input), Len(input) - pos, lost)

\* What is ahead in the loop of a stage: the interval grows to all its numbers, the
\* update and the first word come to their ends.
InLoop == CASE stage \in {"shift out", "shift in"} -> Top + 1 - range
            [] stage \in {"encoder learns", "decoder learns"} -> UpdateLeft
            [] stage = "fill" -> IF io = <<>> THEN WordBits + 1 ELSE Len(io)
            [] OTHER -> 0

\* Where a step leaves a stage it goes on to one of these; k and j bytes are to come
\* before and after it.
StageEnds(s, k, loss, t, j, later) ==
    \/ s = "open" /\ t \in Final \cup {"encode"} /\ j = k
    \/ s = "encode" /\ t = "shift out" /\ j = k - 1
    \/ s = "shift out" /\ t = "encoder learns" /\ j = k
    \/ s = "encoder learns" /\ t = "encode" /\ j = k
    \/ s \in Coding /\ t = "encoded"
    \/ s = "encoded" /\ loss = "nothing" /\ t = "encoded" /\ later # "nothing"
    \/ s = "encoded" /\ t = "fill"
    \/ s = "fill" /\ t = "decode"
    \/ s = "decode" /\ t \in {"shift in", "store"} /\ j = k - 1
    \/ s = "shift in" /\ t = "decoder learns" /\ j = k
    \/ s = "decoder learns" /\ t = "store" /\ j = k
    \/ s = "store" /\ t \in {"decode", "close"} /\ j = k
    \/ s \in Coding \cup Decoding \cup {"close"} /\ t \in Final

LEMMA AheadIsNat ==
  ASSUME NEW s \in Stages, NEW n \in Nat, NEW k \in Nat, NEW loss
  PROVE  /\ AheadAt(s, n, k, loss) \in Nat
         /\ s \in Coding => AheadAt(s, n, k, loss) > 4 * n + 10
         /\ s \in Coding \cup Decoding \cup {"close"} => AheadAt(s, n, k, loss) > 0
         /\ s \in Final => AheadAt(s, n, k, loss) = 0
<1>1. CASE s = "encode"
  <2>1. AheadAt(s, n, k, loss) = 4 * n + 4 * k + 13
      BY <1>1 DEF AheadAt
  <2>2. s \notin Final
      BY <1>1 DEF Final
  <2> QED
      BY <2>1, <2>2
<1>2. CASE s = "shift out"
  <2>1. AheadAt(s, n, k, loss) = 4 * n + 4 * k + 16
      BY <1>2 DEF AheadAt
  <2>2. s \notin Final
      BY <1>2 DEF Final
  <2> QED
      BY <2>1, <2>2
<1>3. CASE s = "encoder learns"
  <2>1. AheadAt(s, n, k, loss) = 4 * n + 4 * k + 15
      BY <1>3 DEF AheadAt
  <2>2. s \notin Final
      BY <1>3 DEF Final
  <2> QED
      BY <2>1, <2>2
<1>4. CASE s = "decode"
  <2>1. AheadAt(s, n, k, loss) = 4 * k + 2
      BY <1>4 DEF AheadAt
  <2>2. s \notin Final /\ s \notin Coding
      BY <1>4 DEF Final, Coding
  <2> QED
      BY <2>1, <2>2
<1>5. CASE s = "shift in"
  <2>1. AheadAt(s, n, k, loss) = 4 * k + 5
      BY <1>5 DEF AheadAt
  <2>2. s \notin Final /\ s \notin Coding
      BY <1>5 DEF Final, Coding
  <2> QED
      BY <2>1, <2>2
<1>6. CASE s = "decoder learns"
  <2>1. AheadAt(s, n, k, loss) = 4 * k + 4
      BY <1>6 DEF AheadAt
  <2>2. s \notin Final /\ s \notin Coding
      BY <1>6 DEF Final, Coding
  <2> QED
      BY <2>1, <2>2
<1>7. CASE s = "store"
  <2>1. AheadAt(s, n, k, loss) = 4 * k + 3
      BY <1>7 DEF AheadAt
  <2>2. s \notin Final /\ s \notin Coding
      BY <1>7 DEF Final, Coding
  <2> QED
      BY <2>1, <2>2
<1>8. CASE s \in {"open", "encoded", "fill", "close"}
  <2>1. AheadAt(s, n, k, loss) \in {8 * n + 20, 4 * n + 10, 4 * n + 9, 4 * n + 8, 1}
      BY <1>8 DEF AheadAt
  <2>2. s \notin Final /\ s \notin Coding
      BY <1>8 DEF Final, Coding
  <2> QED
      BY <2>1, <2>2
<1>9. CASE s \in Final
  <2>1. AheadAt(s, n, k, loss) = 0
      BY <1>9 DEF AheadAt, Final
  <2>2. s \notin Coding \cup Decoding \cup {"close"}
      BY <1>9 DEF Final, Coding, Decoding
  <2> QED
      BY <2>1, <2>2
<1> QED
    BY <1>1, <1>2, <1>3, <1>4, <1>5, <1>6, <1>7, <1>8, <1>9 DEF Stages, Coding, Decoding

\* A stage that is left for another one brings the end nearer.
LEMMA AheadFalls ==
  ASSUME NEW s \in Stages, NEW t \in Stages, NEW n \in Nat, NEW k \in 0 .. n, NEW j \in 0 .. n,
         NEW loss, NEW later, StageEnds(s, k, loss, t, j, later)
  PROVE  AheadAt(t, n, j, later) < AheadAt(s, n, k, loss)
<1>0. k \in 0 .. n /\ j \in 0 .. n /\ n \in Nat
    OBVIOUS
<1>1. CASE s = "open" /\ t = "encode" /\ j = k
  <2>1. /\ AheadAt(s, n, k, loss) = 8 * n + 20
        /\ AheadAt(t, n, j, later) = 4 * n + 4 * j + 13
      BY <1>1 DEF AheadAt
  <2>2. j = k
      BY <1>1
  <2>3. 4 * n + 4 * j + 13 < 8 * n + 20
      BY <1>0, <2>2
  <2> QED
      BY <2>1, <2>3
<1>2. CASE s = "encode" /\ t = "shift out" /\ j = k - 1
  <2>1. /\ AheadAt(s, n, k, loss) = 4 * n + 4 * k + 13
        /\ AheadAt(t, n, j, later) = 4 * n + 4 * j + 16
      BY <1>2 DEF AheadAt
  <2>2. j = k - 1
      BY <1>2
  <2>3. 4 * n + 4 * j + 16 < 4 * n + 4 * k + 13
      BY <1>0, <2>2
  <2> QED
      BY <2>1, <2>3
<1>3. CASE s = "shift out" /\ t = "encoder learns" /\ j = k
  <2>1. /\ AheadAt(s, n, k, loss) = 4 * n + 4 * k + 16
        /\ AheadAt(t, n, j, later) = 4 * n + 4 * j + 15
      BY <1>3 DEF AheadAt
  <2>2. j = k
      BY <1>3
  <2>3. 4 * n + 4 * j + 15 < 4 * n + 4 * k + 16
      BY <1>0, <2>2
  <2> QED
      BY <2>1, <2>3
<1>4. CASE s = "encoder learns" /\ t = "encode" /\ j = k
  <2>1. /\ AheadAt(s, n, k, loss) = 4 * n + 4 * k + 15
        /\ AheadAt(t, n, j, later) = 4 * n + 4 * j + 13
      BY <1>4 DEF AheadAt
  <2>2. j = k
      BY <1>4
  <2>3. 4 * n + 4 * j + 13 < 4 * n + 4 * k + 15
      BY <1>0, <2>2
  <2> QED
      BY <2>1, <2>3
<1>5. CASE s = "fill" /\ t = "decode"
  <2>1. /\ AheadAt(s, n, k, loss) = 4 * n + 8
        /\ AheadAt(t, n, j, later) = 4 * j + 2
      BY <1>5 DEF AheadAt
  <2>3. 4 * j + 2 < 4 * n + 8
      BY <1>0
  <2> QED
      BY <2>1, <2>3
<1>6. CASE s = "decode" /\ t = "shift in" /\ j = k - 1
  <2>1. /\ AheadAt(s, n, k, loss) = 4 * k + 2
        /\ AheadAt(t, n, j, later) = 4 * j + 5
      BY <1>6 DEF AheadAt
  <2>2. j = k - 1
      BY <1>6
  <2>3. 4 * j + 5 < 4 * k + 2
      BY <1>0, <2>2
  <2> QED
      BY <2>1, <2>3
<1>7. CASE s = "decode" /\ t = "store" /\ j = k - 1
  <2>1. /\ AheadAt(s, n, k, loss) = 4 * k + 2
        /\ AheadAt(t, n, j, later) = 4 * j + 3
      BY <1>7 DEF AheadAt
  <2>2. j = k - 1
      BY <1>7
  <2>3. 4 * j + 3 < 4 * k + 2
      BY <1>0, <2>2
  <2> QED
      BY <2>1, <2>3
<1>8. CASE s = "shift in" /\ t = "decoder learns" /\ j = k
  <2>1. /\ AheadAt(s, n, k, loss) = 4 * k + 5
        /\ AheadAt(t, n, j, later) = 4 * j + 4
      BY <1>8 DEF AheadAt
  <2>2. j = k
      BY <1>8
  <2>3. 4 * j + 4 < 4 * k + 5
      BY <1>0, <2>2
  <2> QED
      BY <2>1, <2>3
<1>9. CASE s = "decoder learns" /\ t = "store" /\ j = k
  <2>1. /\ AheadAt(s, n, k, loss) = 4 * k + 4
        /\ AheadAt(t, n, j, later) = 4 * j + 3
      BY <1>9 DEF AheadAt
  <2>2. j = k
      BY <1>9
  <2>3. 4 * j + 3 < 4 * k + 4
      BY <1>0, <2>2
  <2> QED
      BY <2>1, <2>3
<1>10. CASE s = "store" /\ t = "decode" /\ j = k
  <2>1. /\ AheadAt(s, n, k, loss) = 4 * k + 3
        /\ AheadAt(t, n, j, later) = 4 * j + 2
      BY <1>10 DEF AheadAt
  <2>2. j = k
      BY <1>10
  <2>3. 4 * j + 2 < 4 * k + 3
      BY <1>0, <2>2
  <2> QED
      BY <2>1, <2>3
<1>11. CASE s = "store" /\ t = "close" /\ j = k
  <2>1. /\ AheadAt(s, n, k, loss) = 4 * k + 3
        /\ AheadAt(t, n, j, later) = 1
      BY <1>11 DEF AheadAt
  <2>2. j = k
      BY <1>11
  <2>3. 1 < 4 * k + 3
      BY <1>0, <2>2
  <2> QED
      BY <2>1, <2>3
<1>12. CASE s \in Coding /\ t = "encoded"
  <2>1. AheadAt(t, n, j, later) \in {4 * n + 10, 4 * n + 9}
      BY <1>12 DEF AheadAt
  <2>2. AheadAt(s, n, k, loss) > 4 * n + 10 /\ AheadAt(s, n, k, loss) \in Nat
      BY <1>12, AheadIsNat
  <2> QED
      BY <2>1, <2>2
<1>13. CASE s = "encoded" /\ loss = "nothing" /\ t = "encoded" /\ later # "nothing"
  <2>1. AheadAt(t, n, j, later) = 4 * n + 9 /\ AheadAt(s, n, k, loss) = 4 * n + 10
      BY <1>13 DEF AheadAt
  <2> QED
      BY <2>1
<1>14. CASE s = "encoded" /\ t = "fill"
  <2>1. /\ AheadAt(s, n, k, loss) \in {4 * n + 10, 4 * n + 9}
        /\ AheadAt(t, n, j, later) = 4 * n + 8
      BY <1>14 DEF AheadAt
  <2> QED
      BY <2>1
<1>15. CASE s \in Coding \cup Decoding \cup {"close"} /\ t \in Final
    BY <1>15, AheadIsNat
<1>16. CASE s = "open" /\ t \in Final
  <2>1. AheadAt(s, n, k, loss) = 8 * n + 20
      BY <1>16 DEF AheadAt
  <2>2. AheadAt(t, n, j, later) = 0
      BY <1>16, AheadIsNat
  <2> QED
      BY <2>1, <2>2
<1> QED
    BY <1>1, <1>2, <1>3, <1>4, <1>5, <1>6, <1>7, <1>8, <1>9, <1>10, <1>11, <1>12, <1>13,
       <1>14, <1>15, <1>16 DEF StageEnds

LEMMA CountsAreNat == ASSUME CodecInv PROVE Ahead \in Nat /\ InLoop \in Nat
<1>1. Ahead \in Nat
  <2>1. stage \in Stages /\ Len(input) \in Nat /\ Len(input) - pos \in Nat
      BY DEF CodecInv, Place
  <2> QED
      BY <2>1, AheadIsNat DEF Ahead
<1>2. Top + 1 - range \in Nat
    BY RangeFits, Registers
<1>3. UpdateLeft \in Nat
  <2>1. IInv
      BY DEF CodecInv, Learning
  <2>2. UpdateLeft \in 0 .. 2 * SymCount - 1
      BY <2>1, UpdateLeftFits
  <2> QED
      BY <2>2, SymCountAssumption
<1>4. WordBits + 1 \in Nat /\ Len(io) \in Nat
    BY WordBitsAssumption DEF CodecInv, Bits
<1> QED
    BY <1>1, <1>2, <1>3, <1>4 DEF InLoop

\* A step that leaves its stage.
LEMMA Leaves ==
  ASSUME CodecInv, CodecInv', input' = input,
         StageEnds(stage, Len(input) - pos, lost, stage', Len(input) - pos', lost')
  PROVE  Ahead' < Ahead
<1> DEFINE n == Len(input)
           k == n - pos
           j == n - pos'
<1>1. /\ stage \in Stages /\ stage' \in Stages
      /\ n \in Nat /\ pos \in 0 .. n /\ pos' \in 0 .. n
    BY DEF CodecInv, Place
<1>2. k \in 0 .. n /\ j \in 0 .. n
    BY <1>1
<1>3. StageEnds(stage, k, lost, stage', j, lost')
    OBVIOUS
<1>4. Ahead = AheadAt(stage, n, k, lost) /\ Ahead' = AheadAt(stage', n, j, lost')
    BY DEF Ahead
<1> HIDE DEF n, k, j
<1> QED
    BY <1>1, <1>2, <1>3, <1>4, AheadFalls

\* One that stays in its loop.
LEMMA Stays ==
  ASSUME UNCHANGED <<input, stage, pos, lost>>
  PROVE  Ahead' = Ahead
BY DEF Ahead

LEMMA PlacesLeft ==
  ASSUME CodecInv, CodecInv', input' = input
  PROVE  /\ pos' = pos => Len(input) - pos' = Len(input) - pos
         /\ pos' = pos + 1 => Len(input) - pos' = Len(input) - pos - 1
<1>1. Len(input) \in Nat /\ pos \in Int /\ pos' \in Int
    BY DEF CodecInv, Place
<1> QED
    BY <1>1

\* A step is nearer to the end by what is ahead or, in a loop, by what is ahead in it.
Nearer == Ahead' < Ahead \/ (Ahead' = Ahead /\ InLoop' < InLoop)

LEMMA EncoderNearer == ASSUME CodecInv, CodecInv', Encoder PROVE Nearer
<1> DEFINE k == Len(input) - pos
           j == Len(input) - pos'
<1>1. input' = input
    BY DEF Encoder, OpenInput, EncodeNarrow, EncodeExit, ShiftOut, ShiftUnderflow,
           EncodeLearn, EncodeUpdate, StopEncoder
<1>2. (pos' = pos => j = k) /\ (pos' = pos + 1 => j = k - 1)
    BY <1>1, PlacesLeft
<1>3. StageEnds(stage, k, lost, stage', j, lost') => Nearer
    BY <1>1, Leaves DEF Nearer
<1> HIDE DEF j, k
<1>4. CASE OpenInput
  <2>1. stage = "open" /\ stage' \in {"failed", "encode"} /\ pos' = pos
      BY <1>4 DEF OpenInput
  <2> QED
      BY <1>2, <1>3, <2>1 DEF StageEnds, Final
<1>5. CASE EncodeNarrow
  <2>1. stage = "encode" /\ stage' = "shift out" /\ pos' = pos + 1
      BY <1>5 DEF EncodeNarrow
  <2> QED
      BY <1>2, <1>3, <2>1 DEF StageEnds
<1>6. CASE EncodeExit
  <2>1. stage \in Coding /\ stage' \in Final
      BY <1>6 DEF EncodeExit, Coding, Final
  <2> QED
      BY <1>3, <2>1 DEF StageEnds
<1>7. CASE ShiftOut \/ ShiftUnderflow
  <2>1. stage = "shift out" /\ UNCHANGED <<input, stage, pos, lost>>
      BY <1>7 DEF ShiftOut, ShiftUnderflow
  <2>2. InLoop = Top + 1 - range /\ InLoop' = Top + 1 - range'
      BY <2>1 DEF InLoop
  <2>3. range' = 2 * range /\ range \in 1 .. Top + 1 /\ Top \in Nat
      BY <1>7, RangeDoubles, RangeFits, Registers
  <2>4. InLoop' < InLoop
      BY <2>2, <2>3
  <2> QED
      BY <2>1, <2>4, Stays DEF Nearer
<1>8. CASE EncodeLearn
  <2>1. stage = "shift out" /\ stage' = "encoder learns" /\ pos' = pos
      BY <1>8 DEF EncodeLearn
  <2> QED
      BY <1>2, <1>3, <2>1 DEF StageEnds
<1>9. CASE EncodeUpdate
  <2>1. /\ stage = "encoder learns" /\ UNCHANGED <<input, pos, lost>> /\ UpdateStep
        /\ stage' = "encode" \/ stage' = stage
      BY <1>9 DEF EncodeUpdate
  <2>2. CASE stage' = "encode"
      BY <1>2, <1>3, <2>1, <2>2 DEF StageEnds
  <2>3. CASE stage' = stage
    <3>1. InLoop = UpdateLeft /\ InLoop' = UpdateLeft'
        BY <2>1, <2>3 DEF InLoop
    <3>2. UpdateLeft' < UpdateLeft
        BY <2>1, UpdateStepShorter DEF CodecInv, Learning
    <3> QED
        BY <2>1, <2>3, <3>1, <3>2, Stays DEF Nearer
  <2> QED
      BY <2>1, <2>2, <2>3
<1>10. CASE StopEncoder
  <2>1. stage \in Coding /\ (stage' \in Final \/ stage' = "encoded")
      BY <1>10 DEF StopEncoder, Coding, Final
  <2> QED
      BY <1>3, <2>1 DEF StageEnds
<1> QED
    BY <1>4, <1>5, <1>6, <1>7, <1>8, <1>9, <1>10 DEF Encoder

LEMMA DecoderNearer == ASSUME CodecInv, CodecInv', Decoder PROVE Nearer
<1> DEFINE k == Len(input) - pos
           j == Len(input) - pos'
<1>1. input' = input
    BY DEF Decoder, OpenCode, FillWindow, DecodeNarrow, DecodeLast, DecodeExit, ShiftIn,
           ShiftInAborts, DecodeLearn, DecodeUpdate, Store, Close
<1>2. (pos' = pos => j = k) /\ (pos' = pos + 1 => j = k - 1)
    BY <1>1, PlacesLeft
<1>3. StageEnds(stage, k, lost, stage', j, lost') => Nearer
    BY <1>1, Leaves DEF Nearer
<1> HIDE DEF j, k
<1>4. CASE OpenCode
  <2>1. stage = "encoded" /\ stage' = "fill"
      BY <1>4 DEF OpenCode
  <2> QED
      BY <1>3, <2>1 DEF StageEnds
<1>5. CASE FillWindow
  <2>1. /\ stage = "fill" /\ UNCHANGED <<input, pos, lost>> /\ io' = Tail(Buffer)
        /\ stage' = IF Len(Buffer) = 1 THEN "decode" ELSE stage
      BY <1>5 DEF FillWindow
  <2>2. CASE Len(Buffer) = 1
      BY <1>3, <2>1, <2>2 DEF StageEnds
  <2>3. CASE Len(Buffer) # 1
    <3>1. /\ Buffer \in Seq({0, 1}) /\ Buffer # <<>> /\ Len(Buffer) <= WordBits
          /\ WordBits \in Nat
        BY BufferFits, WordBitsAssumption DEF CodecInv
    <3>2. Len(io') = Len(Buffer) - 1 /\ Len(Buffer) \in Nat \ {0, 1} /\ io' # <<>>
      <4>1. Len(Buffer) \in Nat \ {0} /\ Len(Tail(Buffer)) = Len(Buffer) - 1
          BY <3>1, EmptySeq, HeadTailProperties
      <4>2. Len(io') # 0
          BY <2>1, <2>3, <4>1
      <4> QED
          BY <2>1, <2>3, <4>1, <4>2
    <3>3. stage' = stage /\ InLoop' = Len(io')
        BY <2>1, <2>3, <3>2 DEF InLoop
    <3>4. InLoop = IF io = <<>> THEN WordBits + 1 ELSE Len(Buffer)
        BY <2>1 DEF InLoop, Buffer, Refill
    <3>5. InLoop' < InLoop
        BY <3>1, <3>2, <3>3, <3>4
    <3> QED
        BY <2>1, <3>3, <3>5, Stays DEF Nearer
  <2> QED
      BY <2>2, <2>3
<1>6. CASE DecodeNarrow \/ DecodeLast
  <2>1. stage = "decode" /\ stage' \in {"shift in", "store"} /\ pos' = pos + 1
      BY <1>6 DEF DecodeNarrow, DecodeLast
  <2> QED
      BY <1>2, <1>3, <2>1 DEF StageEnds
<1>7. CASE DecodeExit \/ ShiftInAborts
  <2>1. stage \in Decoding /\ stage' \in Final
      BY <1>7 DEF DecodeExit, ShiftInAborts, Decoding, Final
  <2> QED
      BY <1>3, <2>1 DEF StageEnds
<1>8. CASE ShiftIn
  <2>1. stage = "shift in" /\ UNCHANGED <<input, stage, pos, lost>>
      BY <1>8 DEF ShiftIn
  <2>2. InLoop = Top + 1 - range /\ InLoop' = Top + 1 - range'
      BY <2>1 DEF InLoop
  <2>3. range' = 2 * range /\ range \in 1 .. Top + 1 /\ Top \in Nat
      BY <1>8, RangeDoubles, RangeFits, Registers
  <2>4. InLoop' < InLoop
      BY <2>2, <2>3
  <2> QED
      BY <2>1, <2>4, Stays DEF Nearer
<1>9. CASE DecodeLearn
  <2>1. stage = "shift in" /\ stage' = "decoder learns" /\ pos' = pos
      BY <1>9 DEF DecodeLearn
  <2> QED
      BY <1>2, <1>3, <2>1 DEF StageEnds
<1>10. CASE DecodeUpdate
  <2>1. /\ stage = "decoder learns" /\ UNCHANGED <<input, pos, lost>> /\ UpdateStep
        /\ stage' = "store" \/ stage' = stage
      BY <1>10 DEF DecodeUpdate
  <2>2. CASE stage' = "store"
      BY <1>2, <1>3, <2>1, <2>2 DEF StageEnds
  <2>3. CASE stage' = stage
    <3>1. InLoop = UpdateLeft /\ InLoop' = UpdateLeft'
        BY <2>1, <2>3 DEF InLoop
    <3>2. UpdateLeft' < UpdateLeft
        BY <2>1, UpdateStepShorter DEF CodecInv, Learning
    <3> QED
        BY <2>1, <2>3, <3>1, <3>2, Stays DEF Nearer
  <2> QED
      BY <2>1, <2>2, <2>3
<1>11. CASE Store
  <2>1. stage = "store" /\ stage' \in {"decode", "close"} /\ pos' = pos
      BY <1>11 DEF Store
  <2> QED
      BY <1>2, <1>3, <2>1 DEF StageEnds
<1>12. CASE Close
  <2>1. stage = "close" /\ stage' \in Final
      BY <1>12 DEF Close, Final
  <2> QED
      BY <1>3, <2>1 DEF StageEnds
<1> QED
    BY <1>4, <1>5, <1>6, <1>7, <1>8, <1>9, <1>10, <1>11, <1>12 DEF Decoder

LEMMA LossNearer == ASSUME CodecInv, CodecInv', LoseCode PROVE Nearer
<1>1. /\ lost = "nothing" /\ lost' = "code" /\ stage' = "encoded" /\ input' = input
      /\ stage \in Coding \cup {"encoded"}
    BY DEF LoseCode, Coding
<1>2. StageEnds(stage, Len(input) - pos, lost, stage', Len(input) - pos', lost')
    BY <1>1 DEF StageEnds
<1> QED
    BY <1>1, <1>2, Leaves DEF Nearer

\* Every step of either program, and the loss of the code, brings the end of the pair
\* nearer: in what is ahead of it in stages, or in that of the loop it is in.  The two
\* are natural numbers, so no sequence of steps goes on for ever: not for a file that
\* was cut off, not for code that is no code, not with a precision that is exhausted.
THEOREM PairComesNearerToItsEnd ==
  Spec => [](Ahead \in Nat /\ InLoop \in Nat) /\ [][Nearer]_vars
<1>1. CodecInv => Ahead \in Nat /\ InLoop \in Nat
    BY CountsAreNat
<1>2. CodecInv /\ CodecInv' /\ [Next]_vars => [Nearer]_vars
  <2> SUFFICES ASSUME CodecInv, CodecInv', Next, ~UNCHANGED vars PROVE Nearer
      OBVIOUS
  <2> QED
      BY EncoderNearer, DecoderNearer, LossNearer DEF Next, Terminated
<1> QED
    BY <1>1, <1>2, CodecInvariance, PTL DEF Spec
=============================================================================
