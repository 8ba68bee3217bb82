----------------------------- MODULE Ppm0Proofs -----------------------------
(***************************************************************************)
(* Proofs about Ppm0 for every SymCount and every MaxScale.                *)
(*                                                                         *)
(* Between updates the table is sorted and its suffix sums are exact; in   *)
(* the middle of an update neither is true.  The inductive invariant says  *)
(* how far from true: exactly one rank ("Owed") is short by one in its     *)
(* suffix sum, and exactly one pair of neighbours may be out of order, by  *)
(* exactly one.                                                            *)
(***************************************************************************)
EXTENDS Ppm0, InductionLemmas

\* The rank whose suffix sum is one short of what its frequency asks for.
Owed == IF phase = "swap" THEN sym ELSE IF phase = "cum" THEN at ELSE 0

Short(s) == IF s = Owed THEN 1 ELSE 0

\* Where the cursors are in each phase; the EOF symbol is never updated.
Cursors == /\ phase = "swap" => at \in 1 .. sym
           /\ phase = "cum" => at \in 0 .. sym
           /\ phase # "ready" => sym >= 1

Positive == \A c \in Chr : freq[c] > 0

\* Suffix sums, up to the one unit that is owed.
Suffix == \A s \in Sym : Cum(s) = FreqAt(s) + Cum(s + 1) - Short(s)

ScaleIsTotal == scale = IF phase = "cum" /\ at = 0 THEN Cum(1) - 1 ELSE Cum(1)

\* Neighbours are in order, except that the chr at "at" may be ahead by one.
Sorted == \A s \in 1 .. SymCount - 2 :
             IF phase = "swap" /\ s + 1 = at
             THEN FreqAt(s) >= FreqAt(s + 1) - 1
             ELSE IF phase = "swap" /\ s = at
                  THEN FreqAt(s) - 1 >= FreqAt(s + 1)
                  ELSE FreqAt(s) >= FreqAt(s + 1)

\* The inductive invariant of the model.
IInv == /\ TypeOK
        /\ Bijective
        /\ EofPinned
        /\ Cursors
        /\ Positive
        /\ Suffix
        /\ ScaleIsTotal
        /\ Sorted
-----------------------------------------------------------------------------
\* The table that dach_ppm0_new_ builds satisfies the invariant.
THEOREM InitIInv == PpmInit => IInv
<1> SUFFICES ASSUME PpmInit PROVE IInv
    OBVIOUS
<1> USE SymCountAssumption DEF Sym, Chr, Sentinel, ChrAtStart, SymAtStart, FreqAtStart, CumAtStart
<1>1. TypeOK
    BY DEF PpmInit, TypeOK
<1>2. Bijective
  <2>1. \A s \in Sym : sym_to_chr[s] = s - 1
      BY DEF PpmInit
  <2>2. \A c \in Chr : chr_to_sym[c] = c + 1
      BY DEF PpmInit
  <2>3. sym_to_chr[0] = Sentinel /\ chr_to_sym[Sentinel] = 0
      BY DEF PpmInit
  <2> QED
      BY <2>1, <2>2, <2>3 DEF Bijective
<1>3. EofPinned /\ Cursors
    BY DEF PpmInit, EofPinned, Cursors, Eof
<1>4. Positive
    BY DEF PpmInit, Positive
<1>5. \A s \in Sym : FreqAt(s) = 1 /\ Cum(s) = SymCount - s
    BY DEF PpmInit, FreqAt, Cum
<1>6. Cum(SymCount) = 0
    BY DEF Cum
<1>7. Suffix
    BY <1>5, <1>6 DEF PpmInit, Suffix, Short, Owed
<1>8. ScaleIsTotal /\ Sorted
    BY <1>5 DEF PpmInit, ScaleIsTotal, Sorted
<1> QED
    BY <1>1, <1>2, <1>3, <1>4, <1>7, <1>8 DEF IInv

\* What the table operators return when the invariant holds.
LEMMA Values ==
  ASSUME IInv
  PROVE  /\ \A s \in Sym : FreqAt(s) \in Nat /\ FreqAt(s) > 0 /\ Cum(s) \in Nat
         /\ Cum(SymCount) = 0
         /\ \A s, t \in Sym : s # t => sym_to_chr[s] # sym_to_chr[t]
<1> USE SymCountAssumption DEF Sym, Chr, Sentinel
<1>1. \A s \in Sym : FreqAt(s) \in Nat /\ FreqAt(s) > 0 /\ Cum(s) \in Nat
    BY DEF IInv, TypeOK, Bijective, Positive, FreqAt, Cum
<1>2. \A s, t \in Sym : s # t => sym_to_chr[s] # sym_to_chr[t]
    BY DEF IInv, Bijective
<1> QED
    BY <1>1, <1>2 DEF Cum

\* Starting an update: one frequency is raised, and that rank is now owed.
LEMMA UpdateBeginIInv ==
  ASSUME IInv, NEW s \in 1 .. SymCount - 2, UpdateBegin(s)
  PROVE  IInv'
<1> USE SymCountAssumption DEF Sym, Chr, Sentinel
<1>1. TypeOK'
    BY DEF IInv, TypeOK, UpdateBegin
<1>2. Bijective' /\ EofPinned' /\ Cursors'
    BY DEF IInv, Bijective, EofPinned, Cursors, UpdateBegin
<1>3. Positive'
    BY DEF IInv, TypeOK, Positive, UpdateBegin
<1>4. \A t \in Sym : FreqAt(t)' = IF t = s THEN FreqAt(t) + 1 ELSE FreqAt(t)
    BY Values DEF IInv, TypeOK, Bijective, FreqAt, UpdateBegin
<1>5. \A t \in 1 .. SymCount : Cum(t)' = Cum(t)
    BY DEF Cum, UpdateBegin
<1>6. Suffix'
  <2> SUFFICES ASSUME NEW t \in Sym
               PROVE  Cum(t)' = FreqAt(t)' + Cum(t + 1)' - Short(t)'
      BY DEF Suffix
  <2>1. Cum(t) = FreqAt(t) + Cum(t + 1)
      BY Values DEF IInv, Suffix, Short, Owed, UpdateBegin
  <2>2. Short(t)' = IF t = s THEN 1 ELSE 0
      BY DEF Short, Owed, UpdateBegin
  <2>3. FreqAt(t) \in Nat /\ Cum(t + 1) \in Nat
      BY Values
  <2> QED
      BY <1>4, <1>5, <2>1, <2>2, <2>3
<1>7. ScaleIsTotal'
    BY <1>5 DEF IInv, ScaleIsTotal, UpdateBegin
<1>8. Sorted'
  <2>1. \A t \in 1 .. SymCount - 2 : FreqAt(t) >= FreqAt(t + 1)
      BY DEF IInv, Sorted, UpdateBegin
  <2>2. phase' = "swap" /\ at' = s
      BY DEF UpdateBegin
  <2> QED
      BY <1>4, <2>1, <2>2, Values DEF Sorted
<1> QED
    BY <1>1, <1>2, <1>3, <1>6, <1>7, <1>8 DEF IInv

\* One swap: the chr moves up a rank, and the unit its suffix sum was short of
\* is taken from the chr it passes.
LEMMA SwapUpIInv ==
  ASSUME IInv, SwapUp
  PROVE  IInv'
<1> USE SymCountAssumption DEF Sym, Chr, Sentinel
<1>1. /\ at \in 2 .. SymCount - 2 /\ sym \in 2 .. SymCount - 2 /\ at <= sym
      /\ phase = "swap" /\ phase' = "swap" /\ at' = at - 1 /\ sym' = sym /\ scale' = scale
    BY DEF IInv, TypeOK, Cursors, EofPinned, SwapUp, Outranks
<1> DEFINE chr1 == sym_to_chr[at]
           chr2 == sym_to_chr[at - 1]
<1>2. /\ chr1 \in Chr /\ chr2 \in Chr /\ chr1 # chr2
      /\ chr_to_sym[chr1] = at /\ chr_to_sym[chr2] = at - 1
    BY <1>1 DEF IInv, Bijective
<1>3. /\ sym_to_chr' = [sym_to_chr EXCEPT ![at] = chr2, ![at - 1] = chr1]
      /\ chr_to_sym' = [chr_to_sym EXCEPT ![chr1] = at - 1, ![chr2] = at]
      /\ cumfreq' = [cumfreq EXCEPT ![chr1] = cumfreq[chr2], ![chr2] = cumfreq[chr1] - 1]
      /\ freq' = freq
    BY DEF SwapUp
<1>4. FreqAt(at) = FreqAt(at - 1) + 1
  <2>1. FreqAt(at - 1) >= FreqAt(at) - 1
      BY <1>1 DEF IInv, Sorted
  <2>2. FreqAt(at) > FreqAt(at - 1)
      BY DEF SwapUp, Outranks
  <2> QED
      BY <1>1, <2>1, <2>2, Values
<1>5. Cum(at) >= 1
    BY <1>1, <1>4, Values DEF IInv, Suffix, Short
<1>6. TypeOK'
  <2>1. cumfreq[chr1] - 1 \in Nat /\ cumfreq[chr2] \in Nat
      BY <1>1, <1>2, <1>5 DEF Cum, IInv, TypeOK
  <2> HIDE DEF chr1, chr2
  <2>2. cumfreq' \in [Chr \cup {Sentinel} -> Nat]
      BY <1>2, <1>3, <2>1 DEF IInv, TypeOK
  <2>3. sym_to_chr' \in [Sym \cup {0} -> Chr \cup {Sentinel}]
      BY <1>1, <1>2, <1>3 DEF IInv, TypeOK
  <2>4. chr_to_sym' \in [Chr \cup {Sentinel} -> Sym \cup {0}]
      BY <1>1, <1>2, <1>3 DEF IInv, TypeOK
  <2>5. /\ freq' \in [Chr \cup {Sentinel} -> Nat] /\ scale' \in Nat
        /\ phase' \in {"ready", "swap", "cum"}
        /\ sym' \in Sym \cup {0} /\ at' \in Sym \cup {0}
      BY <1>1, <1>3 DEF IInv, TypeOK
  <2> QED
      BY <2>2, <2>3, <2>4, <2>5 DEF TypeOK
<1>7. \A s \in Sym \cup {0} : sym_to_chr'[s] = IF s = at THEN chr2
                                          ELSE IF s = at - 1 THEN chr1
                                          ELSE sym_to_chr[s]
    BY <1>1, <1>3 DEF IInv, TypeOK
<1>8. \A c \in Chr \cup {Sentinel} : chr_to_sym'[c] = IF c = chr2 THEN at
                                                ELSE IF c = chr1 THEN at - 1
                                                ELSE chr_to_sym[c]
    BY <1>2, <1>3 DEF IInv, TypeOK
<1>9. Bijective'
  <2>1. ASSUME NEW s \in Sym
        PROVE  sym_to_chr'[s] \in Chr /\ chr_to_sym'[sym_to_chr'[s]] = s
      BY <1>1, <1>2, <1>7, <1>8 DEF IInv, Bijective
  <2>2. ASSUME NEW c \in Chr
        PROVE  chr_to_sym'[c] \in Sym /\ sym_to_chr'[chr_to_sym'[c]] = c
      BY <1>1, <1>2, <1>7, <1>8 DEF IInv, Bijective
  <2>3. sym_to_chr'[0] = Sentinel /\ chr_to_sym'[Sentinel] = 0
      BY <1>1, <1>2, <1>7, <1>8 DEF IInv, Bijective
  <2> QED
      BY <2>1, <2>2, <2>3 DEF Bijective
<1>10. EofPinned' /\ Cursors'
    BY <1>1, <1>7 DEF IInv, EofPinned, Cursors
<1>11. Positive'
    BY <1>3 DEF IInv, Positive
<1>12. \A s \in Sym : FreqAt(s)' = IF s = at THEN FreqAt(at - 1)
                                ELSE IF s = at - 1 THEN FreqAt(at)
                                ELSE FreqAt(s)
  <2>1. \A s \in Sym : FreqAt(s)' = freq[sym_to_chr'[s]]
      BY <1>3 DEF FreqAt
  <2>2. \A s \in Sym : FreqAt(s) = freq[sym_to_chr[s]]
      BY DEF FreqAt
  <2> QED
      BY <1>1, <1>7, <2>1, <2>2
<1>13. \A s \in 1 .. SymCount : Cum(s)' = IF s = at THEN Cum(at) - 1 ELSE Cum(s)
  <2>1. \A c \in Chr : cumfreq'[c] = IF c = chr2 THEN cumfreq[chr1] - 1
                                  ELSE IF c = chr1 THEN cumfreq[chr2]
                                  ELSE cumfreq[c]
      BY <1>2, <1>3 DEF IInv, TypeOK
  <2>2. ASSUME NEW s \in Sym, s # at, s # at - 1
        PROVE  sym_to_chr[s] \in Chr /\ sym_to_chr[s] # chr1 /\ sym_to_chr[s] # chr2
      BY <1>1, <2>2 DEF IInv, Bijective
  <2> QED
      BY <1>1, <1>2, <1>7, <2>1, <2>2 DEF Cum
<1>14. Suffix'
  <2> SUFFICES ASSUME NEW s \in Sym
               PROVE  Cum(s)' = FreqAt(s)' + Cum(s + 1)' - Short(s)'
      BY DEF Suffix
  <2>1. Short(s)' = Short(s) /\ Short(s) \in 0 .. 1
      BY <1>1 DEF Short, Owed
  <2>2. /\ Cum(s) = FreqAt(s) + Cum(s + 1) - Short(s)
        /\ Cum(at) = FreqAt(at) + Cum(at + 1) - Short(at)
        /\ Cum(at - 1) = FreqAt(at - 1) + Cum(at) - Short(at - 1)
      BY <1>1 DEF IInv, Suffix
  <2>3. FreqAt(s) \in Nat /\ Cum(s) \in Nat /\ Cum(s + 1) \in Nat
      BY Values
  <2>4. FreqAt(at - 1) \in Nat /\ Cum(at) \in Nat /\ Cum(at + 1) \in Nat
      BY <1>1, Values
  <2>5. CASE s = at
      BY <1>1, <1>4, <1>12, <1>13, <2>1, <2>2, <2>3, <2>4, <2>5
  <2>6. CASE s = at - 1
    <3>1. Short(s) = 0
        BY <1>1, <2>6 DEF Short, Owed
    <3> QED
        BY <1>1, <1>4, <1>12, <1>13, <2>1, <2>2, <2>3, <2>4, <2>6, <3>1
  <2>7. CASE s # at /\ s # at - 1
      BY <1>1, <1>12, <1>13, <2>1, <2>2, <2>3, <2>7
  <2> QED
      BY <2>5, <2>6, <2>7
<1>15. ScaleIsTotal'
    BY <1>1, <1>13 DEF IInv, ScaleIsTotal
<1>16. Sorted'
  <2> SUFFICES ASSUME NEW s \in 1 .. SymCount - 2
               PROVE  IF s + 1 = at - 1
                      THEN FreqAt(s)' >= FreqAt(s + 1)' - 1
                      ELSE IF s = at - 1
                           THEN FreqAt(s)' - 1 >= FreqAt(s + 1)'
                           ELSE FreqAt(s)' >= FreqAt(s + 1)'
      BY <1>1 DEF Sorted
  <2>1. \A t \in 1 .. SymCount - 2 :
           /\ t + 1 # at /\ t # at => FreqAt(t) >= FreqAt(t + 1)
           /\ t = at => FreqAt(t) - 1 >= FreqAt(t + 1)
      BY <1>1 DEF IInv, Sorted
  <2> QED
      BY <1>1, <1>4, <1>12, <2>1, Values
<1> QED
    BY <1>6, <1>9, <1>10, <1>11, <1>14, <1>15, <1>16 DEF IInv
\* The swaps stop: the table is sorted again, and the unit is still owed at the
\* rank the update started from, where the loop over cumfreq begins.
LEMMA SwapDoneIInv ==
  ASSUME IInv, SwapDone
  PROVE  IInv'
<1> USE SymCountAssumption DEF Sym, Chr, Sentinel
<1>1. /\ at \in 1 .. sym /\ sym \in 1 .. SymCount - 2
      /\ phase = "swap" /\ phase' = "cum" /\ at' = sym /\ sym' = sym
    BY DEF IInv, TypeOK, Cursors, EofPinned, SwapDone
<1>2. TypeOK' /\ Bijective' /\ EofPinned' /\ Cursors' /\ Positive'
    BY <1>1 DEF IInv, TypeOK, Bijective, EofPinned, Cursors, Positive, SwapDone, table
<1>3. /\ \A s \in Sym : FreqAt(s)' = FreqAt(s)
      /\ \A s \in 1 .. SymCount : Cum(s)' = Cum(s)
    BY DEF FreqAt, Cum, SwapDone, table
<1>4. Suffix'
    BY <1>1, <1>3 DEF IInv, Suffix, Short, Owed
<1>5. ScaleIsTotal'
    BY <1>1, <1>3 DEF IInv, ScaleIsTotal, SwapDone
<1>6. Sorted'
  <2>1. at > 1 => FreqAt(at - 1) >= FreqAt(at)
    <3>1. at > 1 => ~(FreqAt(at) > FreqAt(at - 1))
        BY DEF SwapDone, Outranks
    <3> QED
        BY <1>1, <3>1, Values
  <2>2. \A s \in 1 .. SymCount - 2 : FreqAt(s) >= FreqAt(s + 1)
      BY <1>1, <2>1, Values DEF IInv, Sorted
  <2> QED
      BY <1>1, <1>3, <2>2 DEF Sorted
<1> QED
    BY <1>2, <1>4, <1>5, <1>6 DEF IInv

\* One iteration of the loop: the unit owed moves one rank up.
LEMMA IncCumIInv ==
  ASSUME IInv, IncCum
  PROVE  IInv'
<1> USE SymCountAssumption DEF Sym, Chr, Sentinel
<1>1. /\ at \in 1 .. sym /\ sym \in 1 .. SymCount - 2
      /\ phase = "cum" /\ phase' = "cum" /\ at' = at - 1 /\ sym' = sym /\ scale' = scale
    BY DEF IInv, TypeOK, Cursors, EofPinned, IncCum
<1>2. TypeOK' /\ Bijective' /\ EofPinned' /\ Cursors' /\ Positive'
    BY <1>1 DEF IInv, TypeOK, Bijective, EofPinned, Cursors, Positive, IncCum
<1>3. \A s \in Sym : FreqAt(s)' = FreqAt(s)
    BY DEF FreqAt, IncCum
<1>4. \A s \in 1 .. SymCount : Cum(s)' = IF s = at THEN Cum(s) + 1 ELSE Cum(s)
    BY <1>1, Values DEF IInv, TypeOK, Bijective, Cum, IncCum
<1>5. Suffix'
  <2> SUFFICES ASSUME NEW s \in Sym
               PROVE  Cum(s)' = FreqAt(s)' + Cum(s + 1)' - Short(s)'
      BY DEF Suffix
  <2>1. Cum(s) = FreqAt(s) + Cum(s + 1) - (IF s = at THEN 1 ELSE 0)
      BY <1>1 DEF IInv, Suffix, Short, Owed
  <2>2. Short(s)' = IF s = at - 1 THEN 1 ELSE 0
      BY <1>1 DEF Short, Owed
  <2>3. FreqAt(s) \in Nat /\ Cum(s) \in Nat /\ Cum(s + 1) \in Nat
      BY Values
  <2> QED
      BY <1>1, <1>3, <1>4, <2>1, <2>2, <2>3
<1>6. ScaleIsTotal'
    BY <1>1, <1>4, Values DEF IInv, ScaleIsTotal
<1>7. Sorted'
    BY <1>1, <1>3 DEF IInv, Sorted
<1> QED
    BY <1>2, <1>5, <1>6, <1>7 DEF IInv

\* The loop has passed rank 1: nothing is owed and scale is the total again.
LEMMA UpdateEndIInv ==
  ASSUME IInv, UpdateEnd
  PROVE  IInv' /\ scale' = scale + 1
<1> USE SymCountAssumption DEF Sym, Chr, Sentinel
<1>1. /\ phase = "cum" /\ phase' = "ready" /\ at = 0 /\ at' = 0 /\ sym' = 0
      /\ scale' = Cum(1)
    BY DEF UpdateEnd
<1>2. Cum(1) \in Nat /\ Cum(1) = scale + 1
    BY <1>1, Values DEF IInv, ScaleIsTotal
<1>3. TypeOK' /\ Bijective' /\ EofPinned' /\ Cursors' /\ Positive'
    BY <1>1, <1>2
       DEF IInv, TypeOK, Bijective, EofPinned, Cursors, Positive, UpdateEnd, table
<1>4. /\ \A s \in Sym : FreqAt(s)' = FreqAt(s)
      /\ \A s \in 1 .. SymCount : Cum(s)' = Cum(s)
    BY DEF FreqAt, Cum, UpdateEnd, table
<1>5. Suffix' /\ ScaleIsTotal' /\ Sorted'
    BY <1>1, <1>4 DEF IInv, Suffix, Short, Owed, ScaleIsTotal, Sorted
<1> QED
    BY <1>2, <1>1, <1>3, <1>5 DEF IInv

\* A byte read from a file never has the symbol of the EOF chr.
LEMMA ByteSym ==
  ASSUME IInv, NEW c \in Byte
  PROVE  chr_to_sym[c] \in 1 .. SymCount - 2
BY SymCountAssumption DEF IInv, Bijective, EofPinned, Eof, Byte, Sym, Chr

\* Any step of the model, also of a system that only stutters on it.
THEOREM StepIInv == IInv /\ [PpmNext]_ppm => IInv'
<1> SUFFICES ASSUME IInv, [PpmNext]_ppm PROVE IInv'
    OBVIOUS
<1>1. ASSUME NEW c \in Byte, Learn(c) PROVE IInv'
    BY <1>1, ByteSym, UpdateBeginIInv DEF Learn
<1>2. CASE SwapUp
    BY <1>2, SwapUpIInv
<1>3. CASE SwapDone
    BY <1>3, SwapDoneIInv
<1>4. CASE IncCum
    BY <1>4, IncCumIInv
<1>5. CASE UpdateEnd
    BY <1>5, UpdateEndIInv
<1>6. CASE UNCHANGED ppm
  <2>1. \A s \in 1 .. SymCount : Cum(s)' = Cum(s) /\ FreqAt(s)' = FreqAt(s)
      BY <1>6 DEF Cum, FreqAt, ppm, table
  <2> QED
      BY <1>6, <2>1, SymCountAssumption
         DEF IInv, TypeOK, Bijective, EofPinned, Cursors, Positive, Suffix, Short, Owed,
             ScaleIsTotal, Sorted, ppm, table, Sym
<1> QED
    BY <1>1, <1>2, <1>3, <1>4, <1>5, <1>6 DEF PpmNext, UpdateStep

\* The invariant holds in every reachable state, for every SymCount and MaxScale.
THEOREM Invariance == PpmSpec => []IInv
<1>1. PpmInit => IInv
    BY InitIInv
<1>2. IInv /\ [PpmNext]_ppm => IInv'
    BY StepIInv
<1> QED
    BY <1>1, <1>2, PTL DEF PpmSpec

\* The table's types and cursors, for every SymCount: no array is indexed
\* outside its bounds.
THEOREM TypeCorrect == PpmSpec => []TypeOK
<1>1. IInv => TypeOK
    BY DEF IInv
<1> QED
    BY <1>1, Invariance, PTL

\* The rank table stays a bijection, and the last rank stays EOF's.
THEOREM RanksAreABijection == PpmSpec => [](Bijective /\ EofPinned)
<1>1. IInv => Bijective /\ EofPinned
    BY DEF IInv
<1> QED
    BY <1>1, Invariance, PTL

\* Between updates the table is sorted by frequency.
THEOREM TableIsSorted == PpmSpec => []RankOrder
<1>1. IInv => RankOrder
    BY DEF IInv, Sorted, RankOrder
<1> QED
    BY <1>1, Invariance, PTL

\* Between updates the cumulative frequencies are exact suffix sums.
THEOREM CumulativeFrequenciesAreExact == PpmSpec => []CumulativeExact
<1>1. ASSUME IInv PROVE CumulativeExact
  <2> SUFFICES ASSUME phase = "ready" PROVE /\ \A s \in Sym : Cum(s) = FreqAt(s) + Cum(s + 1)
                                            /\ \A s \in Sym : FreqAt(s) > 0
                                            /\ Cum(1) = scale
      BY DEF CumulativeExact
  <2>1. \A s \in Sym : Cum(s) = FreqAt(s) + Cum(s + 1) - 0 /\ Cum(s + 1) \in Nat
      BY <1>1, Values, SymCountAssumption DEF IInv, Suffix, Short, Owed, Sym
  <2> QED
      BY <1>1, <2>1, Values DEF IInv, ScaleIsTotal
<1> QED
    BY <1>1, Invariance, PTL

\* scale moves only at the end of an update, and by one.
THEOREM ScaleCountsUpdates == PpmSpec => ScaleByOne
<1>1. ASSUME IInv, PpmNext
      PROVE  scale' = IF phase = "cum" /\ phase' = "ready" THEN scale + 1 ELSE scale
  <2>1. CASE UpdateEnd
      BY <1>1, <2>1, UpdateEndIInv DEF UpdateEnd
  <2>2. CASE SwapUp \/ SwapDone \/ IncCum
      BY <2>2 DEF SwapUp, SwapDone, IncCum
  <2>3. ASSUME NEW c \in Byte, Learn(c)
        PROVE  scale' = scale /\ phase' # "ready"
      BY <2>3 DEF Learn, UpdateBegin
  <2> QED
      BY <1>1, <2>1, <2>2, <2>3 DEF PpmNext, UpdateStep
<1>2. IInv /\ [PpmNext]_ppm
        => [scale' = IF phase = "cum" /\ phase' = "ready" THEN scale + 1 ELSE scale]_ppm
    BY <1>1
<1> QED
    BY <1>2, Invariance, PTL DEF PpmSpec, ScaleByOne

-----------------------------------------------------------------------------
(* Looking a value up *)

\* What the scan of dach_ppm0_find_sym returns.
LEMMA FindSymFits ==
  ASSUME IInv, phase = "ready", NEW v \in 0 .. scale - 1
  PROVE  /\ FindSym(v) \in Sym
         /\ Cum(FindSym(v) + 1) <= v
         /\ v < Cum(FindSym(v) + 1) + FreqAt(FindSym(v))
<1> DEFINE First(s) == StopsAt(s, v) /\ \A t \in 1 .. s - 1 : ~StopsAt(t, v)
           stop == CHOOSE s \in 1 .. SymCount : First(s)
<1>1. \E s \in 1 .. SymCount : First(s)
  <2> DEFINE S == {s \in 1 .. SymCount : StopsAt(s, v)}
  <2>1. SymCount \in S /\ S \in SUBSET Nat
      BY SymCountAssumption DEF StopsAt
  <2>2. PICK s \in S : \A t \in S : s <= t
      BY <2>1, Least
  <2>3. \A t \in 1 .. s - 1 : ~StopsAt(t, v)
      BY <2>2, SymCountAssumption
  <2> QED
      BY <2>2, <2>3
<1>2. stop \in 1 .. SymCount /\ First(stop)
    BY <1>1
<1>3. FindSym(v) = stop - 1
    BY DEF FindSym
<1> HIDE DEF stop
<1>4. Cum(1) = scale /\ \A s \in Sym : Cum(s) = FreqAt(s) + Cum(s + 1)
  <2>1. \A s \in Sym : Cum(s) = FreqAt(s) + Cum(s + 1) - 0 /\ Cum(s + 1) \in Nat
      BY Values, SymCountAssumption DEF IInv, Suffix, Short, Owed, Sym
  <2> QED
      BY <2>1, Values DEF IInv, ScaleIsTotal
<1>5. stop # 1
    BY <1>2, <1>4, SymCountAssumption DEF StopsAt, IInv, TypeOK
<1>6. stop - 1 \in Sym /\ stop - 1 \in 1 .. stop - 1 /\ stop - 1 # SymCount
    BY <1>2, <1>5, SymCountAssumption DEF Sym
<1>7. Cum(stop) <= v
    BY <1>2, Values DEF StopsAt
<1>8. Cum(stop - 1) \in Nat /\ v < Cum(stop - 1)
    BY <1>2, <1>6, Values DEF StopsAt
<1>9. Cum(stop - 1) = FreqAt(stop - 1) + Cum(stop) /\ Cum(stop) \in Nat
  <2>1. stop - 1 + 1 = stop
      BY <1>2
  <2>2. stop = SymCount \/ stop \in Sym
      BY <1>2, SymCountAssumption DEF Sym
  <2> QED
      BY <1>4, <1>6, <2>1, <2>2, Values
<1> QED
    BY <1>2, <1>3, <1>6, <1>7, <1>8, <1>9, Values

\* Between updates dach_ppm0_find_sym returns, for every value below scale, the
\* symbol whose share contains it: the intervals of the symbols have no gap.
THEOREM FindSymIsExact == PpmSpec => []FindSymExact
<1>1. IInv => FindSymExact
    BY FindSymFits DEF FindSymExact
<1> QED
    BY <1>1, Invariance, PTL
-----------------------------------------------------------------------------
(* How long an update takes *)

\* Steps that an update can still take: the swaps come before the loop over the
\* cumulative frequencies, and each of the two goes towards rank 1.
UpdateLeft == IF phase = "swap" THEN SymCount + at
              ELSE IF phase = "cum" THEN at + 1
              ELSE 0

LEMMA UpdateStepShorter == ASSUME IInv, UpdateStep PROVE UpdateLeft' < UpdateLeft
<1>1. CASE SwapUp
    BY <1>1, SymCountAssumption DEF SwapUp, UpdateLeft, IInv, TypeOK, Sym
<1>2. CASE SwapDone
  <2>1. phase = "swap" /\ phase' = "cum" /\ at' = sym /\ at >= 1 /\ sym <= SymCount - 1
      BY <1>2, SymCountAssumption DEF SwapDone, IInv, TypeOK, Cursors, Sym
  <2>2. at \in Int /\ sym \in Int /\ SymCount \in Int
      BY SymCountAssumption DEF IInv, TypeOK, Sym
  <2> QED
      BY <2>1, <2>2 DEF UpdateLeft
<1>3. CASE IncCum
    BY <1>3 DEF IncCum, UpdateLeft, IInv, TypeOK, Sym
<1>4. CASE UpdateEnd
    BY <1>4 DEF UpdateEnd, UpdateLeft
<1> QED
    BY <1>1, <1>2, <1>3, <1>4 DEF UpdateStep

LEMMA UpdateLeftFits ==
  IInv => UpdateLeft \in 0 .. 2 * SymCount - 1 /\ (UpdateLeft = 0 <=> phase = "ready")
BY SymCountAssumption DEF IInv, TypeOK, Cursors, UpdateLeft, Sym

\* Every step of dach_ppm0_update brings its end nearer and an update begins with
\* less than 2 * SymCount steps to take: neither the recursion of dach_sym_swap nor
\* the loop after it can go on for ever, whatever the frequencies are.
THEOREM UpdateGetsShorter ==
  PpmSpec => /\ [](UpdateLeft \in 0 .. 2 * SymCount - 1)
             /\ [](UpdateLeft = 0 <=> phase = "ready")
             /\ [][phase # "ready" => UpdateLeft' < UpdateLeft]_ppm
<1>1. ASSUME IInv, PpmNext, phase # "ready" PROVE UpdateLeft' < UpdateLeft
    BY <1>1, UpdateStepShorter DEF PpmNext, Learn, UpdateBegin
<1>2. IInv /\ [PpmNext]_ppm => [phase # "ready" => UpdateLeft' < UpdateLeft]_ppm
    BY <1>1
<1> QED
    BY <1>2, UpdateLeftFits, Invariance, PTL DEF PpmSpec
=============================================================================
