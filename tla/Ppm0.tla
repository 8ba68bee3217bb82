-------------------------------- MODULE Ppm0 --------------------------------
(***************************************************************************)
(* The order-0 model of dach (src/src/dach/dach_ppm0.c): a frequency       *)
(* table over the byte values that is kept ordered by frequency while it   *)
(* learns, so that the arithmetic coder can read cumulative frequencies    *)
(* from it.                                                                *)
(*                                                                         *)
(* A byte value is a "chr"; its rank in the table is its "sym".  Symbol 1  *)
(* is the most frequent one and symbol SymCount-1 the least; symbol 0 is a *)
(* sentinel whose chr is SymCount.  freq and cumfreq are indexed by chr,   *)
(* as in the code, so a swap of two ranks has to move cumfreq entries but  *)
(* no freq entries.  cumfreq of a symbol is the sum of the frequencies of  *)
(* that symbol and of all the symbols after it.                            *)
(*                                                                         *)
(* dach_ppm0_update is modelled loop iteration by loop iteration: it       *)
(* raises one frequency, bubbles the chr up while it outranks the one      *)
(* before it (dach_sym_swap), then adds one to the cumulative frequency of *)
(* every rank from the one it STARTED at up to rank 1.                     *)
(***************************************************************************)
EXTENDS Integers

CONSTANTS SymCount,   \* DACH_SYM_COUNT, 258 in the code
          MaxScale    \* bound: no update begins once scale has reached it

ASSUME SymCountAssumption == SymCount \in Nat /\ SymCount >= 3
ASSUME MaxScaleAssumption == MaxScale \in Nat

VARIABLES freq,         \* u32 *freq, by chr
          cumfreq,      \* u64 *cumfreq, by chr
          sym_to_chr,   \* u32 *sym_to_chr
          chr_to_sym,   \* u32 *chr_to_sym
          scale,        \* u64 scale, the sum of all frequencies
          phase,        \* where dach_ppm0_update is
          sym,          \* the argument of the update
          at            \* the symbol its current loop is at

table == <<freq, cumfreq, sym_to_chr, chr_to_sym>>
ppm == <<table, scale, phase, sym, at>>

Sym      == 1 .. SymCount - 1
Chr      == 0 .. SymCount - 2
Sentinel == SymCount
Eof      == SymCount - 2          \* chr 256: never read from a file

\* What chr_to_sym accepts.
Byte == 0 .. SymCount - 3

FreqAt(s) == freq[sym_to_chr[s]]                            \* dach_get_freq
Cum(s)    == IF s = SymCount THEN 0 ELSE cumfreq[sym_to_chr[s]]

-----------------------------------------------------------------------------
\* dach_ppm0_new_: every chr has frequency 1, chr c has rank c+1.
ChrAtStart == [s \in Sym \cup {0} |-> IF s = 0 THEN Sentinel ELSE s - 1]
SymAtStart == [c \in Chr \cup {Sentinel} |-> IF c = Sentinel THEN 0 ELSE c + 1]
FreqAtStart == [c \in Chr \cup {Sentinel} |-> IF c = Sentinel THEN 0 ELSE 1]
CumAtStart == [c \in Chr \cup {Sentinel} |-> IF c = Sentinel THEN 0 ELSE SymCount - 1 - c]

PpmInit == /\ sym_to_chr = ChrAtStart
           /\ chr_to_sym = SymAtStart
           /\ freq = FreqAtStart
           /\ cumfreq = CumAtStart
           /\ scale = SymCount - 1
           /\ phase = "ready"
           /\ sym = 0
           /\ at = 0

\* The same as a step, where a program builds a new model.
PpmReset == /\ sym_to_chr' = ChrAtStart
            /\ chr_to_sym' = SymAtStart
            /\ freq' = FreqAtStart
            /\ cumfreq' = CumAtStart
            /\ scale' = SymCount - 1
            /\ phase' = "ready"
            /\ sym' = 0
            /\ at' = 0

\* Mutant of StopsAt: the scan goes on while Cum(s) >= v.
StopsAtStrict(s, v) == s = SymCount \/ Cum(s) < v
\* The symbol whose interval of cumulative frequencies holds v: the scan of
\* dach_ppm0_find_sym stops at the first s with Cum(s) <= v, one too far.
StopsAt(s, v) == s = SymCount \/ Cum(s) <= v
FindSym(v) == (CHOOSE s \in 1 .. SymCount :
                  StopsAt(s, v) /\ \A t \in 1 .. s - 1 : ~StopsAt(t, v)) - 1

\* dach_sym_swap(s, s-1) swaps: s has become more frequent than the rank above.
Outranks(s) == s > 1 /\ FreqAt(s) > FreqAt(s - 1)

\* dach_ppm0_update is called and does dach_inc_freq.
UpdateBegin(s) == /\ phase = "ready"
                  /\ s \in Sym
                  /\ freq' = [freq EXCEPT ![sym_to_chr[s]] = @ + 1]
                  /\ phase' = "swap"
                  /\ sym' = s
                  /\ at' = s
                  /\ UNCHANGED <<cumfreq, sym_to_chr, chr_to_sym, scale>>

\* Mutants of SwapUp: without the "--cfreq1", and without the chr_to_sym updates.
SwapUpNoDecrement ==
    /\ phase = "swap" /\ Outranks(at)
    /\ LET chr1 == sym_to_chr[at]
           chr2 == sym_to_chr[at - 1]
       IN  /\ sym_to_chr' = [sym_to_chr EXCEPT ![at] = chr2, ![at - 1] = chr1]
           /\ chr_to_sym' = [chr_to_sym EXCEPT ![chr1] = at - 1, ![chr2] = at]
           /\ cumfreq' = [cumfreq EXCEPT ![chr1] = cumfreq[chr2], ![chr2] = cumfreq[chr1]]
    /\ at' = at - 1
    /\ UNCHANGED <<freq, scale, phase, sym>>
SwapUpForgetsRank ==
    /\ phase = "swap" /\ Outranks(at)
    /\ LET chr1 == sym_to_chr[at]
           chr2 == sym_to_chr[at - 1]
       IN  /\ sym_to_chr' = [sym_to_chr EXCEPT ![at] = chr2, ![at - 1] = chr1]
           /\ cumfreq' = [cumfreq EXCEPT ![chr1] = cumfreq[chr2],
                                         ![chr2] = cumfreq[chr1] - 1]
    /\ at' = at - 1
    /\ UNCHANGED <<freq, chr_to_sym, scale, phase, sym>>

\* One dach_sym_swap call that exchanges the ranks at and at-1, and recurses.
SwapUp == /\ phase = "swap"
          /\ Outranks(at)
          /\ LET chr1 == sym_to_chr[at]
                 chr2 == sym_to_chr[at - 1]
             IN  /\ sym_to_chr' = [sym_to_chr EXCEPT ![at] = chr2, ![at - 1] = chr1]
                 /\ chr_to_sym' = [chr_to_sym EXCEPT ![chr1] = at - 1, ![chr2] = at]
                 /\ cumfreq' = [cumfreq EXCEPT ![chr1] = cumfreq[chr2],
                                               ![chr2] = cumfreq[chr1] - 1]
          /\ at' = at - 1
          /\ UNCHANGED <<freq, scale, phase, sym>>

\* Mutants of SwapDone: dach_sym_swap does not recurse to the end, and the loop
\* over the cumulative frequencies starts at the rank the swaps ended at.
SwapDoneEarly == /\ phase = "swap"
                 /\ phase' = "cum"
                 /\ at' = sym
                 /\ UNCHANGED <<table, scale, sym>>
SwapDoneAtFinalRank == /\ phase = "swap"
                       /\ ~Outranks(at)
                       /\ phase' = "cum"
                       /\ UNCHANGED <<table, scale, sym, at>>

\* The recursion ends; the loop over the cumulative frequencies starts at sym.
SwapDone == /\ phase = "swap"
            /\ ~Outranks(at)
            /\ phase' = "cum"
            /\ at' = sym
            /\ UNCHANGED <<table, scale, sym>>

\* Mutants of IncCum: the loop does not stop at rank 1, or stops before it.
IncCumPastFirst == /\ phase = "cum"
                   /\ at >= 0
                   /\ cumfreq' = [cumfreq EXCEPT ![sym_to_chr[at]] = @ + 1]
                   /\ at' = at - 1
                   /\ UNCHANGED <<freq, sym_to_chr, chr_to_sym, scale, phase, sym>>
IncCumNotFirst == /\ phase = "cum"
                  /\ at > 1
                  /\ cumfreq' = [cumfreq EXCEPT ![sym_to_chr[at]] = @ + 1]
                  /\ at' = at - 1
                  /\ UNCHANGED <<freq, sym_to_chr, chr_to_sym, scale, phase, sym>>

\* One iteration of that loop: dach_inc_cumfreq.
IncCum == /\ phase = "cum"
          /\ at > 0
          /\ cumfreq' = [cumfreq EXCEPT ![sym_to_chr[at]] = @ + 1]
          /\ at' = at - 1
          /\ UNCHANGED <<freq, sym_to_chr, chr_to_sym, scale, phase, sym>>

\* Mutant of UpdateEnd: scale is read before the last iteration of the loop.
UpdateEndEarly == /\ phase = "cum"
                  /\ at = 1
                  /\ scale' = Cum(1)
                  /\ phase' = "ready"
                  /\ sym' = 0 /\ at' = 0
                  /\ UNCHANGED table

\* The loop is over: scale is read back from the table.
UpdateEnd == /\ phase = "cum"
             /\ at = 0
             /\ scale' = Cum(1)
             /\ phase' = "ready"
             /\ sym' = 0
             /\ UNCHANGED <<table, at>>

UpdateStep == SwapUp \/ SwapDone \/ IncCum \/ UpdateEnd

\* The coder updates the model with the symbol of the byte it has coded.
Learn(c) == scale < MaxScale /\ UpdateBegin(chr_to_sym[c])

PpmNext == UpdateStep \/ \E c \in Byte : Learn(c)

\* A call of update is sequential code: it goes on until it returns.
PpmSpec == PpmInit /\ [][PpmNext]_ppm /\ WF_ppm(UpdateStep)

-----------------------------------------------------------------------------
\* Every variable has its type; cursors stay inside the arrays they index.
TypeOK == /\ freq \in [Chr \cup {Sentinel} -> Nat]
          /\ cumfreq \in [Chr \cup {Sentinel} -> Nat]
          /\ sym_to_chr \in [Sym \cup {0} -> Chr \cup {Sentinel}]
          /\ chr_to_sym \in [Chr \cup {Sentinel} -> Sym \cup {0}]
          /\ scale \in Nat
          /\ phase \in {"ready", "swap", "cum"}
          /\ sym \in Sym \cup {0}
          /\ at \in Sym \cup {0}

\* The two directions of the rank table stay inverse of each other after any
\* number of swaps: what the encoder looks up with chr_to_sym is what the
\* decoder gets back with sym_to_chr, and only the sentinel has symbol 0.
Bijective == /\ \A s \in Sym : sym_to_chr[s] \in Chr /\ chr_to_sym[sym_to_chr[s]] = s
             /\ \A c \in Chr : chr_to_sym[c] \in Sym /\ sym_to_chr[chr_to_sym[c]] = c
             /\ sym_to_chr[0] = Sentinel /\ chr_to_sym[Sentinel] = 0

\* Between updates the table is ordered by frequency.  The swap compares only
\* neighbours and gives up at the first pair in order, so this says that
\* bubbling one chr by one position at a time is enough.
RankOrder == phase = "ready" =>
                \A s \in 1 .. SymCount - 2 : FreqAt(s) >= FreqAt(s + 1)

\* Between updates cumfreq holds exact suffix sums of the frequencies and scale
\* is their total: the "--cfreq1" of each swap and the loop that adds one from
\* the starting rank up to rank 1 compensate each other whatever the number of
\* swaps, so the intervals of the symbols partition 0 .. scale-1.
CumulativeExact == phase = "ready" =>
                      /\ \A s \in Sym : Cum(s) = FreqAt(s) + Cum(s + 1)
                      /\ \A s \in Sym : FreqAt(s) > 0
                      /\ Cum(1) = scale

\* The EOF chr is never coded, so nothing ever moves past or displaces it: a
\* byte never gets the last symbol.  This is what "assert(sym <= 256)" in
\* dach_encode_step, dach_low_scale and dach_high_scale relies on.
EofPinned == sym_to_chr[SymCount - 1] = Eof /\ (phase # "ready" => sym < SymCount - 1)

\* dach_ppm0_find_sym returns, for every value below scale, the one symbol whose
\* share of 0 .. scale-1 contains it, and never reaches its assert(0).
FindSymExact == phase = "ready" =>
                   \A v \in 0 .. scale - 1 :
                      LET s == FindSym(v)
                      IN  s \in Sym /\ Cum(s + 1) <= v /\ v < Cum(s + 1) + FreqAt(s)

\* A whole update adds exactly one to scale, and nothing else changes scale:
\* the coder's precision argument counts on it.
ScaleByOne == [][scale' = IF phase = "cum" /\ phase' = "ready" THEN scale + 1 ELSE scale]_ppm

\* Every update that starts returns: the recursion of dach_sym_swap ends.
UpdateTerminates == phase # "ready" ~> phase = "ready"
=============================================================================
