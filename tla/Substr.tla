------------------------------- MODULE Substr -------------------------------
(***************************************************************************)
(* dach_find_prev_substr (src/src/dach/dach_string.c): the search of a     *)
(* dictionary coder.  Looks in the dist bytes before pos for the longest   *)
(* string that the bytes from pos on repeat.  One action per iteration of  *)
(* the inner loop and one per iteration of the outer loop.                 *)
(***************************************************************************)
EXTENDS Integers

CONSTANTS Bytes,      \* values of the bytes
          MaxSize,    \* bound: size of the slab
          MaxDist     \* bound: distance searched

ASSUME SubstrAssumption == MaxSize \in Nat /\ MaxDist \in Nat

VARIABLES slab, size, pos, dist,   \* the arguments; slab is indexed from 0
          best,                    \* *sub: len and pos of the best match so far
          slide,                   \* where the candidate starts
          b, f, n                  \* back, front, and the bytes matched

args == <<slab, size, pos, dist>>
vars == <<args, best, slide, b, f, n>>

\* Mutant of First: dist is not compared with pos.
FirstUnchecked == pos - dist

\* Where the window begins.
First == IF dist > pos THEN 0 ELSE pos - dist

\* The entry of the function, for every slab and every position in it or at its end.
Init == /\ size \in 0 .. MaxSize
        /\ slab \in [0 .. size - 1 -> Bytes]
        /\ pos \in 0 .. size
        /\ dist \in 0 .. MaxDist
        /\ best = [len |-> 0, pos |-> 0]
        /\ slide = First /\ b = First /\ f = pos /\ n = 0

\* The condition of the inner loop; slab is not read outside its bounds.
Matching == b < pos /\ f < size /\ slab[b] = slab[f]

Running == slide < pos      \* b < pos at the head of the outer loop

Extend == /\ Running
          /\ Matching
          /\ b' = b + 1 /\ f' = f + 1 /\ n' = n + 1
          /\ UNCHANGED <<args, best, slide>>

\* Mutants of Slide: a match of the same length replaces the one found, and the
\* candidate is not advanced.
SlideKeepsLast == /\ Running
                  /\ ~Matching
                  /\ best' = IF n >= best.len THEN [len |-> n, pos |-> slide] ELSE best
                  /\ slide' = slide + 1
                  /\ b' = slide + 1 /\ f' = pos /\ n' = 0
                  /\ UNCHANGED args
SlideStays == /\ Running
              /\ ~Matching
              /\ best' = IF n > best.len THEN [len |-> n, pos |-> slide] ELSE best
              /\ b' = slide /\ f' = pos /\ n' = 0
              /\ UNCHANGED <<args, slide>>

\* The end of an outer iteration: a strictly longer match is kept.
Slide == /\ Running
         /\ ~Matching
         /\ best' = IF n > best.len THEN [len |-> n, pos |-> slide] ELSE best
         /\ slide' = slide + 1
         /\ b' = slide + 1 /\ f' = pos /\ n' = 0
         /\ UNCHANGED args

Returned == ~Running /\ UNCHANGED vars

Next == Extend \/ Slide \/ Returned

Spec == Init /\ [][Next]_vars /\ WF_vars(Extend \/ Slide)

-----------------------------------------------------------------------------
\* Every variable has its type, and the cursors stay inside the slab (or just past
\* its end, where Matching does not read).
TypeOK == /\ size \in Nat /\ slab \in [0 .. size - 1 -> Bytes]
          /\ pos \in 0 .. size /\ dist \in Nat
          /\ best \in [len : Nat, pos : Nat]
          /\ slide \in 0 .. pos /\ b \in 0 .. pos /\ f \in pos .. size /\ n \in Nat

\* m bytes from s on are repeated at pos: they end before pos, and in the slab.
IsMatch(s, m) == /\ s + m <= pos
                 /\ pos + m <= size
                 /\ \A i \in 0 .. m - 1 : slab[s + i] = slab[pos + i]

\* What the caller gets: a match, not shorter than any other in the window, and
\* the earliest of that length; length 0 stands for "none".  A nested scan that
\* resets two of its three cursors per candidate is easy to get wrong at the ends
\* of the window and of the slab.
FindsLongest ==
    ~Running =>
       /\ best.len > 0 => First <= best.pos /\ best.pos < pos /\ IsMatch(best.pos, best.len)
       /\ \A s \in First .. pos - 1 :
             /\ ~IsMatch(s, best.len + 1)
             /\ best.len > 0 /\ s < best.pos => ~IsMatch(s, best.len)

\* The search ends.
Ends == <>(~Running)
=============================================================================
