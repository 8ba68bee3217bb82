---------------------------- MODULE SubstrProofs ----------------------------
(***************************************************************************)
(* dach_find_prev_substr returns the longest and, of those, the earliest   *)
(* match, for every slab, position and distance.  The loop invariant: the  *)
(* n bytes scanned match, and "best" is right for the candidates passed.   *)
(***************************************************************************)
EXTENDS Substr, TLAPS

\* What the inner loop knows of the candidate at slide.
Scanned == /\ b = slide + n
           /\ f = pos + n
           /\ \A i \in 0 .. n - 1 : slab[slide + i] = slab[pos + i]

\* What the outer loop knows of the candidates before slide.
BestSoFar ==
    /\ best.len > 0 => First <= best.pos /\ best.pos < slide /\ IsMatch(best.pos, best.len)
    /\ \A s \in First .. slide - 1 :
          /\ ~IsMatch(s, best.len + 1)
          /\ best.len > 0 /\ s < best.pos => ~IsMatch(s, best.len)

LInv == TypeOK /\ First <= slide /\ Scanned /\ BestSoFar

\* A repeat of m bytes is a repeat of any fewer.
LEMMA Shorter ==
  ASSUME TypeOK, NEW s \in Int, NEW m \in Nat, NEW k \in 0 .. m, IsMatch(s, m)
  PROVE  IsMatch(s, k)
<1>1. s + m <= pos /\ pos + m <= size /\ pos \in Int /\ size \in Int
    BY DEF IsMatch, TypeOK
<1>2. s + k <= pos /\ pos + k <= size /\ \A i \in 0 .. k - 1 : i \in 0 .. m - 1
    BY <1>1
<1> QED
    BY <1>2 DEF IsMatch

\* Nothing is scanned yet, and no candidate is passed.
LEMMA InitLInv == Init => LInv
<1> SUFFICES ASSUME Init PROVE LInv
    OBVIOUS
<1>1. /\ size \in Nat /\ pos \in Nat /\ pos <= size /\ dist \in Nat
      /\ slab \in [0 .. size - 1 -> Bytes]
    BY SubstrAssumption DEF Init
<1>2. /\ best.len = 0 /\ best \in [len : Nat, pos : Nat]
      /\ slide = First /\ b = First /\ f = pos /\ n = 0
    BY DEF Init
<1>3. First \in 0 .. pos
    BY <1>1 DEF First
<1>4. TypeOK
    BY <1>1, <1>2, <1>3 DEF TypeOK
<1>5. Scanned
    BY <1>1, <1>2, <1>3 DEF Scanned
<1>6. BestSoFar
    BY <1>2, <1>3 DEF BestSoFar
<1> QED
    BY <1>2, <1>3, <1>4, <1>5, <1>6 DEF LInv

\* When the inner loop ends, n is exactly how far the candidate matches.
LEMMA Maximal ==
  ASSUME LInv, Running, ~Matching
  PROVE  IsMatch(slide, n) /\ ~IsMatch(slide, n + 1)
<1>1. /\ slide \in Nat /\ n \in Nat /\ pos \in Nat /\ size \in Nat
      /\ b = slide + n /\ f = pos + n /\ b <= pos /\ f <= size
    BY DEF LInv, TypeOK, Scanned
<1>2. IsMatch(slide, n)
    BY <1>1 DEF LInv, Scanned, IsMatch
<1>3. ASSUME IsMatch(slide, n + 1) PROVE FALSE
  <2>1. slide + n < pos /\ pos + n < size /\ slab[slide + n] = slab[pos + n]
      BY <1>1, <1>3 DEF IsMatch
  <2> QED
      BY <1>1, <2>1 DEF Matching
<1> QED
    BY <1>2, <1>3

\* One more byte of the candidate has been found to match.
LEMMA ExtendLInv == ASSUME LInv, Extend PROVE LInv'
<1>1. TypeOK'
  <2>1. /\ b' = b + 1 /\ f' = f + 1 /\ n' = n + 1
        /\ slab' = slab /\ size' = size /\ pos' = pos /\ dist' = dist
        /\ best' = best /\ slide' = slide
      BY DEF Extend, args
  <2>2. TypeOK /\ b < pos /\ f < size
      BY DEF LInv, Extend, Matching
  <2>3. b' \in 0 .. pos /\ f' \in pos .. size /\ n' \in Nat
      BY <2>1, <2>2 DEF TypeOK
  <2> QED
      BY <2>1, <2>2, <2>3 DEF TypeOK
<1>2. First' = First /\ slide' = slide /\ best' = best
    BY DEF Extend, args, First
<1>3. Scanned'
  <2>1. b = slide + n /\ f = pos + n /\ slab[b] = slab[f]
      BY DEF LInv, Scanned, Extend, Matching
  <2>2. /\ b' = b + 1 /\ f' = f + 1 /\ n' = n + 1
        /\ slab' = slab /\ pos' = pos /\ slide' = slide
      BY DEF Extend, args
  <2>3. slide \in Int /\ pos \in Int /\ n \in Nat
      BY DEF LInv, TypeOK
  <2>4. ASSUME NEW i \in 0 .. n PROVE slab[slide + i] = slab[pos + i]
    <3>1. CASE i = n
        BY <2>1, <3>1
    <3>2. CASE i \in 0 .. n - 1
        BY <3>2 DEF LInv, Scanned
    <3> QED
        BY <2>3, <3>1, <3>2
  <2>5. n' - 1 = n /\ b' = slide + n' /\ f' = pos + n'
      BY <2>1, <2>2, <2>3
  <2> QED
      BY <2>2, <2>4, <2>5 DEF Scanned
<1>4. BestSoFar'
    BY <1>2 DEF LInv, BestSoFar, IsMatch, Extend, args
<1> QED
    BY <1>1, <1>2, <1>3, <1>4 DEF LInv

\* The candidate is done with: it is kept when it is longer, and the next one begins.
LEMMA SlideLInv == ASSUME LInv, Slide PROVE LInv'
<1>1. /\ slide' = slide + 1 /\ b' = slide + 1 /\ f' = pos /\ n' = 0
      /\ best' = IF n > best.len THEN [len |-> n, pos |-> slide] ELSE best
      /\ slab' = slab /\ size' = size /\ pos' = pos /\ dist' = dist
    BY DEF Slide, args
<1>2. /\ slide \in Nat /\ n \in Nat /\ pos \in Nat /\ size \in Nat /\ dist \in Nat
      /\ slide < pos /\ pos <= size /\ best.len \in Nat /\ best.pos \in Nat
    BY DEF LInv, TypeOK, Slide, Running
<1>3. TypeOK'
    BY <1>1, <1>2 DEF LInv, TypeOK
<1>4. First' = First /\ First <= slide /\ First \in Nat
    BY <1>1, <1>2 DEF First, LInv
<1>5. Scanned'
    BY <1>1, <1>2 DEF Scanned
<1>6. \A s, m : IsMatch(s, m)' <=> IsMatch(s, m)
    BY <1>1 DEF IsMatch
<1>7. IsMatch(slide, n) /\ ~IsMatch(slide, n + 1)
    BY Maximal DEF Slide
<1>8. BestSoFar'
  <2>1. CASE n > best.len
    <3>1. best'.len = n /\ best'.pos = slide
        BY <1>1, <2>1
    <3>2. ASSUME NEW s \in First .. slide - 1 PROVE ~IsMatch(s, n) /\ ~IsMatch(s, n + 1)
      <4>1. ~IsMatch(s, best.len + 1)
          BY DEF LInv, BestSoFar
      <4>2. s \in Int /\ best.len + 1 \in 0 .. n /\ best.len + 1 \in 0 .. n + 1
          BY <1>2, <1>4, <2>1
      <4>3. TypeOK /\ n + 1 \in Nat
          BY <1>2 DEF LInv
      <4>4. IsMatch(s, n) => IsMatch(s, best.len + 1)
          BY <1>2, <4>2, <4>3, Shorter
      <4>5. IsMatch(s, n + 1) => IsMatch(s, best.len + 1)
          BY <1>2, <4>2, <4>3, Shorter
      <4> QED
          BY <4>1, <4>4, <4>5
    <3> QED
        BY <1>1, <1>2, <1>4, <1>6, <1>7, <3>1, <3>2 DEF BestSoFar
  <2>2. CASE ~(n > best.len)
    <3>1. best' = best
        BY <1>1, <2>2
    <3>2. ~IsMatch(slide, best.len + 1)
      <4>1. TypeOK /\ slide \in Int /\ n + 1 \in 0 .. best.len + 1 /\ best.len + 1 \in Nat
          BY <1>2, <2>2 DEF LInv
      <4> QED
          BY <1>7, <4>1, Shorter
    <3> QED
        BY <1>1, <1>2, <1>4, <1>6, <3>1, <3>2 DEF LInv, BestSoFar
  <2> QED
      BY <2>1, <2>2
<1> QED
    BY <1>1, <1>2, <1>3, <1>4, <1>5, <1>8 DEF LInv

\* The invariant of both loops, for every slab, position and distance.
THEOREM LoopInvariant == Spec => []LInv
<1>1. Init => LInv
    BY InitLInv
<1>2. LInv /\ [Next]_vars => LInv'
  <2> SUFFICES ASSUME LInv, [Next]_vars PROVE LInv'
      OBVIOUS
  <2>1. CASE Extend
      BY <2>1, ExtendLInv
  <2>2. CASE Slide
      BY <2>2, SlideLInv
  <2>3. CASE UNCHANGED vars
      BY <2>3 DEF vars, args, LInv, TypeOK, First, Scanned, BestSoFar, IsMatch
  <2> QED
      BY <2>1, <2>2, <2>3 DEF Next, Returned
<1> QED
    BY <1>1, <1>2, PTL DEF Spec

\* The cursors stay inside the slab for arguments of any size.
THEOREM SearchStaysInSlab == Spec => []TypeOK
<1>1. LInv => TypeOK
    BY DEF LInv
<1> QED
    BY <1>1, LoopInvariant, PTL

\* dach_find_prev_substr is correct: the longest match, the earliest of those.
THEOREM SearchIsCorrect == Spec => []FindsLongest
<1>1. LInv => FindsLongest
  <2> SUFFICES ASSUME LInv, ~Running PROVE FindsLongest
      BY DEF FindsLongest
  <2>1. slide = pos
      BY DEF LInv, TypeOK, Running
  <2> QED
      BY <2>1 DEF LInv, BestSoFar, FindsLongest
<1> QED
    BY <1>1, LoopInvariant, PTL
-----------------------------------------------------------------------------
(* How long the search takes *)

LEMMA OneCandidateLess ==
  ASSUME NEW k \in Nat \ {0}, NEW m \in Nat
  PROVE  /\ (k - 1) * m \in Nat /\ k * m \in Nat
         /\ k * m = (k - 1) * m + m
OBVIOUS

\* Iterations left at most: each candidate from slide on can be compared up to pos.
SearchLeft == (pos - slide) * (pos + 1) + (pos - b)

\* Every iteration of either loop brings the end nearer: the search takes at most
\* about dist * pos iterations, although the inner loop starts again with each
\* candidate and its cursors go back.
THEOREM SearchGetsShorter ==
  Spec => /\ [](SearchLeft \in Nat)
          /\ [][SearchLeft' < SearchLeft]_vars
<1>1. ASSUME LInv PROVE SearchLeft \in Nat
  <2>1. pos - slide \in Nat /\ pos + 1 \in Nat /\ pos - b \in Nat
      BY <1>1 DEF LInv, TypeOK
  <2> QED
      BY <2>1 DEF SearchLeft
<1>2. ASSUME LInv, Next, ~UNCHANGED vars PROVE SearchLeft' < SearchLeft
  <2>1. pos - slide \in Nat /\ pos + 1 \in Nat /\ b \in Nat /\ slide \in Nat /\ pos \in Nat
      BY <1>2 DEF LInv, TypeOK
  <2>2. CASE Extend
    <3>1. pos' = pos /\ slide' = slide /\ b' = b + 1
        BY <2>2 DEF Extend, args
    <3> DEFINE done == (pos - slide) * (pos + 1)
    <3>2. done \in Int /\ SearchLeft = done + (pos - b) /\ SearchLeft' = done + (pos - (b + 1))
        BY <2>1, <3>1 DEF SearchLeft
    <3> HIDE DEF done
    <3> QED
        BY <2>1, <3>2
  <2>3. CASE Slide
    <3>1. pos' = pos /\ slide' = slide + 1 /\ b' = slide + 1 /\ slide < pos /\ b <= pos
        BY <1>2, <2>3 DEF Slide, args, Running, LInv, TypeOK
    <3> DEFINE k == pos - slide
               before == k * (pos + 1)
               after == (k - 1) * (pos + 1)
    <3>2. k \in Nat \ {0} /\ pos - (slide + 1) = k - 1
        BY <2>1, <3>1
    <3>3. SearchLeft = before + (pos - b) /\ SearchLeft' = after + (pos - (slide + 1))
        BY <3>1, <3>2 DEF SearchLeft
    <3>4. before = after + (pos + 1) /\ after \in Nat /\ before \in Nat
        BY <2>1, <3>2, OneCandidateLess
    <3> HIDE DEF k, before, after
    <3> QED
        BY <2>1, <3>1, <3>3, <3>4
  <2> QED
      BY <1>2, <2>2, <2>3 DEF Next, Returned
<1>3. LInv /\ [Next]_vars => [SearchLeft' < SearchLeft]_vars
    BY <1>2
<1> QED
    BY <1>1, <1>3, LoopInvariant, PTL DEF Spec
=============================================================================
