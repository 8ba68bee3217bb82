--------------------------- MODULE InductionLemmas ---------------------------
(***************************************************************************)
(* Facts about numbers and sequences that need an induction.  A set of     *)
(* numbers that is not empty has a least element, and what follows takes   *)
(* the least number for which the fact in question would fail.             *)
(***************************************************************************)
EXTENDS Integers, Sequences, SequencesExt, SequenceTheorems, WellFoundedInduction, TLAPS

\* A set of numbers that is not empty has a least one.
LEMMA Least ==
  ASSUME NEW S \in SUBSET Nat, S # {}
  PROVE  \E m \in S : \A n \in S : m <= n
<1>1. IsWellFoundedOn(OpToRel(<, Nat), Nat)
    BY NatLessThanWellFounded
<1>2. PICK m \in S : \A n \in S : ~(<<n, m>> \in OpToRel(<, Nat))
    BY <1>1, WFMin
<1>3. \A n \in S : ~(n < m)
    BY <1>2, Zenon DEF OpToRel
<1> QED
    BY <1>3

\* The usual form of it: a set that has 0 and with every number the next one.
LEMMA Inductive ==
  ASSUME NEW S, 0 \in S, \A k \in Nat : k \in S => k + 1 \in S
  PROVE  \A k \in Nat : k \in S
<1> DEFINE F == {k \in Nat : k \notin S}
<1> SUFFICES ASSUME F # {} PROVE FALSE
    OBVIOUS
<1>1. F \in SUBSET Nat
    OBVIOUS
<1>2. PICK m \in F : \A n \in F : m <= n
    BY <1>1, Least
<1>3. m \in Nat /\ m # 0 /\ m \notin S
    BY <1>2
<1>4. m - 1 \in Nat /\ m - 1 \notin F /\ m - 1 + 1 = m
    BY <1>2, <1>3
<1>5. m - 1 \in S
    BY <1>4
<1> QED
    BY <1>3, <1>4, <1>5

-----------------------------------------------------------------------------
(* Sequences of sequences *)

\* g gives the concatenations of the first one, two, ... of some sequences.
Concats(seqs, g) ==
    g = [i \in 1 .. Len(seqs) |-> IF i = 1 THEN seqs[i] ELSE g[i - 1] \o seqs[i]]

LEMMA ConcatsAt ==
  ASSUME NEW seqs, NEW g, Concats(seqs, g), Len(seqs) \in Nat,
         NEW i \in 1 .. Len(seqs), i # 1
  PROVE  g[i] = g[i - 1] \o seqs[i]
<1>1. g = [k \in 1 .. Len(seqs) |-> IF k = 1 THEN seqs[k] ELSE g[k - 1] \o seqs[k]]
    BY DEF Concats
<1>2. g[i] = IF i = 1 THEN seqs[i] ELSE g[i - 1] \o seqs[i]
    BY <1>1
<1> QED
    BY <1>2

LEMMA ConcatsUnique ==
  ASSUME NEW seqs, Len(seqs) \in Nat, NEW f, Concats(seqs, f), NEW g, Concats(seqs, g)
  PROVE  f = g
<1> DEFINE S == {i \in 1 .. Len(seqs) : f[i] # g[i]}
<1>1. /\ f = [i \in 1 .. Len(seqs) |-> f[i]] /\ g = [i \in 1 .. Len(seqs) |-> g[i]]
      /\ \A i \in 1 .. Len(seqs) : /\ f[i] = IF i = 1 THEN seqs[i] ELSE f[i - 1] \o seqs[i]
                                   /\ g[i] = IF i = 1 THEN seqs[i] ELSE g[i - 1] \o seqs[i]
    BY DEF Concats
<1>2. S = {}
  <2> SUFFICES ASSUME S # {} PROVE FALSE
      OBVIOUS
  <2>1. PICK m \in S : \A n \in S : m <= n
    <3>1. S \in SUBSET Nat
        OBVIOUS
    <3> QED
        BY <3>1, Least
  <2>2. m # 1
      BY <1>1, <2>1
  <2>3. m - 1 \in 1 .. Len(seqs) /\ m - 1 \notin S
      BY <2>1, <2>2
  <2>4. f[m - 1] = g[m - 1] /\ m \in 1 .. Len(seqs)
      BY <2>1, <2>3
  <2>5. f[m] = f[m - 1] \o seqs[m] /\ g[m] = g[m - 1] \o seqs[m]
      BY <1>1, <2>2, <2>4
  <2> QED
      BY <2>1, <2>4, <2>5
<1> QED
    BY <1>1, <1>2

\* What FlattenSeq makes of sequences is the last of their concatenations.
LEMMA FlattenIs ==
  ASSUME NEW seqs, Len(seqs) \in Nat \ {0}, NEW g, Concats(seqs, g)
  PROVE  FlattenSeq(seqs) = g[Len(seqs)]
<1> DEFINE flatten == CHOOSE f : Concats(seqs, f)
<1>1. Concats(seqs, flatten)
    OBVIOUS
<1>2. flatten = g
    BY <1>1, ConcatsUnique
<1>3. FlattenSeq(seqs) = flatten[Len(seqs)]
    BY DEF FlattenSeq, Concats
<1> QED
    BY <1>2, <1>3

LEMMA ConcatsExist ==
  ASSUME NEW seqs, Len(seqs) \in Nat
  PROVE  \E g : Concats(seqs, g)
<1> DEFINE Upto(n, g) ==
              g = [i \in 1 .. n |-> IF i = 1 THEN seqs[i] ELSE g[i - 1] \o seqs[i]]
           S == {n \in Nat : ~\E g : Upto(n, g)}
<1>1. S = {}
  <2> SUFFICES ASSUME S # {} PROVE FALSE
      OBVIOUS
  <2>1. PICK m \in S : \A n \in S : m <= n
    <3>1. S \in SUBSET Nat
        OBVIOUS
    <3> QED
        BY <3>1, Least
  <2>2. m \in Nat /\ ~\E g : Upto(m, g)
      BY <2>1
  <2>3. m # 0
    <3>1. Upto(0, [i \in {} |-> 0])
        OBVIOUS
    <3> QED
        BY <2>2, <3>1
  <2>4. m - 1 \in Nat /\ m - 1 \notin S
    <3>1. m - 1 \in Nat /\ ~(m <= m - 1)
        BY <2>2, <2>3
    <3> HIDE DEF S
    <3> QED
        BY <2>1, <3>1
  <2>5. PICK g : Upto(m - 1, g)
      BY <2>4
  <2> DEFINE h == [i \in 1 .. m |-> IF i < m THEN g[i]
                                    ELSE IF i = 1 THEN seqs[i] ELSE g[i - 1] \o seqs[i]]
  <2>6. \A i \in 1 .. m - 1 : g[i] = IF i = 1 THEN seqs[i] ELSE g[i - 1] \o seqs[i]
      BY <2>2, <2>5
  <2>7. ASSUME NEW i \in 1 .. m
        PROVE  h[i] = IF i = 1 THEN seqs[i] ELSE h[i - 1] \o seqs[i]
    <3>1. i = 1 \/ (i - 1 \in 1 .. m /\ i - 1 < m)
        BY <2>2
    <3>2. i = 1 \/ h[i - 1] = g[i - 1]
        BY <3>1
    <3>3. CASE i < m
      <4>1. h[i] = g[i] /\ i \in 1 .. m - 1
          BY <2>2, <3>3
      <4> QED
          BY <2>6, <3>2, <4>1
    <3>4. CASE ~(i < m)
        BY <3>2, <3>4
    <3> QED
        BY <3>3, <3>4
  <2>8. Upto(m, h)
      BY <2>7
  <2> QED
      BY <2>2, <2>8
<1>2. \E g : Upto(Len(seqs), g)
    BY <1>1
<1> QED
    BY <1>2 DEF Concats

\* Concatenating one more sequence appends it.
LEMMA FlattenMore ==
  ASSUME NEW n \in Nat, n > 0,
         NEW seqs, Len(seqs) = n, NEW more, Len(more) = n + 1,
         \A i \in 1 .. n : more[i] = seqs[i]
  PROVE  FlattenSeq(more) = FlattenSeq(seqs) \o more[n + 1]
<1>1. PICK g : Concats(more, g)
    BY ConcatsExist
<1>2. \A i \in 1 .. n + 1 : g[i] = IF i = 1 THEN more[i] ELSE g[i - 1] \o more[i]
    BY <1>1 DEF Concats
<1> DEFINE h == [i \in 1 .. n |-> g[i]]
<1>3. ASSUME NEW i \in 1 .. n
      PROVE  h[i] = IF i = 1 THEN seqs[i] ELSE h[i - 1] \o seqs[i]
  <2>1. i \in 1 .. n + 1 /\ (i = 1 \/ i - 1 \in 1 .. n)
      OBVIOUS
  <2>2. h[i] = g[i] /\ (i = 1 \/ h[i - 1] = g[i - 1]) /\ seqs[i] = more[i]
      BY <2>1
  <2> QED
      BY <1>2, <2>1, <2>2
<1>4. Concats(seqs, h)
    BY <1>3 DEF Concats
<1>5. FlattenSeq(seqs) = h[n] /\ h[n] = g[n]
    BY <1>4, FlattenIs
<1>6. FlattenSeq(more) = g[n + 1]
    BY <1>1, FlattenIs
<1> DEFINE k == n + 1
<1>7. k \in 1 .. Len(more) /\ k # 1 /\ k - 1 = n /\ Len(more) \in Nat
    OBVIOUS
<1> HIDE DEF k
<1>8. g[k] = g[n] \o more[k]
    BY <1>1, <1>7, ConcatsAt
<1> QED
    BY <1>5, <1>6, <1>8 DEF k

\* A function from 1 .. n is a sequence.
LEMMA FunctionIsSeq ==
  ASSUME NEW S, NEW n \in Nat, NEW f \in [1 .. n -> S]
  PROVE  f \in Seq(S) /\ Len(f) = n
BY LenProperties, SeqDef

\* The elements of s \o t.
LEMMA ConcatElements ==
  ASSUME NEW S, NEW s \in Seq(S), NEW t \in Seq(S)
  PROVE  /\ s \o t \in Seq(S) /\ Len(s) \in Nat /\ Len(t) \in Nat
         /\ Len(s \o t) = Len(s) + Len(t)
         /\ \A i \in 1 .. Len(s) : (s \o t)[i] = s[i]
         /\ \A i \in 1 .. Len(t) : (s \o t)[Len(s) + i] = t[i]
<1> DEFINE u == s \o t
<1>1. /\ u \in Seq(S) /\ Len(u) = Len(s) + Len(t)
      /\ Len(s) \in Nat /\ Len(t) \in Nat
      /\ \A i \in 1 .. Len(s) + Len(t) : u[i] = IF i <= Len(s) THEN s[i] ELSE t[i - Len(s)]
    BY ConcatProperties, LenProperties
<1> HIDE DEF u
<1>2. ASSUME NEW i \in 1 .. Len(s) PROVE u[i] = s[i]
  <2>1. i \in 1 .. Len(s) + Len(t) /\ i <= Len(s)
      BY <1>1
  <2> QED
      BY <1>1, <2>1
<1>3. ASSUME NEW i \in 1 .. Len(t) PROVE u[Len(s) + i] = t[i]
  <2>1. /\ Len(s) + i \in 1 .. Len(s) + Len(t) /\ ~(Len(s) + i <= Len(s))
        /\ Len(s) + i - Len(s) = i
      BY <1>1
  <2> QED
      BY <1>1, <2>1
<1> QED
    BY <1>1, <1>2, <1>3 DEF u

\* What the first i of some sequences make, put together.
Part(seqs, i) == FlattenSeq([j \in 1 .. i |-> seqs[j]])

LEMMA PartNone == ASSUME NEW seqs PROVE Part(seqs, 0) = <<>>
BY DEF Part, FlattenSeq

\* Where each of some sequences is in what they make together.
LEMMA FlattenParts ==
  ASSUME NEW S, NEW n \in Nat, NEW seqs \in [1 .. n -> Seq(S)]
  PROVE  /\ FlattenSeq(seqs) = Part(seqs, n)
         /\ Len(Part(seqs, 0)) = 0
         /\ \A i \in 0 .. n : /\ Part(seqs, i) \in Seq(S) /\ Len(Part(seqs, i)) \in Nat
                              /\ Len(Part(seqs, i)) <= Len(Part(seqs, n))
                              /\ \A k \in 1 .. Len(Part(seqs, i)) :
                                    Part(seqs, n)[k] = Part(seqs, i)[k]
         /\ \A i \in 0 .. n - 1 :
               /\ Part(seqs, i + 1) = Part(seqs, i) \o seqs[i + 1]
               /\ Len(Part(seqs, i + 1)) = Len(Part(seqs, i)) + Len(seqs[i + 1])
               /\ \A k \in 1 .. Len(seqs[i + 1]) :
                     Part(seqs, n)[Len(Part(seqs, i)) + k] = seqs[i + 1][k]
               /\ \A k \in 1 .. Len(Part(seqs, i)) : Part(seqs, i + 1)[k] = Part(seqs, i)[k]
<1>1. Len(seqs) = n /\ seqs = [j \in 1 .. n |-> seqs[j]]
    BY FunctionIsSeq
<1>2. PICK g : Concats(seqs, g)
    BY <1>1, ConcatsExist
<1>3. \A i \in 1 .. n : g[i] = IF i = 1 THEN seqs[i] ELSE g[i - 1] \o seqs[i]
    BY <1>1, <1>2 DEF Concats
<1>4. \A i \in 1 .. n : Part(seqs, i) = g[i]
  <2> SUFFICES ASSUME NEW i \in 1 .. n PROVE Part(seqs, i) = g[i]
      OBVIOUS
  <2> DEFINE few == [j \in 1 .. i |-> seqs[j]]
             h == [j \in 1 .. i |-> g[j]]
  <2>1. Len(few) = i /\ i \in Nat \ {0}
      OBVIOUS
  <2>2. ASSUME NEW j \in 1 .. i
        PROVE  h[j] = IF j = 1 THEN few[j] ELSE h[j - 1] \o few[j]
    <3>1. j \in 1 .. n /\ (j = 1 \/ j - 1 \in 1 .. i)
        OBVIOUS
    <3>2. h[j] = g[j] /\ few[j] = seqs[j] /\ (j = 1 \/ h[j - 1] = g[j - 1])
        BY <3>1
    <3> QED
        BY <1>3, <3>1, <3>2
  <2>3. Concats(few, h)
      BY <2>1, <2>2 DEF Concats
  <2>4. FlattenSeq(few) = h[i]
      BY <2>1, <2>3, FlattenIs
  <2> QED
      BY <2>4 DEF Part
<1>5. Part(seqs, 0) = <<>>
    BY DEF Part, FlattenSeq
<1> DEFINE p == [i \in 0 .. n |-> Part(seqs, i)]
<1>6. p[0] = <<>> /\ \A i \in 1 .. n : p[i] = g[i]
    BY <1>4, <1>5
<1> HIDE DEF p
<1>7. \A i \in 1 .. n : seqs[i] \in Seq(S)
    OBVIOUS
<1>8. \A i \in 0 .. n : p[i] \in Seq(S)
  <2> DEFINE T == {i \in 0 .. n : p[i] \notin Seq(S)}
  <2> SUFFICES ASSUME T # {} PROVE FALSE
      OBVIOUS
  <2>1. PICK i \in T : \A j \in T : i <= j
    <3>1. T \in SUBSET Nat
        OBVIOUS
    <3> HIDE DEF T
    <3> QED
        BY <3>1, Least
  <2>2. i \in 0 .. n /\ p[i] \notin Seq(S)
      BY <2>1
  <2>3. i # 0
    <3>1. p[0] \in Seq(S)
        BY <1>6, EmptySeq
    <3> QED
        BY <2>2, <3>1
  <2>4. i - 1 \in 0 .. n /\ ~(i <= i - 1) /\ i \in 1 .. n
      BY <2>2, <2>3
  <2>5. p[i - 1] \in Seq(S)
      BY <2>1, <2>4
  <2>6. i = 1 \/ p[i - 1] = g[i - 1]
      BY <1>6, <2>4
  <2>7. p[i] = IF i = 1 THEN seqs[i] ELSE p[i - 1] \o seqs[i]
      BY <1>3, <1>6, <2>4, <2>6
  <2>8. p[i - 1] \o seqs[i] \in Seq(S)
      BY <1>7, <2>4, <2>5, ConcatProperties
  <2> QED
      BY <1>7, <2>2, <2>4, <2>7, <2>8
<1>9. ASSUME NEW i \in 0 .. n - 1
      PROVE  p[i + 1] = p[i] \o seqs[i + 1]
  <2>1. i + 1 \in 1 .. n /\ i + 1 - 1 = i /\ (i = 0 \/ i \in 1 .. n)
      OBVIOUS
  <2> DEFINE k == i + 1
  <2>2. k \in 1 .. n /\ k - 1 = i /\ (i = 0 <=> k = 1)
      BY <2>1
  <2> HIDE DEF k
  <2>3. p[k] = IF k = 1 THEN seqs[k] ELSE g[i] \o seqs[k]
      BY <1>3, <1>6, <2>2
  <2>4. CASE i = 0
    <3>1. <<>> \o seqs[k] = seqs[k]
        BY <1>7, <2>2, ConcatEmptySeq
    <3> QED
        BY <1>6, <2>2, <2>3, <2>4, <3>1 DEF k
  <2>5. CASE i # 0
      BY <1>6, <2>1, <2>2, <2>3, <2>5 DEF k
  <2> QED
      BY <2>4, <2>5
<1>10. ASSUME NEW i \in 0 .. n - 1
       PROVE  /\ Len(p[i]) \in Nat /\ Len(seqs[i + 1]) \in Nat
              /\ Len(p[i + 1]) = Len(p[i]) + Len(seqs[i + 1])
              /\ \A k \in 1 .. Len(p[i]) : p[i + 1][k] = p[i][k]
              /\ \A k \in 1 .. Len(seqs[i + 1]) : p[i + 1][Len(p[i]) + k] = seqs[i + 1][k]
  <2>1. p[i] \in Seq(S) /\ seqs[i + 1] \in Seq(S)
    <3>1. i \in 0 .. n /\ i + 1 \in 1 .. n
        OBVIOUS
    <3> QED
        BY <1>7, <1>8, <3>1
  <2> DEFINE s == p[i]
             t == seqs[i + 1]
  <2> HIDE DEF s, t
  <2>2. s \in Seq(S) /\ t \in Seq(S) /\ p[i + 1] = s \o t
      BY <1>9, <2>1 DEF s, t
  <2>3. /\ Len(s) \in Nat /\ Len(t) \in Nat
        /\ Len(s \o t) = Len(s) + Len(t)
        /\ \A k \in 1 .. Len(s) : (s \o t)[k] = s[k]
        /\ \A k \in 1 .. Len(t) : (s \o t)[Len(s) + k] = t[k]
      BY <2>2, ConcatElements
  <2> QED
      BY <2>2, <2>3 DEF s, t
\* What has been put together stays in front.
<1>11. ASSUME NEW i \in 0 .. n
       PROVE  \A m \in i .. n : /\ Len(p[i]) <= Len(p[m])
                                /\ \A k \in 1 .. Len(p[i]) : p[m][k] = p[i][k]
  <2> DEFINE T == {m \in i .. n : ~(/\ Len(p[i]) <= Len(p[m])
                                    /\ \A k \in 1 .. Len(p[i]) : p[m][k] = p[i][k])}
  <2> SUFFICES ASSUME T # {} PROVE FALSE
      OBVIOUS
  <2>1. PICK m \in T : \A j \in T : m <= j
    <3>1. T \in SUBSET Nat
        OBVIOUS
    <3> HIDE DEF T
    <3> QED
        BY <3>1, Least
  <2>2. m \in i .. n /\ ~(/\ Len(p[i]) <= Len(p[m])
                          /\ \A k \in 1 .. Len(p[i]) : p[m][k] = p[i][k])
      BY <2>1
  <2>3. Len(p[i]) \in Nat
      BY <1>8
  <2>4. m # i
      BY <2>2, <2>3
  <2> DEFINE j == m - 1
  <2>5. j \in i .. n /\ ~(m <= j) /\ j \in 0 .. n - 1 /\ j + 1 = m
      BY <2>2, <2>4
  <2>6. j \notin T
      BY <2>1, <2>5
  <2>7. Len(p[i]) <= Len(p[j]) /\ \A k \in 1 .. Len(p[i]) : p[j][k] = p[i][k]
      BY <2>5, <2>6
  <2> HIDE DEF j, T
  <2>8. /\ Len(p[j]) \in Nat /\ Len(seqs[m]) \in Nat
        /\ Len(p[m]) = Len(p[j]) + Len(seqs[m])
        /\ \A k \in 1 .. Len(p[j]) : p[m][k] = p[j][k]
      BY <1>10, <2>5
  <2>9. Len(p[i]) <= Len(p[m])
    <3> DEFINE a == Len(p[i])
               b == Len(p[j])
               c == Len(seqs[m])
               d == Len(p[m])
    <3>1. a \in Nat /\ a <= b
        BY <2>3, <2>7
    <3>2. b \in Nat /\ c \in Nat /\ d = b + c
        BY <2>8
    <3> HIDE DEF a, b, c, d
    <3>3. a <= d
        BY <3>1, <3>2
    <3> QED
        BY <3>3 DEF a, d
  <2>10. ASSUME NEW k \in 1 .. Len(p[i]) PROVE p[m][k] = p[i][k]
    <3> DEFINE a == Len(p[i])
               c == Len(p[j])
    <3>1. a \in Nat /\ k \in 1 .. a
        BY <2>3
    <3>2. a <= c
        BY <2>7
    <3>3. c \in Nat
        BY <2>8
    <3>4. k \in 1 .. c
      <4> HIDE DEF a, c
      <4> QED
          BY <3>1, <3>2, <3>3
    <3> QED
        BY <2>7, <2>8, <3>4
  <2> QED
      BY <2>2, <2>9, <2>10
<1>12. ASSUME NEW i \in 0 .. n - 1, NEW k \in 1 .. Len(seqs[i + 1])
       PROVE  p[n][Len(p[i]) + k] = seqs[i + 1][k]
  <2>1. /\ Len(p[i]) \in Nat /\ Len(seqs[i + 1]) \in Nat
        /\ Len(p[i + 1]) = Len(p[i]) + Len(seqs[i + 1])
        /\ p[i + 1][Len(p[i]) + k] = seqs[i + 1][k]
      BY <1>10
  <2> DEFINE a == Len(p[i])
             b == Len(seqs[i + 1])
             c == Len(p[i + 1])
  <2>a. a \in Nat /\ b \in Nat /\ c = a + b /\ k \in 1 .. b
      BY <2>1
  <2>2. a + k \in 1 .. c
    <3> HIDE DEF a, b, c
    <3> QED
        BY <2>a
  <2>3. i + 1 \in 0 .. n /\ n \in i + 1 .. n
      OBVIOUS
  <2>4. p[n][Len(p[i]) + k] = p[i + 1][Len(p[i]) + k]
      BY <1>11, <2>2, <2>3
  <2> QED
      BY <2>1, <2>4
<1>13. FlattenSeq(seqs) = Part(seqs, n)
    BY <1>1 DEF Part
<1>14. \A i \in 0 .. n : p[i] = Part(seqs, i)
    BY DEF p
<1>15. \A i \in 0 .. n : /\ p[i] \in Seq(S) /\ Len(p[i]) \in Nat /\ Len(p[i]) <= Len(p[n])
                         /\ \A k \in 1 .. Len(p[i]) : p[n][k] = p[i][k]
  <2> TAKE i \in 0 .. n
  <2>1. p[i] \in Seq(S)
      BY <1>8
  <2>2. n \in i .. n
      OBVIOUS
  <2>3. Len(p[i]) <= Len(p[n]) /\ \A k \in 1 .. Len(p[i]) : p[n][k] = p[i][k]
      BY <1>11, <2>2
  <2> QED
      BY <2>1, <2>3
<1>16. 0 \in 0 .. n /\ n \in 0 .. n /\ \A i \in 0 .. n - 1 : i \in 0 .. n /\ i + 1 \in 0 .. n
    OBVIOUS
<1>17. Len(Part(seqs, 0)) = 0
    BY <1>5
<1>18. \A i \in 0 .. n : /\ Part(seqs, i) \in Seq(S) /\ Len(Part(seqs, i)) \in Nat
                         /\ Len(Part(seqs, i)) <= Len(Part(seqs, n))
                         /\ \A k \in 1 .. Len(Part(seqs, i)) :
                               Part(seqs, n)[k] = Part(seqs, i)[k]
    BY <1>14, <1>15, <1>16
<1>19. ASSUME NEW i \in 0 .. n - 1
       PROVE  /\ Part(seqs, i + 1) = Part(seqs, i) \o seqs[i + 1]
              /\ Len(Part(seqs, i + 1)) = Len(Part(seqs, i)) + Len(seqs[i + 1])
              /\ \A k \in 1 .. Len(seqs[i + 1]) :
                    Part(seqs, n)[Len(Part(seqs, i)) + k] = seqs[i + 1][k]
              /\ \A k \in 1 .. Len(Part(seqs, i)) : Part(seqs, i + 1)[k] = Part(seqs, i)[k]
  <2>1. p[i] = Part(seqs, i) /\ p[i + 1] = Part(seqs, i + 1) /\ p[n] = Part(seqs, n)
      BY <1>14, <1>16
  <2>2. \A k \in 1 .. Len(seqs[i + 1]) : p[n][Len(p[i]) + k] = seqs[i + 1][k]
      BY <1>12
  <2>3. p[i + 1] = p[i] \o seqs[i + 1]
      BY <1>9
  <2> QED
      BY <1>10, <2>1, <2>2, <2>3
<1> QED
    BY <1>13, <1>17, <1>18, <1>19

LEMMA PartNext ==
  ASSUME NEW S, NEW n \in Nat, NEW seqs \in [1 .. n -> Seq(S)], NEW i \in 0 .. n - 1,
         NEW j, j = i + 1
  PROVE  /\ Part(seqs, j) = Part(seqs, i) \o seqs[j]
         /\ Len(Part(seqs, j)) = Len(Part(seqs, i)) + Len(seqs[j])
<1>1. \A m \in 0 .. n - 1 :
         /\ Part(seqs, m + 1) = Part(seqs, m) \o seqs[m + 1]
         /\ Len(Part(seqs, m + 1)) = Len(Part(seqs, m)) + Len(seqs[m + 1])
         /\ \A k \in 1 .. Len(seqs[m + 1]) :
               Part(seqs, n)[Len(Part(seqs, m)) + k] = seqs[m + 1][k]
         /\ \A k \in 1 .. Len(Part(seqs, m)) : Part(seqs, m + 1)[k] = Part(seqs, m)[k]
    BY FlattenParts, ZenonT(40)
<1> QED
    BY <1>1

LEMMA PrefixByElements ==
  ASSUME NEW S, NEW s \in Seq(S), NEW t \in Seq(S), Len(s) <= Len(t),
         \A k \in 1 .. Len(s) : s[k] = t[k]
  PROVE  IsPrefix(s, t)
<1> DEFINE n == Len(s)
           u == SubSeq(s, 1, n)
           v == SubSeq(t, 1, n)
<1>1. n \in Nat /\ Len(t) \in Nat /\ n <= Len(t)
    BY LenProperties
<1>2. /\ u \in Seq(S) /\ Len(u) = n /\ \A k \in 1 .. n : u[k] = s[k]
      /\ v \in Seq(S) /\ Len(v) = n /\ \A k \in 1 .. n : v[k] = t[k]
    BY <1>1, SubSeqProperties
<1> HIDE DEF u, v
<1>3. \A k \in 1 .. n : u[k] = v[k]
    BY <1>2
<1>4. u = v
    BY <1>2, <1>3, SeqEqual
<1> QED
    BY <1>1, <1>4 DEF u, v, IsPrefix

\* What a sequence is appended to is the beginning of what results.
LEMMA PrefixOfConcat ==
  ASSUME NEW S, NEW a \in Seq(S), NEW b \in Seq(S)
  PROVE  IsPrefix(a, a \o b)
<1>1. /\ a \o b \in Seq(S) /\ Len(a) \in Nat /\ Len(b) \in Nat /\ Len(a \o b) = Len(a) + Len(b)
      /\ \A i \in 1 .. Len(a) : (a \o b)[i] = a[i]
    BY ConcatElements
<1>2. Len(a) <= Len(a \o b)
    BY <1>1
<1> QED
    BY <1>1, <1>2, PrefixByElements

\* Some sequences begin with the first i of them, and a part of the next.
LEMMA PartsArePrefixes ==
  ASSUME NEW S, NEW n \in Nat, NEW seqs \in [1 .. n -> Seq(S)], NEW i \in 0 .. n
  PROVE  IsPrefix(Part(seqs, i), FlattenSeq(seqs))
<1> DEFINE s == Part(seqs, i)
           t == Part(seqs, n)
<1>1. /\ FlattenSeq(seqs) = t
      /\ s \in Seq(S) /\ Len(s) <= Len(t) /\ \A k \in 1 .. Len(s) : t[k] = s[k]
    BY FlattenParts
<1>2. t \in Seq(S)
  <2>1. n \in 0 .. n
      OBVIOUS
  <2>2. \A j \in 0 .. n : Part(seqs, j) \in Seq(S)
      BY FlattenParts
  <2> QED
      BY <2>1, <2>2
<1> HIDE DEF s, t
<1> QED
    BY <1>1, <1>2, PrefixByElements DEF s

LEMMA BetweenParts ==
  ASSUME NEW S, NEW n \in Nat, NEW seqs \in [1 .. n -> Seq(S)], NEW i \in 0 .. n - 1,
         NEW k \in 0 .. Len(seqs[i + 1])
  PROVE  IsPrefix(Part(seqs, i) \o SubSeq(seqs[i + 1], 1, k), FlattenSeq(seqs))
<1> DEFINE s == Part(seqs, i)
           next == seqs[i + 1]
           w == SubSeq(next, 1, k)
           t == Part(seqs, n)
           u == s \o w
<1>1. /\ i \in 0 .. n /\ i + 1 \in 0 .. n /\ i + 1 \in 1 .. n /\ n \in 0 .. n
    OBVIOUS
<1>2. /\ FlattenSeq(seqs) = t /\ s \in Seq(S) /\ t \in Seq(S) /\ next \in Seq(S)
      /\ \A j \in 1 .. Len(s) : t[j] = s[j]
    BY <1>1, FlattenParts
<1>3. /\ \A j \in 1 .. Len(next) : t[Len(s) + j] = next[j]
      /\ Len(s) + Len(next) <= Len(t)
  <2>1. Len(Part(seqs, i + 1)) <= Len(t)
      BY <1>1, FlattenParts
  <2>2. Len(Part(seqs, i + 1)) = Len(s) + Len(next)
    <3> DEFINE j == i + 1
    <3>1. j = i + 1
        OBVIOUS
    <3> HIDE DEF j
    <3>2. Len(Part(seqs, j)) = Len(Part(seqs, i)) + Len(seqs[j])
        BY <3>1, PartNext
    <3> QED
        BY <3>1, <3>2
  <2>3. \A m \in 0 .. n - 1 :
           \A j \in 1 .. Len(seqs[m + 1]) :
              Part(seqs, n)[Len(Part(seqs, m)) + j] = seqs[m + 1][j]
      BY FlattenParts, Zenon
  <2>4. \A j \in 1 .. Len(next) : t[Len(s) + j] = next[j]
      BY <2>3
  <2> QED
      BY <2>1, <2>2, <2>4
<1>4. Len(next) \in Nat /\ k \in Nat /\ k <= Len(next) /\ Len(s) \in Nat /\ Len(t) \in Nat
    BY <1>2, LenProperties
<1> HIDE DEF next
<1>5. w \in Seq(S) /\ Len(w) = k /\ \A j \in 1 .. k : w[j] = next[j]
    BY <1>2, <1>4, SubSeqProperties
<1> HIDE DEF w, s, t
<1>6. /\ u \in Seq(S) /\ Len(u) = Len(s) + k
      /\ \A j \in 1 .. Len(s) : u[j] = s[j]
  <2>1. s \in Seq(S) /\ w \in Seq(S)
      BY <1>2, <1>5
  <2>2. /\ u \in Seq(S) /\ Len(u) = Len(s) + Len(w)
        /\ \A j \in 1 .. Len(s) : u[j] = s[j]
      BY ONLY <2>1, ConcatElements DEF u
  <2> QED
      BY <1>5, <2>2
<1>7. \A j \in 1 .. k : u[Len(s) + j] = w[j]
  <2>1. \A j \in 1 .. Len(w) : (s \o w)[Len(s) + j] = w[j]
      BY <1>2, <1>5, ConcatElements
  <2> QED
      BY <1>5, <2>1
<1> HIDE DEF u
<1>8. ASSUME NEW j \in 1 .. Len(u) PROVE u[j] = t[j]
  <2>1. CASE j <= Len(s)
    <3>1. j \in 1 .. Len(s)
        BY <1>4, <1>6, <2>1
    <3> QED
        BY <1>2, <1>6, <3>1
  <2>2. CASE ~(j <= Len(s))
    <3> DEFINE m == j - Len(s)
    <3>1. m \in 1 .. k /\ m \in 1 .. Len(next) /\ j = Len(s) + m
        BY <1>4, <1>6, <2>2
    <3> HIDE DEF m
    <3>2. u[j] = w[m] /\ w[m] = next[m] /\ t[j] = next[m]
        BY <1>3, <1>5, <1>7, <3>1
    <3> QED
        BY <3>2
  <2> QED
      BY <2>1, <2>2
<1>9. Len(u) <= Len(t)
    BY <1>3, <1>4, <1>6
<1>10. IsPrefix(u, t)
    BY <1>2, <1>6, <1>8, <1>9, PrefixByElements
<1> QED
    BY <1>2, <1>10 DEF u, s, w, next
=============================================================================
