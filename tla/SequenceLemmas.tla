---------------------------- MODULE SequenceLemmas ----------------------------
(***************************************************************************)
(* What the operators on sequences and the sums over finite sets that the  *)
(* models are built from return, for sequences of any length and sets of   *)
(* any size.  They are defined by recursion or by choosing an element of a *)
(* set, so each fact rests on the least-number principle, which the        *)
(* well-foundedness of < on the natural numbers gives: a property that     *)
(* fails for some number fails for a least one, and holds for the number   *)
(* before it.                                                              *)
(***************************************************************************)
EXTENDS Integers, Sequences, SequencesExt, SequenceTheorems,
        FiniteSetTheorems, WellFoundedInduction, TLAPS

-----------------------------------------------------------------------------
(* Least numbers                                                           *)

\* A set of natural numbers that is not empty has a least element.
LEMMA LeastNatural ==
  ASSUME NEW T \in SUBSET Nat, T # {}
  PROVE  \E n \in T : \A m \in T : n <= m
<1> DEFINE R == {ss \in Nat \X Nat : ss[1] < ss[2]}
<1>1. OpToRel(<, Nat) = R
  BY DEF OpToRel
<1>2. IsWellFoundedOn(R, Nat)
  BY <1>1, NatLessThanWellFounded
<1> HIDE DEF R
<1>3. PICK n \in T : \A m \in T : ~(<<m, n>> \in R)
  BY <1>2, WFMin
<1>4. \A m \in T : n <= m
  <2> TAKE m \in T
  <2>1. m \in Nat /\ n \in Nat
    OBVIOUS
  <2>2. <<m, n>> \in Nat \X Nat /\ ~(<<m, n>> \in R)
    BY <1>3, <2>1
  <2>3. ~(m < n)
    BY <2>2 DEF R
  <2>4. QED
    BY <2>1, <2>3
<1>5. QED
  BY <1>4

\* Min of the community modules, which chooses it, is that element.
LEMMA MinIsLeast ==
  ASSUME NEW T \in SUBSET Nat, T # {}
  PROVE  Min(T) \in T /\ \A m \in T : Min(T) <= m
BY LeastNatural DEF Min

\* Induction, in the form the proofs use it: a set of numbers that has 1 and,
\* with every number below n, the next one, has all of them.
LEMMA UpTo ==
  ASSUME NEW n \in Nat, NEW T, 1 \in T,
         \A i \in 1 .. n - 1 : i \in T => i + 1 \in T
  PROVE  \A i \in 1 .. n : i \in T
<1> DEFINE Missing == {i \in 1 .. n : i \notin T}
<1>1. SUFFICES ASSUME Missing # {} PROVE FALSE
  OBVIOUS
<1>2. PICK m \in Missing : \A i \in Missing : m <= i
  <2>1. Missing \in SUBSET Nat
    OBVIOUS
  <2> HIDE DEF Missing
  <2>2. QED
    BY <1>1, <2>1, LeastNatural
<1>3. m # 1 /\ m - 1 \in 1 .. n - 1 /\ m - 1 \notin Missing
  BY <1>2
<1>4. m - 1 \in T
  BY <1>3
<1>5. QED
  BY <1>2, <1>3, <1>4

\* The same from zero.
LEMMA FromZero ==
  ASSUME NEW n \in Nat, NEW T, 0 \in T,
         \A i \in 0 .. n - 1 : i \in T => i + 1 \in T
  PROVE  \A i \in 0 .. n : i \in T
<1> DEFINE Missing == {i \in 0 .. n : i \notin T}
<1>1. SUFFICES ASSUME Missing # {} PROVE FALSE
  OBVIOUS
<1>2. PICK m \in Missing : \A i \in Missing : m <= i
  <2>1. Missing \in SUBSET Nat
    OBVIOUS
  <2> HIDE DEF Missing
  <2>2. QED
    BY <1>1, <2>1, LeastNatural
<1>3. m # 0 /\ m - 1 \in 0 .. n - 1 /\ m - 1 \notin Missing
  BY <1>2
<1>4. m - 1 \in T
  BY <1>3
<1>5. QED
  BY <1>2, <1>3, <1>4

\* The functions that give the steps of a recursion over S up to n.
Recursions(n, S) == [1 .. n -> [S -> S]]

\* Values f of the recursion that begins with first.
Follows(f, n, first, step) ==
  f[0] = first /\ \A i \in 1 .. n : f[i] = step[i][f[i - 1]]

\* A recursion over the numbers up to n, each step of which is given by a
\* function, has a solution.
LEMMA RecursionUpTo ==
  ASSUME NEW S, NEW n \in Nat, NEW first \in S,
         NEW step \in Recursions(n, S)
  PROVE  \E f \in [0 .. n -> S] : Follows(f, n, first, step)
<1> DEFINE Solves(f, m) ==
      f[0] = first /\ \A i \in 1 .. m : f[i] = step[i][f[i - 1]]
    T == {m \in Nat : \E f \in [0 .. m -> S] : Solves(f, m)}
<1>1. 0 \in T
  <2> DEFINE f == [i \in 0 .. 0 |-> first]
  <2>1. f \in [0 .. 0 -> S] /\ Solves(f, 0)
    OBVIOUS
  <2>2. QED
    BY <2>1
<1>2. ASSUME NEW m \in 0 .. n - 1, m \in T
      PROVE  m + 1 \in T
  <2>1. PICK g \in [0 .. m -> S] : Solves(g, m)
    BY <1>2
  <2> DEFINE last == step[m + 1][g[m]]
             f == [i \in 0 .. m + 1 |-> IF i <= m THEN g[i] ELSE last]
  <2>2. last \in S
    <3>1. g[m] \in S /\ step[m + 1] \in [S -> S]
      BY DEF Recursions
    <3>2. QED
      BY <3>1
  <2>3. f \in [0 .. m + 1 -> S]
    BY <2>2
  <2>4. (\A i \in 0 .. m : f[i] = g[i]) /\ f[m + 1] = last
    OBVIOUS
  <2> HIDE DEF f
  <2>5. \A i \in 1 .. m : f[i] = step[i][f[i - 1]]
    <3>1. \A i \in 1 .. m : f[i - 1] = g[i - 1]
      BY <2>4
    <3>2. QED
      BY <2>1, <2>4, <3>1
  <2>6. f[m + 1] = step[m + 1][f[(m + 1) - 1]]
    BY <2>4
  <2>7. Solves(f, m + 1)
    <3>1. (\A i \in 1 .. m + 1 : i \in 1 .. m \/ i = m + 1) /\ f[0] = first
      BY <2>1, <2>4
    <3>2. QED
      BY <2>5, <2>6, <3>1
  <2> HIDE DEF Solves
  <2>8. QED
    BY <2>3, <2>7
<1> HIDE DEF T
<1>3. n \in T
  <2>1. \A i \in 0 .. n : i \in T
    BY <1>1, <1>2, FromZero
  <2>2. QED
    BY <2>1
<1>4. QED
  BY <1>3 DEF T, Follows

-----------------------------------------------------------------------------
(* Sequences and their elements                                            *)

\* What set a sequence is over only depends on its elements.
LEMMA SequenceOver ==
  ASSUME NEW S, NEW s \in Seq(S), NEW E, \A i \in 1 .. Len(s) : s[i] \in E
  PROVE  s \in Seq(E)
<1>1. s \in [1 .. Len(s) -> E] /\ Len(s) \in Nat
  BY LenProperties
<1>2. QED
  BY <1>1, SeqDef

-----------------------------------------------------------------------------
(* RemoveAt                                                                *)

\* The elements behind the one removed move up by one.
LEMMA RemoveAtIs ==
  ASSUME NEW S, NEW s \in Seq(S), NEW i \in 1 .. Len(s)
  PROVE  /\ RemoveAt(s, i) \in Seq(S)
         /\ Len(RemoveAt(s, i)) = Len(s) - 1
         /\ \A k \in 1 .. Len(s) - 1 :
              RemoveAt(s, i)[k] = IF k < i THEN s[k] ELSE s[k + 1]
<1> DEFINE l == SubSeq(s, 1, i - 1)
           r == SubSeq(s, i + 1, Len(s))
<1>1. l \in Seq(S) /\ Len(l) = i - 1 /\ \A k \in 1 .. i - 1 : l[k] = s[k]
  OBVIOUS
<1>2. r \in Seq(S) /\ Len(r) = Len(s) - i
      /\ \A k \in 1 .. Len(s) - i : r[k] = s[i + k]
  <2>1. r \in Seq(S) /\ Len(r) = Len(s) - i
    BY SubSeqProperties
  <2>2. \A k \in 1 .. Len(s) - i : r[k] = s[(i + 1) + k - 1]
    BY <2>1, SubSeqProperties
  <2>3. QED
    BY <2>1, <2>2
<1> HIDE DEF l, r
<1>3. RemoveAt(s, i) = l \o r
  BY DEF RemoveAt, l, r
<1>4. l \o r \in Seq(S) /\ Len(l \o r) = Len(s) - 1
  <2>1. Len(l \o r) = Len(l) + Len(r) /\ l \o r \in Seq(S)
    BY <1>1, <1>2, ConcatProperties
  <2>2. QED
    BY <1>1, <1>2, <2>1
<1>5. ASSUME NEW k \in 1 .. Len(s) - 1
      PROVE  (l \o r)[k] = IF k < i THEN s[k] ELSE s[k + 1]
  <2>1. CASE k < i
    BY <1>1, <1>2, <2>1
  <2>2. CASE ~(k < i)
    <3>1. (l \o r)[k] = r[k - (i - 1)]
      BY <1>1, <1>2, <2>2
    <3>2. k - (i - 1) \in 1 .. Len(s) - i /\ i + (k - (i - 1)) = k + 1
      BY <2>2
    <3>3. QED
      BY <1>2, <2>2, <3>1, <3>2
  <2>3. QED
    BY <2>1, <2>2
<1>6. QED
  BY <1>3, <1>4, <1>5

-----------------------------------------------------------------------------
(* Reverse                                                                 *)

LEMMA ReverseIs ==
  ASSUME NEW S, NEW s \in Seq(S)
  PROVE  /\ Reverse(s) \in Seq(S) /\ Len(Reverse(s)) = Len(s)
         /\ \A i \in 1 .. Len(s) : Reverse(s)[i] = s[Len(s) - i + 1]
<1>1. Reverse(s) = [i \in 1 .. Len(s) |-> s[(Len(s) - i) + 1]]
  BY DEF Reverse
<1>2. \A i \in 1 .. Len(s) : s[(Len(s) - i) + 1] \in S
  <2> TAKE i \in 1 .. Len(s)
  <2>1. Len(s) \in Nat /\ (Len(s) - i) + 1 \in 1 .. Len(s)
    BY LenProperties
  <2>2. QED
    BY <2>1, ElementOfSeq
<1>3. QED
  BY <1>1, <1>2, LenProperties

-----------------------------------------------------------------------------
(* FlattenSeq                                                              *)

\* The concatenation of s is the last of the sequences F[i], the first i of
\* its sequences joined.
LEMMA FlattenSteps ==
  ASSUME NEW S, NEW s \in Seq(Seq(S))
  PROVE  \E F \in [0 .. Len(s) -> Seq(S)] :
            /\ F[0] = << >> /\ FlattenSeq(s) = F[Len(s)]
            /\ \A i \in 1 .. Len(s) : F[i] = F[i - 1] \o s[i]
<1> DEFINE step == [i \in 1 .. Len(s) |-> [x \in Seq(S) |-> x \o s[i]]]
<1>1. Len(s) \in Nat /\ << >> \in Seq(S) /\ \A i \in 1 .. Len(s) : s[i] \in Seq(S)
  BY EmptySeq, LenProperties
<1>2. step \in [1 .. Len(s) -> [Seq(S) -> Seq(S)]]
  <2>1. \A i \in 1 .. Len(s), x \in Seq(S) : x \o s[i] \in Seq(S)
    BY <1>1, ConcatProperties
  <2>2. QED
    BY <2>1
<1>3. \A i \in 1 .. Len(s), x \in Seq(S) : step[i][x] = x \o s[i]
  OBVIOUS
<1> HIDE DEF step
<1>4. PICK F \in [0 .. Len(s) -> Seq(S)] :
         F[0] = << >> /\ \A i \in 1 .. Len(s) : F[i] = step[i][F[i - 1]]
  <2> DEFINE Q == Seq(S)
             n == Len(s)
             first == << >>
  <2>1. n \in Nat /\ first \in Q /\ step \in Recursions(n, Q)
    BY <1>1, <1>2 DEF Recursions
  <2> HIDE DEF Q, n, first
  <2>2. \E F \in [0 .. n -> Q] : Follows(F, n, first, step)
    BY <2>1, RecursionUpTo
  <2>3. QED
    BY <2>2 DEF Q, n, first, Follows
<1>5. \A i \in 1 .. Len(s) : F[i] = F[i - 1] \o s[i]
  <2> TAKE i \in 1 .. Len(s)
  <2>1. F[i - 1] \in Seq(S)
    <3>1. i - 1 \in 0 .. Len(s)
      BY <1>1
    <3>2. QED
      BY <3>1
  <2>2. QED
    BY <1>3, <1>4, <2>1
<1>6. 1 \in 1 .. Len(s) => F[1] = s[1]
  <2> HAVE 1 \in 1 .. Len(s)
  <2>1. s[1] \in Seq(S) /\ << >> \in Seq(S)
    BY <1>1
  <2>2. F[1] = step[1][F[0]]
    BY <1>4
  <2>3. F[1] = << >> \o s[1]
    BY <1>3, <1>4, <2>1, <2>2
  <2>4. QED
    BY <2>1, <2>3, ConcatEmptySeq
<1>7. FlattenSeq(s) = F[Len(s)]
  <2>1. CASE Len(s) = 0
    <3>1. s = << >> /\ Len(<< >>) = 0
      BY <2>1, EmptySeq
    <3>2. QED
      BY <1>4, <2>1, <3>1 DEF FlattenSeq
  <2>2. CASE Len(s) # 0
    <3> DEFINE IsRecursion(f) ==
          f = [i \in 1 .. Len(s) |-> IF i = 1 THEN s[i] ELSE f[i - 1] \o s[i]]
        G == CHOOSE f : IsRecursion(f)
    <3>1. FlattenSeq(s) = G[Len(s)]
      BY <2>2 DEF FlattenSeq
    <3>2. IsRecursion([i \in 1 .. Len(s) |-> F[i]])
      <4> DEFINE f == [i \in 1 .. Len(s) |-> F[i]]
      <4>1. \A i \in 1 .. Len(s) : f[i] = IF i = 1 THEN s[i] ELSE f[i - 1] \o s[i]
        <5> TAKE i \in 1 .. Len(s)
        <5>1. CASE i = 1
          <6>1. F[1] = s[1]
            BY <1>6, <5>1
          <6>2. QED
            BY <5>1, <6>1
        <5>2. CASE i # 1
          <6>1. f[i] = F[i] /\ f[i - 1] = F[i - 1]
            BY <5>2
          <6>2. QED
            BY <1>5, <5>2, <6>1
        <5>3. QED
          BY <5>1, <5>2
      <4>2. QED
        BY <4>1
    <3>3. IsRecursion(G)
      <4> HIDE DEF IsRecursion
      <4>1. \E g : IsRecursion(g)
        BY <3>2
      <4>2. QED
        BY <4>1
    <3> HIDE DEF G
    <3>4. \A i \in 1 .. Len(s) : G[i] = IF i = 1 THEN s[i] ELSE G[i - 1] \o s[i]
      <4> DEFINE g == [i \in 1 .. Len(s) |-> IF i = 1 THEN s[i] ELSE G[i - 1] \o s[i]]
      <4>1. \A i \in 1 .. Len(s) : g[i] = IF i = 1 THEN s[i] ELSE G[i - 1] \o s[i]
        OBVIOUS
      <4>2. G = g
        BY <3>3
      <4> HIDE DEF g
      <4>3. QED
        BY <4>1, <4>2
    <3> DEFINE T == {i \in 1 .. Len(s) : G[i] = F[i]}
    <3>5. 1 \in T
      <4>1. 1 \in 1 .. Len(s) /\ s[1] \in Seq(S)
        BY <1>1, <2>2
      <4>2. G[1] = s[1] /\ F[1] = s[1]
        BY <1>6, <3>4, <4>1
      <4>3. QED
        BY <4>1, <4>2
    <3>6. ASSUME NEW i \in 1 .. Len(s) - 1, i \in T PROVE i + 1 \in T
      <4>1. i + 1 \in 1 .. Len(s) /\ i + 1 # 1 /\ (i + 1) - 1 = i
        BY <1>1
      <4>2. G[i + 1] = G[i] \o s[i + 1] /\ F[i + 1] = F[i] \o s[i + 1]
        BY <1>5, <3>4, <4>1
      <4>3. QED
        BY <3>6, <4>1, <4>2
    <3> HIDE DEF T
    <3>7. Len(s) \in T
      <4>1. Len(s) \in 1 .. Len(s)
        BY <1>1, <2>2
      <4>2. QED
        BY <1>1, <3>5, <3>6, <4>1, UpTo
    <3>8. QED
      BY <3>1, <3>7 DEF T
  <2>3. QED
    BY <2>1, <2>2
<1>8. QED
  BY <1>4, <1>5, <1>7

\* The concatenation of sequences of elements of S is one.
LEMMA FlattenType ==
  ASSUME NEW S, NEW s \in Seq(Seq(S))
  PROVE  FlattenSeq(s) \in Seq(S)
<1>1. PICK F \in [0 .. Len(s) -> Seq(S)] : FlattenSeq(s) = F[Len(s)]
  BY FlattenSteps
<1>2. Len(s) \in 0 .. Len(s)
  BY LenProperties
<1>3. QED
  BY <1>1, <1>2

\* Nothing is in the concatenation that was not in one of the sequences.
LEMMA FlattenFrom ==
  ASSUME NEW S, NEW s \in Seq(Seq(S)), NEW k \in 1 .. Len(FlattenSeq(s))
  PROVE  \E i \in 1 .. Len(s) : \E j \in 1 .. Len(s[i]) :
            FlattenSeq(s)[k] = s[i][j]
<1> DEFINE E == {e \in S : \E i \in 1 .. Len(s) : \E j \in 1 .. Len(s[i]) : e = s[i][j]}
<1>1. \A i \in 1 .. Len(s) : s[i] \in Seq(E)
  <2> TAKE i \in 1 .. Len(s)
  <2>1. s[i] \in Seq(S)
    OBVIOUS
  <2>2. \A j \in 1 .. Len(s[i]) : s[i][j] \in E
    BY <2>1, ElementOfSeq
  <2> HIDE DEF E
  <2>3. QED
    BY <2>1, <2>2, SequenceOver
<1> HIDE DEF E
<1>2. s \in Seq(Seq(E))
  BY <1>1, SequenceOver
<1>3. FlattenSeq(s) \in Seq(E)
  BY <1>2, FlattenType
<1>4. FlattenSeq(s)[k] \in E
  BY <1>3, ElementOfSeq
<1>5. QED
  BY <1>4 DEF E

\* The concatenation of two sequences of sequences is joined from theirs.
LEMMA FlattenConcat ==
  ASSUME NEW S, NEW s \in Seq(Seq(S)), NEW t \in Seq(Seq(S))
  PROVE  FlattenSeq(s \o t) = FlattenSeq(s) \o FlattenSeq(t)
<1> DEFINE n == Len(s)
           m == Len(t)
           c == s \o t
           Q == Seq(S)
<1>0. \A x \in Seq(S), y \in Seq(S), z \in Seq(S) : (x \o y) \o z = x \o (y \o z)
  BY SMT
<1>1. n \in Nat /\ m \in Nat
  BY LenProperties
<1>2. /\ c \in Seq(Q) /\ Len(c) = n + m
      /\ \A i \in 1 .. n : c[i] = s[i]
      /\ \A i \in 1 .. m : c[n + i] = t[i]
  <2> HIDE DEF Q
  <2>1. s \in Seq(Q) /\ t \in Seq(Q)
    BY DEF Q
  <2>2. QED
    BY <2>1
<1>3. PICK F \in [0 .. n -> Q] :
         F[0] = <<>> /\ FlattenSeq(s) = F[n] /\ \A i \in 1 .. n : F[i] = F[i - 1] \o s[i]
  BY FlattenSteps
<1>4. PICK G \in [0 .. m -> Q] :
         G[0] = <<>> /\ FlattenSeq(t) = G[m] /\ \A i \in 1 .. m : G[i] = G[i - 1] \o t[i]
  BY FlattenSteps
<1> HIDE DEF c
<1>5. PICK H \in [0 .. n + m -> Q] :
         /\ H[0] = <<>> /\ FlattenSeq(c) = H[n + m]
         /\ \A i \in 1 .. n + m : H[i] = H[i - 1] \o c[i]
  <2>1. c \in Seq(Seq(S)) /\ Len(c) = n + m
    BY <1>2
  <2>2. \E H \in [0 .. Len(c) -> Seq(S)] :
           /\ H[0] = <<>> /\ FlattenSeq(c) = H[Len(c)]
           /\ \A i \in 1 .. Len(c) : H[i] = H[i - 1] \o c[i]
    BY <2>1, FlattenSteps
  <2> HIDE DEF n, m
  <2>3. QED
    BY <2>1, <2>2
<1>6. \A i \in 1 .. m : t[i] \in Q
  OBVIOUS
<1> HIDE DEF n, m
<1> DEFINE A == {i \in 0 .. n : H[i] = F[i]}
           B == {i \in 0 .. m : H[n + i] = F[n] \o G[i]}
<1>7. n \in A
  <2>1. 0 \in A
    BY <1>1, <1>3, <1>5
  <2>2. ASSUME NEW i \in 0 .. n - 1, i \in A PROVE i + 1 \in A
    <3>1. i + 1 \in 1 .. n /\ i + 1 \in 1 .. n + m /\ (i + 1) - 1 = i
      BY <1>1
    <3>2. H[i + 1] = H[i] \o s[i + 1] /\ F[i + 1] = F[i] \o s[i + 1]
      BY <1>2, <1>3, <1>5, <3>1
    <3>3. H[i] = F[i]
      BY <2>2
    <3>4. H[i + 1] = F[i + 1] /\ i + 1 \in 0 .. n
      BY <1>1, <3>1, <3>2, <3>3
    <3>5. QED
      BY <3>4
  <2> HIDE DEF A
  <2>3. \A i \in 0 .. n : i \in A
    BY <1>1, <2>1, <2>2, FromZero
  <2>4. QED
    BY <1>1, <2>3
<1>8. /\ F[n] \in Seq(S)
      /\ \A i \in 0 .. m : G[i] \in Seq(S)
      /\ \A i \in 1 .. m : t[i] \in Seq(S)
  BY <1>1, <1>6
<1>9. m \in B
  <2>1. 0 \in B
    <3>1. F[n] \o <<>> = F[n]
      BY <1>8, ConcatEmptySeq
    <3>2. H[n + 0] = F[n]
      BY <1>1, <1>7
    <3>3. 0 \in 0 .. m
      BY <1>1
    <3>4. QED
      BY <1>4, <3>1, <3>2, <3>3
  <2>2. ASSUME NEW i \in 0 .. m - 1, i \in B PROVE i + 1 \in B
    <3>1. i + 1 \in 1 .. m /\ n + (i + 1) \in 1 .. n + m /\ (n + (i + 1)) - 1 = n + i
          /\ (i + 1) - 1 = i /\ i \in 0 .. m /\ i + 1 \in 0 .. m
      BY <1>1
    <3>2. H[n + (i + 1)] = H[n + i] \o t[i + 1]
      BY <1>2, <1>5, <3>1
    <3>3. G[i + 1] = G[i] \o t[i + 1]
      BY <1>4, <3>1
    <3>4. (F[n] \o G[i]) \o t[i + 1] = F[n] \o (G[i] \o t[i + 1])
      <4>1. F[n] \in Seq(S) /\ G[i] \in Seq(S) /\ t[i + 1] \in Seq(S)
        BY <1>8, <3>1
      <4>2. QED
        BY <1>0, <4>1, Zenon
    <3>5. H[n + i] = F[n] \o G[i]
      BY <2>2
    <3>6. QED
      BY <3>1, <3>2, <3>3, <3>4, <3>5
  <2> HIDE DEF B
  <2>3. \A i \in 0 .. m : i \in B
    BY <1>1, <2>1, <2>2, FromZero
  <2>4. QED
    BY <1>1, <2>3
<1>10. QED
  BY <1>3, <1>4, <1>5, <1>9 DEF c

\* The concatenation of a single sequence, and of empty ones.
LEMMA FlattenOne ==
  ASSUME NEW S, NEW x \in Seq(S)
  PROVE  FlattenSeq(<<x>>) = x
<1> DEFINE s == <<x>>
<1>1. s \in Seq(Seq(S)) /\ Len(s) = 1 /\ s[1] = x
  OBVIOUS
<1> HIDE DEF s
<1>2. PICK F \in [0 .. Len(s) -> Seq(S)] :
         F[0] = <<>> /\ FlattenSeq(s) = F[Len(s)] /\ \A i \in 1 .. Len(s) : F[i] = F[i - 1] \o s[i]
  BY <1>1, FlattenSteps
<1>3. F[1] = <<>> \o x
  <2>1. 1 \in 1 .. Len(s) /\ 1 - 1 = 0
    BY <1>1
  <2>2. F[1] = F[1 - 1] \o s[1]
    BY <1>2, <2>1
  <2>3. QED
    BY <1>1, <1>2, <2>1, <2>2
<1>4. <<>> \o x = x
  BY ConcatEmptySeq
<1>5. QED
  BY <1>1, <1>2, <1>3, <1>4 DEF s

LEMMA FlattenNothing ==
  ASSUME NEW S, NEW s \in Seq(Seq(S)), \A i \in 1 .. Len(s) : s[i] = <<>>
  PROVE  FlattenSeq(s) = <<>>
<1> DEFINE n == Len(s)
<1>1. n \in Nat
  BY LenProperties
<1>2. PICK F \in [0 .. n -> Seq(S)] :
         F[0] = <<>> /\ FlattenSeq(s) = F[n] /\ \A i \in 1 .. n : F[i] = F[i - 1] \o s[i]
  BY FlattenSteps
<1>3. \A i \in 1 .. n : s[i] = <<>>
  OBVIOUS
<1> HIDE DEF n
<1> DEFINE A == {i \in 0 .. n : F[i] = <<>>}
<1>4. 0 \in A
  BY <1>1, <1>2
<1>5. ASSUME NEW i \in 0 .. n - 1, i \in A PROVE i + 1 \in A
  <2>1. i + 1 \in 1 .. n /\ i + 1 \in 0 .. n /\ (i + 1) - 1 = i
    BY <1>1
  <2>2. F[i + 1] = <<>> \o <<>>
    BY <1>2, <1>3, <1>5, <2>1
  <2>3. <<>> \o <<>> = <<>>
    OBVIOUS
  <2>4. QED
    BY <2>1, <2>2, <2>3
<1> HIDE DEF A
<1>6. n \in A
  <2>1. \A i \in 0 .. n : i \in A
    BY <1>1, <1>4, <1>5, FromZero
  <2>2. QED
    BY <1>1, <2>1
<1>7. QED
  BY <1>2, <1>6 DEF A

-----------------------------------------------------------------------------
(* Sequences of anything                                                   *)

IsSeq(x) == \E S : x \in Seq(S)

Joined(c, x, y) == c = x \o y

\* What precedes is not changed by what is added behind it.
LEMMA PrefixStays ==
  ASSUME NEW x, IsSeq(x), NEW y, IsSeq(y), NEW c, Joined(c, x, y)
  PROVE  /\ IsSeq(c) /\ Len(x) \in Nat /\ Len(y) \in Nat
         /\ DOMAIN x = 1 .. Len(x) /\ DOMAIN y = 1 .. Len(y)
         /\ DOMAIN c = 1 .. Len(x) + Len(y)
         /\ \A i \in DOMAIN x : c[i] = x[i]
         /\ \A i \in DOMAIN y : c[Len(x) + i] = y[i]
         /\ \A i \in 1 .. Len(x) + 1 : SubSeq(c, 1, i - 1) = SubSeq(x, 1, i - 1)
<1>1. PICK S : x \in Seq(S)
  BY DEF IsSeq
<1>2. PICK T : y \in Seq(T)
  BY DEF IsSeq
<1>3. x \in Seq(S \cup T) /\ y \in Seq(S \cup T)
  BY <1>1, <1>2
<1>4. /\ c \in Seq(S \cup T) /\ Len(c) = Len(x) + Len(y) /\ Len(x) \in Nat /\ Len(y) \in Nat
      /\ DOMAIN x = 1 .. Len(x) /\ DOMAIN y = 1 .. Len(y)
      /\ \A i \in 1 .. Len(x) + Len(y) : c[i] = IF i <= Len(x) THEN x[i] ELSE y[i - Len(x)]
  BY <1>3, ConcatProperties, LenProperties DEF Joined
<1>5. DOMAIN c = 1 .. Len(c)
  BY <1>4, LenProperties
<1>6. ASSUME NEW i \in 1 .. Len(x) + 1 PROVE SubSeq(c, 1, i - 1) = SubSeq(x, 1, i - 1)
  <2> DEFINE a == SubSeq(c, 1, i - 1)
             b == SubSeq(x, 1, i - 1)
  <2>1. i - 1 \in 0 .. Len(x) /\ i - 1 \in 0 .. Len(c)
    BY <1>4
  <2>2. /\ a = [j \in 1 .. i - 1 |-> c[j]] /\ b = [j \in 1 .. i - 1 |-> x[j]]
    BY <1>3, <1>4, <2>1
  <2>3. \A j \in 1 .. i - 1 : c[j] = x[j]
    BY <1>4, <2>1
  <2> HIDE DEF a, b
  <2>4. a = b
    BY <2>2, <2>3
  <2>5. QED
    BY <2>4 DEF a, b
<1>7. IsSeq(c)
  BY <1>4 DEF IsSeq
<1>8. \A i \in DOMAIN x : c[i] = x[i]
  BY <1>4
<1>9. \A i \in DOMAIN y : c[Len(x) + i] = y[i]
  BY <1>4
<1>10. DOMAIN c = 1 .. Len(x) + Len(y)
  BY <1>4, <1>5
<1>11. QED
  BY <1>4, <1>6, <1>7, <1>8, <1>9, <1>10

\* Sequences of a few elements.
LEMMA ShortConcat ==
  ASSUME NEW x, NEW y, NEW z
  PROVE  /\ <<>> \o <<>> = <<>> /\ <<>> \o <<x>> = <<x>>
         /\ <<x>> \o <<>> = <<x>> /\ <<x, y>> \o <<>> = <<x, y>>
         /\ <<x>> \o <<y>> = <<x, y>> /\ <<x, y>> \o <<z>> = <<x, y, z>>
<1>1. <<>> \o <<>> = <<>> /\ <<>> \o <<x>> = <<x>>
  OBVIOUS
<1>2. <<x>> \o <<>> = <<x>> /\ <<x, y>> \o <<>> = <<x, y>>
  OBVIOUS
<1>3. <<x>> \o <<y>> = <<x, y>>
  <2> DEFINE c == <<x>> \o <<y>>
             d == <<x, y>>
  <2>1. Len(c) = 2 /\ c[1] = x /\ c[2] = y /\ Len(d) = 2 /\ d[1] = x /\ d[2] = y
    OBVIOUS
  <2>2. c \in Seq({x, y}) /\ d \in Seq({x, y})
    OBVIOUS
  <2> HIDE DEF c, d
  <2>3. \A i \in 1 .. Len(c) : c[i] = d[i]
    BY <2>1
  <2>4. c = d
    BY <2>1, <2>2, <2>3, SeqEqual
  <2>5. QED
    BY <2>4 DEF c, d
<1>4. <<x, y, z>> = <<x, y>> \o <<z>>
  OBVIOUS
<1>5. QED
  BY <1>1, <1>2, <1>3, <1>4

\* A sequence that has the elements of one and then those of another.
LEMMA JoinedFrom ==
  ASSUME NEW S, NEW x \in Seq(S), NEW y \in Seq(S), NEW c \in Seq(S),
         Len(c) = Len(x) + Len(y), \A i \in 1 .. Len(x) : c[i] = x[i],
         \A i \in 1 .. Len(y) : c[Len(x) + i] = y[i]
  PROVE  Joined(c, x, y)
<1> DEFINE xy == x \o y
<1>1. /\ xy \in Seq(S) /\ Len(xy) = Len(x) + Len(y) /\ Len(x) \in Nat /\ Len(y) \in Nat
      /\ \A i \in 1 .. Len(x) + Len(y) : xy[i] = IF i <= Len(x) THEN x[i] ELSE y[i - Len(x)]
  OBVIOUS
<1> HIDE DEF xy
<1>2. ASSUME NEW i \in 1 .. Len(x) + Len(y) PROVE c[i] = xy[i]
  <2>1. CASE i <= Len(x)
    <3>1. i \in 1 .. Len(x)
      BY <1>1, <2>1
    <3>2. QED
      BY <1>1, <2>1, <3>1
  <2>2. CASE ~(i <= Len(x))
    <3>1. i - Len(x) \in 1 .. Len(y) /\ Len(x) + (i - Len(x)) = i
      BY <1>1, <2>2
    <3>2. c[Len(x) + (i - Len(x))] = y[i - Len(x)]
      BY <3>1
    <3>3. QED
      BY <1>1, <2>2, <3>1, <3>2
  <2>3. QED
    BY <2>1, <2>2
<1>3. c = xy
  BY <1>1, <1>2, SeqEqual
<1>4. QED
  BY <1>3 DEF Joined, xy

\* Each place of the concatenation is a place of one of the sequences, and each
\* of theirs is one of its own.
LEMMA FlattenPlaces ==
  ASSUME NEW S, NEW s \in Seq(Seq(S))
  PROVE  \E at \in [1 .. Len(s) -> Nat] :
            /\ \A i \in 1 .. Len(s) : \A j \in 1 .. Len(s[i]) :
                 /\ at[i] + j \in 1 .. Len(FlattenSeq(s))
                 /\ FlattenSeq(s)[at[i] + j] = s[i][j]
            /\ \A k \in 1 .. Len(FlattenSeq(s)) :
                 \E i \in 1 .. Len(s) : \E j \in 1 .. Len(s[i]) : k = at[i] + j
<1> DEFINE n == Len(s)
           R == FlattenSeq(s)
           Q == Seq(S)
<1>1. n \in Nat /\ \A i \in 1 .. n : s[i] \in Q /\ Len(s[i]) \in Nat
  BY LenProperties
<1>2. PICK F \in [0 .. n -> Q] :
         F[0] = << >> /\ R = F[n] /\ \A i \in 1 .. n : F[i] = F[i - 1] \o s[i]
  BY FlattenSteps
<1> DEFINE at == [i \in 1 .. n |-> Len(F[i - 1])]
<1>3. \A i \in 0 .. n : F[i] \in Seq(S) /\ Len(F[i]) \in Nat
  BY <1>2, LenProperties
<1>4. ASSUME NEW i \in 0 .. n - 1
      PROVE  /\ Len(F[i + 1]) = Len(F[i]) + Len(s[i + 1])
             /\ \A k \in 1 .. Len(F[i]) : F[i + 1][k] = F[i][k]
             /\ \A j \in 1 .. Len(s[i + 1]) : F[i + 1][Len(F[i]) + j] = s[i + 1][j]
  <2> DEFINE X == F[i]
             Y == s[i + 1]
             c == F[i + 1]
  <2>1. i \in 0 .. n /\ i + 1 \in 1 .. n /\ (i + 1) - 1 = i
    BY <1>1
  <2>2. X \in Seq(S) /\ Y \in Seq(S) /\ c = X \o Y /\ Len(X) \in Nat /\ Len(Y) \in Nat
    BY <1>1, <1>2, <1>3, <2>1
  <2> HIDE DEF X, Y, c
  <2>3. /\ Len(c) = Len(X) + Len(Y)
        /\ \A k \in 1 .. Len(X) + Len(Y) : c[k] = IF k <= Len(X) THEN X[k] ELSE Y[k - Len(X)]
    BY <2>2, ConcatProperties
  <2>4. \A k \in 1 .. Len(X) : c[k] = X[k]
    BY <2>2, <2>3
  <2>5. \A j \in 1 .. Len(Y) : c[Len(X) + j] = Y[j]
    <3> TAKE j \in 1 .. Len(Y)
    <3>1. Len(X) + j \in 1 .. Len(X) + Len(Y) /\ ~(Len(X) + j <= Len(X)) /\ (Len(X) + j) - Len(X) = j
      BY <2>2
    <3>2. QED
      BY <2>3, <3>1
  <2>6. QED
    BY <2>3, <2>4, <2>5 DEF X, Y, c
<1>5. at \in [1 .. n -> Nat]
  <2>1. \A i \in 1 .. n : i - 1 \in 0 .. n
    BY <1>1
  <2>2. QED
    BY <1>3, <2>1
<1> DEFINE Good(m) ==
      /\ \A i \in 1 .. m : \A j \in 1 .. Len(s[i]) :
           at[i] + j \in 1 .. Len(F[m]) /\ F[m][at[i] + j] = s[i][j]
      /\ \A k \in 1 .. Len(F[m]) :
           \E i \in 1 .. m : \E j \in 1 .. Len(s[i]) : k = at[i] + j
<1> DEFINE T == {m \in 0 .. n : Good(m)}
<1>6. \A i \in 1 .. n : at[i] = Len(F[i - 1])
  OBVIOUS
<1> HIDE DEF at, Q, n, R
<1>7. 0 \in T
  <2>1. Len(F[0]) = 0
    BY <1>2, EmptySeq
  <2>2. Good(0)
    BY <2>1
  <2>3. QED
    BY <1>1, <2>2
<1>8. ASSUME NEW m \in 0 .. n - 1, m \in T PROVE m + 1 \in T
  <2> DEFINE a == Len(F[m])
             b == Len(s[m + 1])
  <2>1. /\ m + 1 \in 0 .. n /\ m + 1 \in 1 .. n /\ m \in 0 .. n /\ at[m + 1] = a
        /\ a \in Nat /\ b \in Nat /\ Len(F[m + 1]) = a + b
    <3>1. m + 1 \in 0 .. n /\ m + 1 \in 1 .. n /\ m \in 0 .. n /\ (m + 1) - 1 = m
      BY <1>1
    <3>2. QED
      BY <1>1, <1>3, <1>4, <1>6, <3>1
  <2>2. \A k \in 1 .. a : F[m + 1][k] = F[m][k]
    BY <1>4
  <2>3. \A j \in 1 .. b : F[m + 1][a + j] = s[m + 1][j]
    BY <1>4
  <2>4. Good(m)
    BY <1>8
  <2>5. ASSUME NEW i \in 1 .. m + 1, NEW j \in 1 .. Len(s[i])
        PROVE  at[i] + j \in 1 .. Len(F[m + 1]) /\ F[m + 1][at[i] + j] = s[i][j]
    <3>1. CASE i = m + 1
      <4>1. at[i] + j \in 1 .. a + b
        BY <2>1, <2>5, <3>1
      <4>2. QED
        BY <2>1, <2>3, <2>5, <3>1, <4>1
    <3>2. CASE i # m + 1
      <4>1. i \in 1 .. m
        BY <3>2
      <4>2. at[i] + j \in 1 .. a /\ F[m][at[i] + j] = s[i][j]
        BY <2>4, <4>1
      <4>3. at[i] + j \in 1 .. a + b
        BY <2>1, <4>2
      <4>4. QED
        BY <2>1, <2>2, <4>2, <4>3
    <3>3. QED
      BY <3>1, <3>2
  <2>6. ASSUME NEW k \in 1 .. Len(F[m + 1])
        PROVE  \E i \in 1 .. m + 1 : \E j \in 1 .. Len(s[i]) : k = at[i] + j
    <3>1. CASE k <= a
      <4>1. k \in 1 .. a
        BY <2>1, <3>1
      <4>2. PICK i \in 1 .. m : \E j \in 1 .. Len(s[i]) : k = at[i] + j
        BY <2>4, <4>1
      <4>3. i \in 1 .. m + 1
        OBVIOUS
      <4>4. QED
        BY <4>2, <4>3
    <3>2. CASE ~(k <= a)
      <4>1. k - a \in 1 .. b /\ k = a + (k - a)
        BY <2>1, <2>6, <3>2
      <4>2. m + 1 \in 1 .. m + 1
        OBVIOUS
      <4>3. QED
        BY <2>1, <4>1, <4>2
    <3>3. QED
      BY <3>1, <3>2
  <2>7. Good(m + 1)
    BY <2>5, <2>6
  <2> HIDE DEF Good
  <2>8. QED
    BY <2>1, <2>7
<1>9. n \in T
  <2> HIDE DEF T
  <2>1. \A m \in 0 .. n : m \in T
    BY <1>1, <1>7, <1>8, FromZero
  <2>2. QED
    BY <1>1, <2>1
<1>10. Good(n)
  BY <1>9
<1>11. /\ \A i \in 1 .. n : \A j \in 1 .. Len(s[i]) :
            at[i] + j \in 1 .. Len(R) /\ R[at[i] + j] = s[i][j]
       /\ \A k \in 1 .. Len(R) :
            \E i \in 1 .. n : \E j \in 1 .. Len(s[i]) : k = at[i] + j
  BY <1>2, <1>10
<1>12. QED
  BY <1>5, <1>11 DEF n, R

-----------------------------------------------------------------------------
(* Lists without repetition                                                *)

\* Q has each element of W at one place, and no others.
Lists(Q, W) ==
  /\ \A k \in 1 .. Len(Q) : Q[k] \in W
  /\ \A w \in W : \E k \in 1 .. Len(Q) : Q[k] = w
  /\ \A k, l \in 1 .. Len(Q) : Q[k] = Q[l] => k = l

\* What f says of each element of q.
Labels(q, f) == [k \in 1 .. Len(q) |-> f[q[k]]]

\* What is in one of the first n sets.
Union(V, n) == UNION {V[i] : i \in 1 .. n}

LEMMA ListLength ==
  ASSUME NEW Q, NEW W, Len(Q) \in Nat, Lists(Q, W)
  PROVE  IsFiniteSet(W) /\ Cardinality(W) = Len(Q)
<1> DEFINE n == Len(Q)
           f == [k \in 1 .. n |-> Q[k]]
<1>1. f \in Bijection(1 .. n, W)
  BY DEF Lists, Bijection, Injection, Surjection, IsInjective
<1>2. ExistsBijection(1 .. n, W)
  BY <1>1 DEF ExistsBijection
<1> HIDE DEF f
<1>3. IsFiniteSet(W)
  BY <1>2, FS_NatBijection
<1>4. QED
  BY <1>2, <1>3, FS_CountingElements

LEMMA LabelsLength ==
  ASSUME NEW S, NEW q \in Seq(S), NEW f
  PROVE  /\ Len(q) \in Nat /\ Len(Labels(q, f)) = Len(q)
         /\ DOMAIN Labels(q, f) = 1 .. Len(q)
         /\ \A k \in 1 .. Len(q) : Labels(q, f)[k] = f[q[k]]
<1>1. Len(q) \in Nat
  BY LenProperties
<1> DEFINE E == {f[q[k]] : k \in 1 .. Len(q)}
<1>2. \A k \in 1 .. Len(q) : f[q[k]] \in E
  OBVIOUS
<1> HIDE DEF E
<1>3. Labels(q, f) \in Seq(E)
  BY <1>1, <1>2 DEF Labels
<1>4. DOMAIN Labels(q, f) = 1 .. Len(q)
  BY DEF Labels
<1>5. DOMAIN Labels(q, f) = 1 .. Len(Labels(q, f)) /\ Len(Labels(q, f)) \in Nat
  BY <1>3, LenProperties
<1>6. Len(Labels(q, f)) = Len(q)
  BY <1>1, <1>4, <1>5
<1>7. QED
  BY <1>1, <1>4, <1>6 DEF Labels

\* The labels of a sequence, of none, of one element and of two sequences.
LEMMA LabelsConcat ==
  ASSUME NEW S, NEW V, NEW f \in [S -> V], NEW x \in Seq(S), NEW y \in Seq(S),
         NEW c, Joined(c, x, y)
  PROVE  /\ Labels(x, f) \in Seq(V)
         /\ Labels(<<>>, f) = <<>> /\ \A e \in S : Labels(<<e>>, f) = <<f[e]>>
         /\ Joined(Labels(c, f), Labels(x, f), Labels(y, f))
<1>1. ASSUME NEW q \in Seq(S)
      PROVE  /\ Labels(q, f) \in Seq(V) /\ Len(Labels(q, f)) = Len(q) /\ Len(q) \in Nat
             /\ \A k \in 1 .. Len(q) : Labels(q, f)[k] = f[q[k]]
  <2>1. Len(q) \in Nat /\ \A k \in 1 .. Len(q) : f[q[k]] \in V
    OBVIOUS
  <2> DEFINE n == Len(q)
             of(k) == f[q[k]]
  <2> HIDE DEF n, of
  <2>2. n \in Nat /\ \A k \in 1 .. n : of(k) \in V
    BY <2>1 DEF n, of
  <2>3. [k \in 1 .. n |-> of(k)] \in Seq(V)
    BY <2>2
  <2>4. QED
    BY <2>3, LabelsLength DEF Labels, n, of
<1>2. Labels(<<>>, f) = <<>>
  BY DEF Labels
<1>3. ASSUME NEW e \in S PROVE Labels(<<e>>, f) = <<f[e]>>
  BY DEF Labels
<1>4. Joined(Labels(c, f), Labels(x, f), Labels(y, f))
  <2> DEFINE a == Labels(x, f)
             b == Labels(y, f)
             l == Labels(c, f)
  <2>1. /\ c \in Seq(S) /\ Len(c) = Len(x) + Len(y)
        /\ \A k \in 1 .. Len(x) : c[k] = x[k]
        /\ \A k \in 1 .. Len(y) : c[Len(x) + k] = y[k]
    BY DEF Joined
  <2>2. /\ l \in Seq(V) /\ Len(l) = Len(c) /\ \A k \in 1 .. Len(c) : l[k] = f[c[k]]
        /\ a \in Seq(V) /\ Len(a) = Len(x) /\ \A k \in 1 .. Len(x) : a[k] = f[x[k]]
        /\ b \in Seq(V) /\ Len(b) = Len(y) /\ \A k \in 1 .. Len(y) : b[k] = f[y[k]]
        /\ Len(x) \in Nat /\ Len(y) \in Nat
    BY <1>1, <2>1
  <2> HIDE DEF a, b, l
  <2>3. /\ \A k \in 1 .. Len(a) : l[k] = a[k]
        /\ \A k \in 1 .. Len(b) : l[Len(a) + k] = b[k]
    BY <2>1, <2>2
  <2>4. Len(l) = Len(a) + Len(b)
    BY <2>1, <2>2
  <2>5. Joined(l, a, b)
    BY <2>2, <2>3, <2>4, JoinedFrom
  <2>6. QED
    BY <2>5 DEF a, b, l
<1>5. QED
  BY <1>1, <1>2, <1>3, <1>4

\* The labels of a concatenation are the concatenation of the labels.
LEMMA FlattenLabels ==
  ASSUME NEW S, NEW V, NEW f \in [S -> V], NEW s \in Seq(Seq(S))
  PROVE  FlattenSeq([i \in 1 .. Len(s) |-> Labels(s[i], f)]) = Labels(FlattenSeq(s), f)
<1> DEFINE n == Len(s)
           t == [i \in 1 .. n |-> Labels(s[i], f)]
<1>1. n \in Nat /\ \A i \in 1 .. n : s[i] \in Seq(S)
  BY LenProperties
<1>2. ASSUME NEW q \in Seq(S)
      PROVE  Labels(q, f) \in Seq(V) /\ Labels(<<>>, f) = <<>>
  <2>1. Joined(q \o q, q, q)
    BY DEF Joined
  <2>2. QED
    BY <2>1, LabelsConcat
<1>3. t \in Seq(Seq(V)) /\ Len(t) = n /\ \A i \in 1 .. n : t[i] = Labels(s[i], f)
  <2> HIDE DEF n
  <2>1. QED
    BY <1>1, <1>2
<1>4. PICK F \in [0 .. n -> Seq(S)] :
         F[0] = <<>> /\ FlattenSeq(s) = F[n] /\ \A i \in 1 .. n : F[i] = F[i - 1] \o s[i]
  BY FlattenSteps
<1> HIDE DEF t
<1>5. PICK G \in [0 .. n -> Seq(V)] :
         G[0] = <<>> /\ FlattenSeq(t) = G[n] /\ \A i \in 1 .. n : G[i] = G[i - 1] \o t[i]
  <2>1. \E G \in [0 .. Len(t) -> Seq(V)] :
           G[0] = <<>> /\ FlattenSeq(t) = G[Len(t)] /\ \A i \in 1 .. Len(t) : G[i] = G[i - 1] \o t[i]
    BY <1>3, FlattenSteps
  <2> HIDE DEF n
  <2>2. QED
    BY <1>3, <2>1
<1> HIDE DEF n
<1> DEFINE A == {i \in 0 .. n : G[i] = Labels(F[i], f)}
<1>6. 0 \in A
  <2>1. <<>> \in Seq(S)
    OBVIOUS
  <2>2. Labels(<<>>, f) = <<>>
    BY <1>2, <2>1
  <2>3. QED
    BY <1>1, <1>4, <1>5, <2>2
<1>7. ASSUME NEW i \in 0 .. n - 1, i \in A PROVE i + 1 \in A
  <2>1. i + 1 \in 1 .. n /\ i + 1 \in 0 .. n /\ (i + 1) - 1 = i /\ i \in 0 .. n
    BY <1>1
  <2>2. F[i + 1] = F[i] \o s[i + 1]
    BY <1>4, <2>1
  <2>3. G[i + 1] = G[i] \o Labels(s[i + 1], f)
    BY <1>3, <1>5, <2>1
  <2>4. F[i] \in Seq(S) /\ s[i + 1] \in Seq(S)
    BY <1>1, <2>1
  <2>5. Labels(F[i] \o s[i + 1], f) = Labels(F[i], f) \o Labels(s[i + 1], f)
    <3> DEFINE c == F[i] \o s[i + 1]
    <3>1. Joined(c, F[i], s[i + 1])
      BY DEF Joined
    <3> HIDE DEF c
    <3>2. Joined(Labels(c, f), Labels(F[i], f), Labels(s[i + 1], f))
      BY <2>4, <3>1, LabelsConcat
    <3>3. QED
      BY <3>2 DEF Joined, c
  <2>6. G[i] = Labels(F[i], f)
    BY <1>7
  <2>7. G[i + 1] = Labels(F[i + 1], f)
    BY <2>2, <2>3, <2>5, <2>6
  <2>8. QED
    BY <2>1, <2>7
<1> HIDE DEF A
<1>8. n \in A
  <2>1. \A i \in 0 .. n : i \in A
    BY <1>1, <1>6, <1>7, FromZero
  <2>2. QED
    BY <1>1, <2>1
<1>9. QED
  BY <1>4, <1>5, <1>8 DEF A, n, t

\* Lists of disjoint sets, joined, list their union.
LEMMA FlattenLists ==
  ASSUME NEW S, NEW s \in Seq(Seq(S)), NEW f, NEW V,
         \A i \in 1 .. Len(s) : Lists(Labels(s[i], f), V[i]),
         \A i, l \in 1 .. Len(s) : i # l => V[i] \cap V[l] = {}
  PROVE  Lists(Labels(FlattenSeq(s), f), Union(V, Len(s)))
<1> DEFINE n == Len(s)
           R == FlattenSeq(s)
           W == Union(V, n)
           q == Labels(R, f)
<1>1. R \in Seq(S) /\ \A i \in 1 .. n : s[i] \in Seq(S)
  BY FlattenType, LenProperties
<1>2. PICK at \in [1 .. n -> Nat] :
         /\ \A i \in 1 .. n : \A j \in 1 .. Len(s[i]) :
              at[i] + j \in 1 .. Len(R) /\ R[at[i] + j] = s[i][j]
         /\ \A k \in 1 .. Len(R) :
              \E i \in 1 .. n : \E j \in 1 .. Len(s[i]) : k = at[i] + j
  <2> HIDE DEF W, q
  <2>1. s \in Seq(Seq(S))
    OBVIOUS
  <2>2. QED
    BY ONLY <2>1, FlattenPlaces
<1> HIDE DEF n, R
<1>3. Len(q) = Len(R) /\ \A k \in 1 .. Len(R) : q[k] = f[R[k]]
  BY <1>1, LabelsLength
<1>4. \A i \in 1 .. n : /\ Len(Labels(s[i], f)) = Len(s[i])
                        /\ \A j \in 1 .. Len(s[i]) : Labels(s[i], f)[j] = f[s[i][j]]
  BY <1>1, LabelsLength
<1>5. \A i \in 1 .. n : /\ \A j \in 1 .. Len(s[i]) : f[s[i][j]] \in V[i]
                        /\ \A w \in V[i] : \E j \in 1 .. Len(s[i]) : f[s[i][j]] = w
                        /\ \A j, l \in 1 .. Len(s[i]) : f[s[i][j]] = f[s[i][l]] => j = l
  <2> TAKE i \in 1 .. n
  <2> DEFINE L == Labels(s[i], f)
  <2>1. Lists(L, V[i])
    BY DEF n
  <2>2. Len(L) = Len(s[i]) /\ \A j \in 1 .. Len(s[i]) : L[j] = f[s[i][j]]
    BY <1>4
  <2> HIDE DEF L
  <2>3. \A j \in 1 .. Len(s[i]) : f[s[i][j]] \in V[i]
    BY <2>1, <2>2 DEF Lists
  <2>4. \A w \in V[i] : \E j \in 1 .. Len(s[i]) : f[s[i][j]] = w
    <3> TAKE w \in V[i]
    <3>1. PICK j \in 1 .. Len(L) : L[j] = w
      BY <2>1 DEF Lists
    <3>2. QED
      BY <2>2, <3>1
  <2>5. \A j, l \in 1 .. Len(s[i]) : f[s[i][j]] = f[s[i][l]] => j = l
    BY <2>1, <2>2 DEF Lists
  <2>6. QED
    BY <2>3, <2>4, <2>5
<1> HIDE DEF q
<1>6. ASSUME NEW k \in 1 .. Len(R)
      PROVE  \E i \in 1 .. n : \E j \in 1 .. Len(s[i]) :
                k = at[i] + j /\ q[k] = f[s[i][j]] /\ q[k] \in V[i]
  <2>1. PICK i \in 1 .. n : \E j \in 1 .. Len(s[i]) : k = at[i] + j
    BY <1>2
  <2>2. PICK j \in 1 .. Len(s[i]) : k = at[i] + j
    BY <2>1
  <2>3. q[k] = f[s[i][j]]
    BY <1>2, <1>3, <2>2
  <2>4. QED
    BY <1>5, <2>2, <2>3
<1>7. \A k \in 1 .. Len(R) : q[k] \in W
  <2> TAKE k \in 1 .. Len(R)
  <2>1. PICK i \in 1 .. n : q[k] \in V[i]
    BY <1>6
  <2>2. QED
    BY <2>1 DEF Union
<1>8. ASSUME NEW w \in W PROVE \E k \in 1 .. Len(R) : q[k] = w
  <2>1. PICK i \in 1 .. n : w \in V[i]
    BY DEF Union
  <2>2. PICK j \in 1 .. Len(s[i]) : f[s[i][j]] = w
    BY <1>5, <2>1
  <2>3. at[i] + j \in 1 .. Len(R) /\ R[at[i] + j] = s[i][j]
    BY <1>2
  <2>4. QED
    BY <1>3, <2>2, <2>3
<1>9. ASSUME NEW k \in 1 .. Len(R), NEW l \in 1 .. Len(R), q[k] = q[l]
      PROVE  k = l
  <2>1. PICK i \in 1 .. n : \E j \in 1 .. Len(s[i]) :
                k = at[i] + j /\ q[k] = f[s[i][j]] /\ q[k] \in V[i]
    BY <1>6
  <2>2. PICK j \in 1 .. Len(s[i]) : k = at[i] + j /\ q[k] = f[s[i][j]] /\ q[k] \in V[i]
    BY <2>1
  <2>3. PICK h \in 1 .. n : \E g \in 1 .. Len(s[h]) :
                l = at[h] + g /\ q[l] = f[s[h][g]] /\ q[l] \in V[h]
    BY <1>6
  <2>4. PICK g \in 1 .. Len(s[h]) : l = at[h] + g /\ q[l] = f[s[h][g]] /\ q[l] \in V[h]
    BY <2>3
  <2>5. i = h
    <3>1. q[k] \in V[i] \cap V[h]
      BY <1>9, <2>2, <2>4
    <3>2. QED
      BY <3>1 DEF n
  <2>6. j = g
    BY <1>5, <1>9, <2>2, <2>4, <2>5
  <2>7. QED
    BY <2>2, <2>4, <2>5, <2>6
<1>10. Lists(q, W)
  BY <1>3, <1>7, <1>8, <1>9 DEF Lists
<1>11. QED
  BY <1>10 DEF q, R, n

-----------------------------------------------------------------------------
(* Sums over finite sets                                                   *)

\* Induction over the subsets of a finite set: a collection that has the empty
\* set and, with every subset, the ones with one element more, has them all.
LEMMA SubsetsUpTo ==
  ASSUME NEW D, IsFiniteSet(D), NEW T, {} \in T,
         \A s \in SUBSET D, x \in D : s \in T /\ x \notin s => s \cup {x} \in T
  PROVE  \A s \in SUBSET D : s \in T
<1> DEFINE n == Cardinality(D)
           M == {m \in 0 .. n : \A s \in SUBSET D : Cardinality(s) = m => s \in T}
<1>1. n \in Nat /\ \A s \in SUBSET D : IsFiniteSet(s) /\ Cardinality(s) \in 0 .. n
  BY FS_CardinalityType, FS_Subset
<1>2. 0 \in M
  <2>1. \A s \in SUBSET D : Cardinality(s) = 0 => s = {}
    BY <1>1, FS_EmptySet
  <2>2. QED
    BY <1>1, <2>1
<1>3. ASSUME NEW m \in 0 .. n - 1, m \in M PROVE m + 1 \in M
  <2>1. ASSUME NEW s \in SUBSET D, Cardinality(s) = m + 1 PROVE s \in T
    <3>1. s # {} /\ m \in Nat
      BY <1>1, <2>1, FS_EmptySet
    <3>2. PICK x \in s : TRUE
      BY <3>1
    <3>3. s \ {x} \in SUBSET D /\ Cardinality(s \ {x}) = m
      BY <1>1, <2>1, <3>1, FS_RemoveElement
    <3>4. s \ {x} \in T
      BY <1>3, <3>3
    <3>5. (s \ {x}) \cup {x} \in T
      BY <3>3, <3>4
    <3>6. (s \ {x}) \cup {x} = s
      OBVIOUS
    <3>7. QED
      BY <3>5, <3>6
  <2>2. m + 1 \in 0 .. n
    BY <1>1
  <2>3. QED
    BY <2>1, <2>2
<1> HIDE DEF M
<1>4. \A m \in 0 .. n : m \in M
  BY <1>1, <1>2, <1>3, FromZero
<1>5. QED
  BY <1>1, <1>4 DEF M

\* The element that the folds of the community modules take next.
Chosen(s) == CHOOSE x \in s : TRUE

\* The sums over the subsets of D, in the order the elements are chosen.
SubsetSums(G, D, v) ==
  \A s \in SUBSET D : G[s] = IF s = {} THEN 0 ELSE v[Chosen(s)] + G[s \ {Chosen(s)}]

SumTable(G, D, v) == SubsetSums(G, D, v) /\ \A s \in SUBSET D : G[s] \in Int

\* There is a table of the sums over the subsets of a finite set.
LEMMA SumTableExists ==
  ASSUME NEW D, IsFiniteSet(D), NEW v \in [D -> Int]
  PROVE  \E G \in [SUBSET D -> Int] : SumTable(G, D, v)
<1> DEFINE n == Cardinality(D)
           Upto(m) == {s \in SUBSET D : Cardinality(s) <= m}
           next(G, s) == IF s = {} THEN 0 ELSE v[Chosen(s)] + G[s \ {Chosen(s)}]
           M == {m \in 0 .. n : \E G \in [SUBSET D -> Int] :
                                  \A s \in Upto(m) : G[s] = next(G, s)}
<1>1. n \in Nat /\ \A s \in SUBSET D : IsFiniteSet(s) /\ Cardinality(s) \in 0 .. n
  BY FS_CardinalityType, FS_Subset
<1>2. \A s \in SUBSET D : s # {} => /\ Chosen(s) \in s /\ s \ {Chosen(s)} \in SUBSET D
                                    /\ Cardinality(s \ {Chosen(s)}) = Cardinality(s) - 1
  BY <1>1, FS_RemoveElement DEF Chosen
<1>3. 0 \in M
  <2> DEFINE G == [s \in SUBSET D |-> 0]
  <2>1. \A s \in Upto(0) : s = {}
    BY <1>1, FS_EmptySet
  <2>2. \A s \in Upto(0) : G[s] = next(G, s)
    BY <2>1
  <2>3. G \in [SUBSET D -> Int] /\ 0 \in 0 .. n
    BY <1>1
  <2> HIDE DEF G, next, Upto
  <2>4. QED
    BY <2>2, <2>3
<1>4. ASSUME NEW m \in 0 .. n - 1, m \in M PROVE m + 1 \in M
  <2>1. PICK H \in [SUBSET D -> Int] : \A s \in Upto(m) : H[s] = next(H, s)
    BY <1>4
  <2> DEFINE G == [s \in SUBSET D |-> next(H, s)]
  <2>2. G \in [SUBSET D -> Int]
    <3>1. ASSUME NEW s \in SUBSET D PROVE next(H, s) \in Int
      <4>1. s # {} => v[Chosen(s)] \in Int /\ H[s \ {Chosen(s)}] \in Int
        BY <1>2
      <4>2. QED
        BY <4>1
    <3>2. QED
      BY <3>1
  <2>3. ASSUME NEW s \in Upto(m + 1) PROVE G[s] = next(G, s)
    <3>1. CASE s = {}
      BY <3>1
    <3>2. CASE s # {}
      <4> DEFINE t == s \ {Chosen(s)}
      <4>1. t \in SUBSET D /\ t \in Upto(m) /\ m \in Int /\ Cardinality(s) \in Int
        BY <1>1, <1>2, <3>2
      <4>2. G[t] = H[t]
        BY <2>1, <4>1
      <4>3. G[s] = v[Chosen(s)] + H[t]
        BY <3>2
      <4> HIDE DEF G
      <4>4. QED
        BY <3>2, <4>2, <4>3
    <3>3. QED
      BY <3>1, <3>2
  <2>4. m + 1 \in 0 .. n
    BY <1>1
  <2> HIDE DEF G, next, Upto
  <2>5. QED
    BY <2>2, <2>3, <2>4
<1> HIDE DEF M
<1>5. n \in M
  <2>1. \A m \in 0 .. n : m \in M
    BY <1>1, <1>3, <1>4, FromZero
  <2>2. QED
    BY <1>1, <2>1
<1>6. PICK G \in [SUBSET D -> Int] : \A s \in Upto(n) : G[s] = next(G, s)
  BY <1>5 DEF M
<1>7. \A s \in SUBSET D : G[s] \in Int /\ s \in Upto(n)
  BY <1>1
<1>8. QED
  BY <1>6, <1>7 DEF SumTable, SubsetSums

\* There is no other.
LEMMA SumsAreUnique ==
  ASSUME NEW D, IsFiniteSet(D), NEW v, NEW G, NEW H, SubsetSums(G, D, v), SubsetSums(H, D, v)
  PROVE  \A s \in SUBSET D : G[s] = H[s]
<1> DEFINE n == Cardinality(D)
           M == {m \in 0 .. n : \A s \in SUBSET D : Cardinality(s) = m => G[s] = H[s]}
<1>1. n \in Nat /\ \A s \in SUBSET D : IsFiniteSet(s) /\ Cardinality(s) \in 0 .. n
  BY FS_CardinalityType, FS_Subset
<1>2. 0 \in M
  <2>1. \A s \in SUBSET D : Cardinality(s) = 0 => s = {}
    BY <1>1, FS_EmptySet
  <2>2. G[{}] = 0 /\ H[{}] = 0
    BY DEF SubsetSums
  <2>3. QED
    BY <1>1, <2>1, <2>2
<1>3. ASSUME NEW m \in 0 .. n - 1, m \in M PROVE m + 1 \in M
  <2>1. ASSUME NEW s \in SUBSET D, Cardinality(s) = m + 1 PROVE G[s] = H[s]
    <3> DEFINE t == s \ {Chosen(s)}
    <3>1. s # {} /\ m \in Nat
      BY <1>1, <2>1, FS_EmptySet
    <3>2. t \in SUBSET D /\ Cardinality(t) = m
      <4>1. Chosen(s) \in s /\ IsFiniteSet(s) /\ m + 1 - 1 = m
        BY <1>1, <3>1 DEF Chosen
      <4>2. Cardinality(t) = Cardinality(s) - 1
        BY <4>1, FS_RemoveElement
      <4>3. QED
        BY <2>1, <4>1, <4>2
    <3>3. G[t] = H[t]
      BY <1>3, <3>2
    <3>4. QED
      BY <3>1, <3>3 DEF SubsetSums
  <2>2. m + 1 \in 0 .. n
    BY <1>1
  <2>3. QED
    BY <2>1, <2>2
<1> HIDE DEF M
<1>4. \A m \in 0 .. n : m \in M
  BY <1>1, <1>2, <1>3, FromZero
<1>5. QED
  BY <1>1, <1>4 DEF M

\* SumFunction gives the sum over the whole set.
LEMMA SumIs ==
  ASSUME NEW D, IsFiniteSet(D), NEW v \in [D -> Int], NEW G, SumTable(G, D, v)
  PROVE  SumFunction(v) = G[D]
<1> DEFINE Is(g) == g = [s \in SUBSET D |->
                           IF s = {} THEN 0
                           ELSE LET x == CHOOSE x \in s : TRUE IN v[x] + g[s \ {x}]]
           g == CHOOSE h : Is(h)
<1>1. DOMAIN v = D
  OBVIOUS
<1>2. SumFunction(v) = g[D]
  BY <1>1 DEF SumFunction, SumFunctionOnSet, FoldFunctionOnSet, MapThenFoldSet
<1>3. Is([s \in SUBSET D |-> G[s]])
  <2> DEFINE h == [s \in SUBSET D |-> G[s]]
  <2>1. ASSUME NEW s \in SUBSET D
        PROVE  G[s] = IF s = {} THEN 0
                      ELSE LET x == CHOOSE x \in s : TRUE IN v[x] + h[s \ {x}]
    BY DEF SumTable, SubsetSums, Chosen
  <2> HIDE DEF h
  <2>2. h = [s \in SUBSET D |-> G[s]]
    BY DEF h
  <2>3. QED
    BY <2>1, <2>2
<1>4. Is(g)
  <2> HIDE DEF Is
  <2>1. QED
    BY <1>3
<1> HIDE DEF g
<1>5. SubsetSums(g, D, v)
  BY <1>4 DEF Chosen, SubsetSums
<1> HIDE DEF Is
<1>6. g[D] = G[D]
  <2>1. \A s \in SUBSET D : g[s] = G[s]
    BY <1>5, SumsAreUnique DEF SumTable
  <2>2. QED
    BY <2>1
<1>7. QED
  BY <1>2, <1>6

\* Any element may be taken first.
LEMMA SumPicks ==
  ASSUME NEW D, IsFiniteSet(D), NEW v \in [D -> Int], NEW G, SumTable(G, D, v)
  PROVE  \A s \in SUBSET D, x \in D : x \in s => G[s] = v[x] + G[s \ {x}]
<1> DEFINE n == Cardinality(D)
           M == {m \in 0 .. n : \A s \in SUBSET D, x \in D :
                   Cardinality(s) = m /\ x \in s => G[s] = v[x] + G[s \ {x}]}
<1>1. n \in Nat /\ \A s \in SUBSET D : IsFiniteSet(s) /\ Cardinality(s) \in 0 .. n
  BY FS_CardinalityType, FS_Subset
<1>2. 0 \in M
  <2>1. \A s \in SUBSET D : Cardinality(s) = 0 => s = {}
    BY <1>1, FS_EmptySet
  <2>2. QED
    BY <1>1, <2>1
<1>3. ASSUME NEW m \in 0 .. n - 1, m \in M PROVE m + 1 \in M
  <2>1. ASSUME NEW s \in SUBSET D, NEW x \in D, Cardinality(s) = m + 1, x \in s
        PROVE  G[s] = v[x] + G[s \ {x}]
    <3> DEFINE c == Chosen(s)
    <3>1. c \in s /\ m \in Nat
      BY <1>1, <2>1 DEF Chosen
    <3>2. G[s] = v[c] + G[s \ {c}]
      BY <3>1 DEF SumTable, SubsetSums
    <3> HIDE DEF c
    <3>3. CASE x = c
      BY <3>2, <3>3
    <3>4. CASE x # c
      <4>1. /\ s \ {c} \in SUBSET D /\ Cardinality(s \ {c}) = m /\ x \in s \ {c}
            /\ s \ {x} \in SUBSET D /\ Cardinality(s \ {x}) = m /\ c \in s \ {x} /\ c \in D
        <5>1. IsFiniteSet(s) /\ m + 1 - 1 = m /\ c \in D
          BY <1>1, <3>1
        <5>2. Cardinality(s \ {c}) = Cardinality(s) - 1 /\ Cardinality(s \ {x}) = Cardinality(s) - 1
          BY <2>1, <3>1, <5>1, FS_RemoveElement
        <5>3. QED
          BY <2>1, <3>1, <3>4, <5>1, <5>2
      <4>2. G[s \ {c}] = v[x] + G[(s \ {c}) \ {x}]
        BY <1>3, <4>1
      <4>3. G[s \ {x}] = v[c] + G[(s \ {x}) \ {c}]
        BY <1>3, <4>1
      <4>4. (s \ {c}) \ {x} = (s \ {x}) \ {c}
        OBVIOUS
      <4> DEFINE g == G[(s \ {c}) \ {x}]
      <4>5. g \in Int /\ v[x] \in Int /\ v[c] \in Int
        BY <4>1 DEF SumTable
      <4>6. G[s] = v[c] + (v[x] + g) /\ G[s \ {x}] = v[c] + g
        BY <3>2, <4>2, <4>3, <4>4
      <4> HIDE DEF g
      <4>7. QED
        BY <4>5, <4>6
    <3>5. QED
      BY <3>3, <3>4
  <2>2. m + 1 \in 0 .. n
    BY <1>1
  <2>3. QED
    BY <2>1, <2>2
<1> HIDE DEF M
<1>4. \A m \in 0 .. n : m \in M
  BY <1>1, <1>2, <1>3, FromZero
<1>5. QED
  BY <1>1, <1>4 DEF M

\* What the proofs about sums use: a sum over subsets is an integer, nothing
\* for the empty set, and grows by the value of an element that is added.
LEMMA SumOver ==
  ASSUME NEW D, IsFiniteSet(D), NEW v \in [D -> Int]
  PROVE  /\ SumFunction(Restrict(v, {})) = 0 /\ SumFunction(v) = SumFunction(Restrict(v, D))
         /\ \A s \in SUBSET D : SumFunction(Restrict(v, s)) \in Int
         /\ \A s \in SUBSET D, x \in D : x \notin s =>
              SumFunction(Restrict(v, s \cup {x})) = v[x] + SumFunction(Restrict(v, s))
<1>1. PICK G \in [SUBSET D -> Int] : SumTable(G, D, v)
  BY SumTableExists
<1>2. ASSUME NEW s \in SUBSET D PROVE SumFunction(Restrict(v, s)) = G[s]
  <2>1. IsFiniteSet(s) /\ Restrict(v, s) \in [s -> Int]
    BY FS_Subset DEF Restrict
  <2>2. SumTable(G, s, Restrict(v, s))
    <3>1. ASSUME NEW t \in SUBSET s
          PROVE  G[t] = IF t = {} THEN 0 ELSE Restrict(v, s)[Chosen(t)] + G[t \ {Chosen(t)}]
      <4>1. t # {} => Restrict(v, s)[Chosen(t)] = v[Chosen(t)]
        BY DEF Restrict, Chosen
      <4>2. t \in SUBSET D
        OBVIOUS
      <4>3. QED
        BY <1>1, <4>1, <4>2 DEF SumTable, SubsetSums
    <3>2. \A t \in SUBSET s : G[t] \in Int
      BY <1>1
    <3>3. QED
      BY <3>1, <3>2 DEF SumTable, SubsetSums
  <2>3. QED
    BY <2>1, <2>2, SumIs
<1>3. G[{}] = 0
  BY <1>1 DEF SumTable, SubsetSums
<1>4. ASSUME NEW s \in SUBSET D, NEW x \in D, x \notin s
      PROVE  SumFunction(Restrict(v, s \cup {x})) = v[x] + SumFunction(Restrict(v, s))
  <2>1. (s \cup {x}) \ {x} = s /\ s \cup {x} \in SUBSET D /\ x \in s \cup {x}
    BY <1>4
  <2>2. G[s \cup {x}] = v[x] + G[s]
    BY <1>1, <2>1, SumPicks
  <2>3. QED
    BY <1>2, <2>1, <2>2
<1>5. v = Restrict(v, D)
  BY DEF Restrict
<1>6. QED
  BY <1>2, <1>3, <1>4, <1>5

\* Larger values, larger sum.
LEMMA SumIsMonotonic ==
  ASSUME NEW D, IsFiniteSet(D), NEW v \in [D -> Int], NEW w \in [D -> Int],
         \A x \in D : v[x] <= w[x]
  PROVE  SumFunction(v) <= SumFunction(w)
<1> DEFINE T == {s \in SUBSET D : SumFunction(Restrict(v, s)) <= SumFunction(Restrict(w, s))}
<1>1. {} \in T
  BY SumOver
<1>2. ASSUME NEW s \in SUBSET D, NEW x \in D, s \in T, x \notin s PROVE s \cup {x} \in T
  <2> DEFINE a == SumFunction(Restrict(v, s))
             b == SumFunction(Restrict(w, s))
  <2>1. a \in Int /\ b \in Int /\ a <= b /\ v[x] \in Int /\ w[x] \in Int /\ v[x] <= w[x]
    BY <1>2, SumOver
  <2>2. SumFunction(Restrict(v, s \cup {x})) = v[x] + a
    BY <1>2, SumOver
  <2>3. SumFunction(Restrict(w, s \cup {x})) = w[x] + b
    BY <1>2, SumOver
  <2> HIDE DEF a, b
  <2>4. SumFunction(Restrict(v, s \cup {x})) <= SumFunction(Restrict(w, s \cup {x}))
    BY <2>1, <2>2, <2>3
  <2>5. QED
    BY <2>4
<1> HIDE DEF T
<1>3. D \in T
  <2>1. \A s \in SUBSET D : s \in T
    BY <1>1, <1>2, SubsetsUpTo
  <2>2. QED
    BY <2>1
<1>4. QED
  BY <1>3, SumOver DEF T

\* A common factor may be taken out.
LEMMA SumIsLinear ==
  ASSUME NEW D, IsFiniteSet(D), NEW v \in [D -> Int], NEW k \in Int
  PROVE  SumFunction([x \in D |-> k * v[x]]) = k * SumFunction(v)
<1> DEFINE w == [x \in D |-> k * v[x]]
           T == {s \in SUBSET D : SumFunction(Restrict(w, s)) = k * SumFunction(Restrict(v, s))}
<1>1. w \in [D -> Int] /\ \A x \in D : w[x] = k * v[x]
  OBVIOUS
<1> HIDE DEF w
<1>2. {} \in T
  BY <1>1, SumOver
<1>3. ASSUME NEW s \in SUBSET D, NEW x \in D, s \in T, x \notin s PROVE s \cup {x} \in T
  <2> DEFINE a == SumFunction(Restrict(v, s))
  <2>1. a \in Int /\ v[x] \in Int
    BY SumOver
  <2>2. SumFunction(Restrict(v, s \cup {x})) = v[x] + a
    BY <1>3, SumOver
  <2>3. SumFunction(Restrict(w, s \cup {x})) = k * v[x] + k * a
    BY <1>1, <1>3, SumOver
  <2> HIDE DEF a
  <2>4. k * (v[x] + a) = k * v[x] + k * a
    <3> DEFINE y == v[x]
    <3>1. y \in Int
      BY <2>1
    <3> HIDE DEF y
    <3>2. k * (y + a) = k * y + k * a
      BY <2>1, <3>1
    <3>3. QED
      BY <3>2 DEF y
  <2>5. QED
    BY <2>2, <2>3, <2>4
<1> HIDE DEF T
<1>4. D \in T
  <2>1. \A s \in SUBSET D : s \in T
    BY <1>2, <1>3, SubsetsUpTo
  <2>2. QED
    BY <2>1
<1>5. SumFunction(w) = k * SumFunction(v)
  BY <1>1, <1>4, SumOver DEF T
<1>6. QED
  BY <1>5 DEF w

\* w is v with the summands renamed by h, which gives no two the same name.
Renamed(D, v, h, E, w) ==
  /\ IsFiniteSet(D) /\ v \in [D -> Int] /\ w \in [E -> Int]
  /\ \A x, y \in D : h[x] = h[y] => x = y
  /\ \A x \in D : h[x] \in E /\ w[h[x]] = v[x]
  /\ \A e \in E : \E x \in D : h[x] = e

\* A sum does not depend on what the summands are called.
LEMMA SumIsMoved ==
  ASSUME NEW D, NEW v, NEW h, NEW E, NEW w, Renamed(D, v, h, E, w)
  PROVE  IsFiniteSet(E) /\ SumFunction(v) = SumFunction(w)
<1> USE DEF Renamed
<1> DEFINE Image(s) == {h[x] : x \in s}
           T == {s \in SUBSET D : SumFunction(Restrict(v, s)) = SumFunction(Restrict(w, Image(s)))}
<1>1. IsFiniteSet(E)
  <2> DEFINE g == [x \in D |-> h[x]]
  <2>1. g \in Surjection(D, E)
    BY DEF Surjection
  <2> HIDE DEF g
  <2>2. QED
    BY <2>1, FS_Surjection
<1>2. {} \in T
  <2>1. Image({}) = {}
    OBVIOUS
  <2>2. SumFunction(Restrict(w, {})) = 0
    BY <1>1, SumOver
  <2>3. SumFunction(Restrict(v, {})) = 0
    BY SumOver
  <2> HIDE DEF Image
  <2>4. QED
    BY <2>1, <2>2, <2>3
<1>3. ASSUME NEW s \in SUBSET D, NEW x \in D, s \in T, x \notin s PROVE s \cup {x} \in T
  <2>1. /\ Image(s) \in SUBSET E /\ h[x] \in E /\ h[x] \notin Image(s)
        /\ Image(s \cup {x}) = Image(s) \cup {h[x]}
    BY <1>3
  <2>2. SumFunction(Restrict(v, s \cup {x})) = v[x] + SumFunction(Restrict(v, s))
    BY <1>3, SumOver
  <2>3. SumFunction(Restrict(v, s)) = SumFunction(Restrict(w, Image(s)))
    BY <1>3
  <2> HIDE DEF Image
  <2>4. SumFunction(Restrict(w, Image(s) \cup {h[x]})) = w[h[x]] + SumFunction(Restrict(w, Image(s)))
    BY <1>1, <2>1, SumOver
  <2>5. QED
    BY <2>1, <2>2, <2>3, <2>4
<1>4. SumFunction(Restrict(v, D)) = SumFunction(Restrict(w, Image(D)))
  <2> HIDE DEF T
  <2>1. \A s \in SUBSET D : s \in T
    BY <1>2, <1>3, SubsetsUpTo
  <2>2. D \in T
    BY <2>1
  <2>3. QED
    BY <2>2 DEF T
<1>5. SumFunction(v) = SumFunction(Restrict(v, D))
  BY SumOver
<1>6. SumFunction(w) = SumFunction(Restrict(w, E))
  BY <1>1, SumOver
<1>7. QED
  BY <1>1, <1>4, <1>5, <1>6

\* However a range is divided up, the parts have as many numbers as it has.
LEMMA SumOfCounts ==
  ASSUME NEW n \in Nat, NEW f
  PROVE  /\ IsFiniteSet({f[i] : i \in 1 .. n})
         /\ \A k : Cardinality({i \in 1 .. n : f[i] = k}) \in 0 .. n
         /\ SumFunction([k \in {f[i] : i \in 1 .. n} |->
                           Cardinality({i \in 1 .. n : f[i] = k})]) = n
<1> DEFINE D == {f[i] : i \in 1 .. n}
           At(s) == {i \in 1 .. n : f[i] \in s}
           With(k) == {i \in 1 .. n : f[i] = k}
           v == [k \in D |-> Cardinality(With(k))]
           T == {s \in SUBSET D : SumFunction(Restrict(v, s)) = Cardinality(At(s))}
<1>1. IsFiniteSet(1 .. n) /\ Cardinality(1 .. n) = n
  BY FS_Interval
<1>2. /\ \A k : IsFiniteSet(With(k)) /\ Cardinality(With(k)) \in 0 .. n
      /\ \A s : IsFiniteSet(At(s)) /\ Cardinality(At(s)) \in Nat
  BY <1>1, FS_Subset, FS_CardinalityType
<1>3. IsFiniteSet(D)
  <2> DEFINE g == [x \in 1 .. n |-> f[x]]
  <2>1. g \in Surjection(1 .. n, D)
    BY DEF Surjection
  <2> HIDE DEF g, D
  <2>2. QED
    BY <1>1, <2>1, FS_Surjection
<1>4. v \in [D -> Int] /\ \A k \in D : v[k] = Cardinality(With(k))
  <2> HIDE DEF With, D
  <2>1. QED
    BY <1>2
<1> HIDE DEF v, D
<1>5. {} \in T
  <2>1. At({}) = {}
    OBVIOUS
  <2> HIDE DEF At
  <2>2. Cardinality(At({})) = 0
    BY <2>1, FS_EmptySet
  <2>3. SumFunction(Restrict(v, {})) = 0
    BY <1>3, <1>4, SumOver
  <2>4. QED
    BY <2>2, <2>3
<1>6. ASSUME NEW s \in SUBSET D, NEW x \in D, s \in T, x \notin s PROVE s \cup {x} \in T
  <2>1. At(s \cup {x}) = At(s) \cup With(x) /\ At(s) \cap With(x) = {}
    BY <1>6
  <2> HIDE DEF At, With
  <2>2. Cardinality(At(s) \cup With(x)) = Cardinality(At(s)) + Cardinality(With(x)) - 0
    BY <1>2, <2>1, FS_Union, FS_EmptySet
  <2>3. SumFunction(Restrict(v, s \cup {x})) = v[x] + SumFunction(Restrict(v, s))
    BY <1>3, <1>4, <1>6, SumOver
  <2>4. v[x] = Cardinality(With(x)) /\ SumFunction(Restrict(v, s)) = Cardinality(At(s))
    BY <1>4, <1>6
  <2>5. Cardinality(At(s)) \in Int /\ Cardinality(With(x)) \in Int
    BY <1>2
  <2>6. SumFunction(Restrict(v, s \cup {x})) = Cardinality(At(s \cup {x}))
    <3>1. Cardinality(At(s \cup {x})) = Cardinality(At(s) \cup With(x))
      BY <2>1
    <3>2. Cardinality(At(s \cup {x})) = Cardinality(At(s)) + Cardinality(With(x))
      BY <2>2, <2>5, <3>1
    <3>3. SumFunction(Restrict(v, s \cup {x})) = Cardinality(With(x)) + Cardinality(At(s))
      BY <2>3, <2>4
    <3>4. QED
      BY <2>5, <3>2, <3>3
  <2>7. QED
    BY <2>6
<1>7. SumFunction(Restrict(v, D)) = Cardinality(At(D))
  <2> HIDE DEF T
  <2>1. \A s \in SUBSET D : s \in T
    BY <1>3, <1>5, <1>6, SubsetsUpTo
  <2>2. D \in T
    BY <2>1
  <2>3. QED
    BY <2>2 DEF T
<1>8. At(D) = 1 .. n
  BY DEF D
<1>9. SumFunction(v) = n
  <2> HIDE DEF At
  <2>1. SumFunction(v) = SumFunction(Restrict(v, D))
    BY <1>3, <1>4, SumOver
  <2>2. QED
    BY <1>1, <1>7, <1>8, <2>1
<1>10. QED
  BY <1>2, <1>3, <1>9 DEF v, D

-----------------------------------------------------------------------------
(* FoldLeft                                                                *)

\* Max of the community modules, which chooses it, is the greatest element.
LEMMA MaxIsGreatest ==
  ASSUME NEW n \in Nat, NEW T \in SUBSET (0 .. n), T # {}
  PROVE  Max(T) \in T /\ \A m \in T : Max(T) >= m
<1> DEFINE D == {n - x : x \in T}
<1>1. D \in SUBSET Nat /\ D # {}
  <2>1. \A x \in T : n - x \in Nat /\ n - x \in D
    OBVIOUS
  <2>2. \E x : x \in T
    OBVIOUS
  <2>3. D # {}
    BY <2>1, <2>2
  <2>4. D \in SUBSET Nat
    BY <2>1
  <2>5. QED
    BY <2>3, <2>4
<1> HIDE DEF D
<1>2. PICK d \in D : \A e \in D : d <= e
  BY <1>1, LeastNatural
<1>3. PICK x \in T : d = n - x
  BY <1>2 DEF D
<1>4. \A m \in T : x >= m
  <2> TAKE m \in T
  <2>1. n - m \in D
    BY DEF D
  <2>2. QED
    BY <1>2, <1>3, <2>1
<1>5. QED
  BY <1>4 DEF Max

LEMMA MaxOfPrefix ==
  ASSUME NEW n \in Nat, NEW k \in 1 .. n
  PROVE  1 .. k # {} /\ Max(1 .. k) = k /\ (1 .. k) \ {k} = 1 .. k - 1
<1>1. 1 .. k \in SUBSET (0 .. n) /\ 1 .. k # {} /\ k \in 1 .. k
  OBVIOUS
<1>2. Max(1 .. k) \in 1 .. k /\ \A m \in 1 .. k : Max(1 .. k) >= m
  BY <1>1, MaxIsGreatest
<1>3. QED
  BY <1>1, <1>2

\* The values of a left fold over each subset of the places of a sequence,
\* where step says what each place does.
FoldTable(G, n, S, base, step) ==
  /\ G \in [SUBSET (1 .. n) -> S]
  /\ \A s \in SUBSET (1 .. n) :
       G[s] = IF s = {} THEN base ELSE step[Max(s)][G[s \ {Max(s)}]]

LEMMA FoldTableExists ==
  ASSUME NEW S, NEW n \in Nat, NEW base \in S, NEW step \in Recursions(n, S)
  PROVE  \E G : FoldTable(G, n, S, base, step)
<1> DEFINE next(G, s) == IF s = {} THEN base ELSE step[Max(s)][G[s \ {Max(s)}]]
           M == {m \in 0 .. n : \E G \in [SUBSET (1 .. n) -> S] :
                                  \A s \in SUBSET (1 .. m) : G[s] = next(G, s)}
<1>1. \A s \in SUBSET (1 .. n) : s # {} =>
        Max(s) \in s /\ (\A m \in s : Max(s) >= m) /\ s \ {Max(s)} \in SUBSET (1 .. n)
  <2> TAKE s \in SUBSET (1 .. n)
  <2>1. s \in SUBSET (0 .. n)
    OBVIOUS
  <2>2. QED
    BY <2>1, MaxIsGreatest
<1>2. 0 \in M
  <2> DEFINE G == [s \in SUBSET (1 .. n) |-> base]
  <2>1. \A s \in SUBSET (1 .. 0) : G[s] = next(G, s)
    OBVIOUS
  <2>2. G \in [SUBSET (1 .. n) -> S] /\ 0 \in 0 .. n
    OBVIOUS
  <2> HIDE DEF G, next
  <2>3. QED
    BY <2>1, <2>2
<1>3. ASSUME NEW m \in 0 .. n - 1, m \in M PROVE m + 1 \in M
  <2>1. PICK H \in [SUBSET (1 .. n) -> S] : \A s \in SUBSET (1 .. m) : H[s] = next(H, s)
    BY <1>3
  <2> DEFINE G == [s \in SUBSET (1 .. n) |-> next(H, s)]
  <2>2. G \in [SUBSET (1 .. n) -> S]
    <3>1. ASSUME NEW s \in SUBSET (1 .. n) PROVE next(H, s) \in S
      <4>1. CASE s = {}
        BY <4>1
      <4>2. CASE s # {}
        <5>1. H[s \ {Max(s)}] \in S /\ step[Max(s)] \in [S -> S]
          BY <1>1, <4>2 DEF Recursions
        <5>2. QED
          BY <4>2, <5>1
      <4>3. QED
        BY <4>1, <4>2
    <3> HIDE DEF next
    <3>2. QED
      BY <3>1
  <2>3. ASSUME NEW s \in SUBSET (1 .. m + 1) PROVE G[s] = next(G, s)
    <3>0. s \in SUBSET (1 .. n)
      OBVIOUS
    <3>1. CASE s = {}
      BY <3>1
    <3>2. CASE s # {}
      <4> DEFINE t == s \ {Max(s)}
      <4>1. t \in SUBSET (1 .. n) /\ t \in SUBSET (1 .. m)
        <5>1. Max(s) \in s /\ \A x \in s : Max(s) >= x
          BY <1>1, <3>0, <3>2
        <5>2. ASSUME NEW x \in t PROVE x \in 1 .. m
          <6>1. x \in 1 .. m + 1 /\ Max(s) \in 1 .. m + 1 /\ Max(s) >= x /\ x # Max(s)
            BY <5>1
          <6>2. QED
            BY <6>1
        <5>3. t \in SUBSET (1 .. n)
          BY <1>1, <3>0, <3>2
        <5>4. QED
          BY <5>2, <5>3
      <4>2. G[t] = H[t]
        BY <2>1, <4>1
      <4>3. G[s] = step[Max(s)][H[t]]
        BY <3>0, <3>2
      <4> HIDE DEF G
      <4>4. QED
        BY <3>2, <4>2, <4>3
    <3>3. QED
      BY <3>1, <3>2
  <2>4. m + 1 \in 0 .. n
    OBVIOUS
  <2> HIDE DEF G, next
  <2>5. QED
    BY <2>2, <2>3, <2>4
<1> HIDE DEF M
<1>4. n \in M
  <2>1. \A m \in 0 .. n : m \in M
    BY <1>2, <1>3, FromZero
  <2>2. QED
    BY <2>1
<1>5. QED
  BY <1>4 DEF M, FoldTable

\* A left fold goes through the values after each prefix.  Its table g is the
\* one that the definition of MapThenFoldSet chooses, which agrees with step
\* on the values in S.
Agrees(g, n, S, base, step) ==
  /\ g[{}] = base
  /\ \A s \in SUBSET (1 .. n) : s # {} /\ g[s \ {Max(s)}] \in S
       => g[s] = step[Max(s)][g[s \ {Max(s)}]]

LEMMA FoldPrefixes ==
  ASSUME NEW S, NEW n \in Nat, NEW base \in S, NEW step \in Recursions(n, S),
         NEW g, Agrees(g, n, S, base, step)
  PROVE  \E F \in [0 .. n -> S] : Follows(F, n, base, step) /\ F[n] = g[1 .. n]
<1>1. PICK F \in [0 .. n -> S] : Follows(F, n, base, step)
  BY RecursionUpTo
<1> DEFINE T == {k \in 0 .. n : F[k] = g[1 .. k]}
<1>2. 0 \in T
  <2>1. 1 .. 0 = {}
    OBVIOUS
  <2>2. QED
    BY <1>1, <2>1 DEF Follows, Agrees
<1>3. ASSUME NEW k \in 0 .. n - 1, k \in T PROVE k + 1 \in T
  <2>1. k + 1 \in 1 .. n /\ (k + 1) - 1 = k /\ 1 .. k + 1 \in SUBSET (1 .. n)
    OBVIOUS
  <2>2. 1 .. k + 1 # {} /\ Max(1 .. k + 1) = k + 1 /\ (1 .. k + 1) \ {k + 1} = 1 .. k
    BY <2>1, MaxOfPrefix
  <2>3. F[k] = g[1 .. k] /\ F[k] \in S
    BY <1>3
  <2>4. g[1 .. k + 1] = step[k + 1][g[1 .. k]]
    BY <2>1, <2>2, <2>3 DEF Agrees
  <2>5. F[k + 1] = step[k + 1][F[k]]
    BY <1>1, <2>1 DEF Follows
  <2>6. QED
    BY <2>1, <2>3, <2>4, <2>5
<1> HIDE DEF T
<1>4. n \in T
  <2>1. \A k \in 0 .. n : k \in T
    BY <1>2, <1>3, FromZero
  <2>2. QED
    BY <2>1
<1>5. QED
  BY <1>1, <1>4 DEF T
===============================================================================
