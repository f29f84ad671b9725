---------------------------- MODULE RunnerProofs ----------------------------
(***************************************************************************)
(* Proofs about Runner, for any lists of benchmarks with any number of     *)
(* axes of any size, any masks and any devices:                            *)
(*                                                                         *)
(*   ConfigsAgree       the run-time and the compile-time enumeration of   *)
(*                      the type axes number the configurations alike      *)
(*   TypeCorrect        the type invariant                                 *)
(*   OnOwnDevice        a state runs on the device it is for               *)
(*   OwnInstantiation   with the kernel generator of its own types         *)
(*   BenchmarksCovered  a benchmark runs each configuration it calls for,  *)
(*                      and each once                                      *)
(*   ProgressExact      the progress count never passes its total and ends *)
(*                      there                                              *)
(*                                                                         *)
(* The first part is about the enumerations.  Both are recursive, so each  *)
(* is first shown to have a value step by step (NumberOfStates,            *)
(* EnumerationIs, ProductSteps), then compared by induction on the axes:   *)
(* the product is a climb from the lowest to the highest tuple (Climbs),   *)
(* each element the next of the one before it when the last wheel turns    *)
(* fastest (Bump), and the odometer over the reversed axes takes the same  *)
(* steps seen from the other side (ReverseNext).  Both list every tuple    *)
(* below the sizes, and none twice (ProductLists, EnumerationLists).       *)
(*                                                                         *)
(* The second part is about the program: RunnerInv says where the loops    *)
(* are and what the lists hold, CoverInv that the states that have run are *)
(* the ones the loops have passed, Counted how far the count has come.     *)
(***************************************************************************)
EXTENDS Runner, SequenceLemmas

-----------------------------------------------------------------------------
(* Tuples with one more wheel in front                                     *)

\* The next tuple when the last wheel turns fastest.
Bump(u, sizes) ==
  [p \in 1 .. Len(sizes) |->
     IF \E q \in p + 1 .. Len(sizes) : u[q] + 1 < sizes[q] THEN u[p]
     ELSE IF u[p] + 1 < sizes[p] THEN u[p] + 1
     ELSE 0]

Low(sizes)  == [p \in 1 .. Len(sizes) |-> 0]
High(sizes) == [p \in 1 .. Len(sizes) |-> sizes[p] - 1]

Room(u, sizes) == \E q \in 1 .. Len(sizes) : u[q] + 1 < sizes[q]

Tuples(n) == [1 .. n -> Nat]

LEMMA TupleIs ==
  ASSUME NEW n \in Nat, NEW u \in Tuples(n)
  PROVE  u \in Seq(Nat) /\ Len(u) = n
<1>1. u \in Seq(Nat) /\ DOMAIN u = 1 .. n
  BY SeqDef DEF Tuples
<1>2. Len(u) \in Nat /\ 1 .. Len(u) = 1 .. n
  BY <1>1, LenProperties
<1>3. QED
  BY <1>1, <1>2

\* x is u with v in front.
Longer(x, v, u, n) ==
  /\ x \in Tuples(n + 1) /\ x \in Seq(Nat) /\ Len(x) = n + 1
  /\ x[1] = v
  /\ \A p \in 1 .. n : x[p + 1] = u[p]

LEMMA ConsIs ==
  ASSUME NEW v \in Nat, NEW n \in Nat, NEW u \in Tuples(n)
  PROVE  Longer(Cons(v, u), v, u, n)
<1>1. u \in Seq(Nat) /\ Len(u) = n
  BY TupleIs
<1>2. <<v>> \in Seq(Nat) /\ Len(<<v>>) = 1 /\ <<v>>[1] = v
  OBVIOUS
<1> DEFINE one == <<v>>
<1> HIDE DEF one
<1>3. /\ one \o u \in Seq(Nat) /\ Len(one \o u) = 1 + n
      /\ \A i \in 1 .. 1 + n : (one \o u)[i] = IF i <= 1 THEN one[i] ELSE u[i - 1]
  BY <1>1, <1>2, ConcatProperties DEF one
<1> DEFINE c == one \o u
<1> HIDE DEF c
<1>4. c \in Seq(Nat) /\ Len(c) = n + 1
  BY <1>3 DEF c
<1>5. c[1] = v
  <2>1. 1 \in 1 .. 1 + n
    OBVIOUS
  <2>2. QED
    BY <1>2, <1>3, <2>1 DEF c, one
<1>6. ASSUME NEW p \in 1 .. n PROVE c[p + 1] = u[p]
  <2>1. p + 1 \in 1 .. 1 + n /\ ~(p + 1 <= 1) /\ (p + 1) - 1 = p
    OBVIOUS
  <2>2. QED
    BY <1>3, <2>1 DEF c
<1>7. c \in Tuples(n + 1)
  BY <1>4, LenProperties DEF Tuples
<1>8. c = Cons(v, u)
  BY DEF c, one, Cons
<1>9. QED
  BY <1>4, <1>5, <1>6, <1>7, <1>8 DEF Longer

LEMMA AsTuple ==
  ASSUME NEW n \in Nat, NEW y \in Tuples(n + 1), NEW x,
         DOMAIN x = 1 .. n + 1, x = [p \in 1 .. n + 1 |-> x[p]],
         x[1] = y[1], \A p \in 1 .. n : x[p + 1] = y[p + 1]
  PROVE  x \in Tuples(n + 1)
<1>1. \A p \in 1 .. n + 1 : p = 1 \/ (p - 1 \in 1 .. n /\ (p - 1) + 1 = p)
  OBVIOUS
<1>2. \A p \in 1 .. n + 1 : x[p] \in Nat
  BY <1>1 DEF Tuples
<1>3. QED
  BY <1>2 DEF Tuples

LEMMA EqualTuples ==
  ASSUME NEW n \in Nat, NEW x \in Tuples(n), NEW y \in Tuples(n),
         \A p \in 1 .. n : x[p] = y[p]
  PROVE  x = y
BY DEF Tuples

\* Two tuples with the same first and the same other elements.
LEMMA SameTuple ==
  ASSUME NEW n \in Nat, NEW x \in Tuples(n + 1), NEW y \in Tuples(n + 1),
         x[1] = y[1], \A p \in 1 .. n : x[p + 1] = y[p + 1]
  PROVE  x = y
<1>1. \A p \in 1 .. n + 1 : p = 1 \/ (p - 1 \in 1 .. n /\ (p - 1) + 1 = p)
  OBVIOUS
<1>2. \A p \in 1 .. n + 1 : x[p] = y[p]
  BY <1>1
<1>3. QED
  BY <1>2 DEF Tuples

\* The wheel in front stays while one behind it has room.
LEMMA BumpBehind ==
  ASSUME NEW n \in Nat, NEW t \in Tuples(n), NEW m \in Nat, NEW v \in Nat,
         NEW u \in Tuples(n), Room(u, t)
  PROVE  /\ Bump(u, t) \in Tuples(n)
         /\ Bump(Cons(v, u), Cons(m, t)) = Cons(v, Bump(u, t))
         /\ Room(Cons(v, u), Cons(m, t))
<1> DEFINE big == Cons(m, t)
           x == Cons(v, u)
           b == Bump(u, t)
           y == Cons(v, b)
           z == Bump(x, big)
<1>1. t \in Seq(Nat) /\ Len(t) = n
  BY TupleIs
<1>2. Longer(big, m, t, n)
  BY ConsIs
<1>3. Longer(x, v, u, n)
  BY ConsIs
<1>4. /\ b \in Tuples(n)
      /\ \A p \in 1 .. n : b[p] = IF \E q \in p + 1 .. n : u[q] + 1 < t[q] THEN u[p]
                                  ELSE IF u[p] + 1 < t[p] THEN u[p] + 1 ELSE 0
  BY <1>1 DEF Bump, Tuples
<1>5. Longer(y, v, b, n)
  BY <1>4, ConsIs
<1>6. /\ z = [p \in 1 .. n + 1 |-> z[p]] /\ DOMAIN z = 1 .. n + 1
      /\ \A p \in 1 .. n + 1 : z[p] = IF \E q \in p + 1 .. n + 1 : x[q] + 1 < big[q] THEN x[p]
                                  ELSE IF x[p] + 1 < big[p] THEN x[p] + 1 ELSE 0
  BY <1>2 DEF Bump, Longer
<1>7. PICK r \in 1 .. n : u[r] + 1 < t[r]
  BY <1>1 DEF Room
<1> HIDE DEF big, x, b, y, z
<1>8. x[r + 1] + 1 < big[r + 1] /\ r + 1 \in 2 .. n + 1
  BY <1>1, <1>2, <1>3, <1>7 DEF Longer
<1>9. z[1] = y[1]
  <2>1. 1 \in 1 .. n + 1 /\ r + 1 \in 1 + 1 .. n + 1
    BY <1>1, <1>8
  <2>2. QED
    BY <1>3, <1>5, <1>6, <1>8, <2>1 DEF Longer
<1>10. ASSUME NEW p \in 1 .. n PROVE z[p + 1] = y[p + 1]
  <2>1. (\E q \in (p + 1) + 1 .. n + 1 : x[q] + 1 < big[q])
          <=> \E q \in p + 1 .. n : u[q] + 1 < t[q]
    <3>1. ASSUME NEW q \in (p + 1) + 1 .. n + 1, x[q] + 1 < big[q]
          PROVE  \E i \in p + 1 .. n : u[i] + 1 < t[i]
      <4>1. q - 1 \in p + 1 .. n /\ q - 1 \in 1 .. n /\ (q - 1) + 1 = q
        BY <1>1
      <4>2. x[q] = u[q - 1] /\ big[q] = t[q - 1]
        BY <1>2, <1>3, <4>1 DEF Longer
      <4>3. QED
        BY <3>1, <4>1, <4>2
    <3>2. ASSUME NEW q \in p + 1 .. n, u[q] + 1 < t[q]
          PROVE  \E i \in (p + 1) + 1 .. n + 1 : x[i] + 1 < big[i]
      <4>1. q + 1 \in (p + 1) + 1 .. n + 1 /\ q \in 1 .. n
        BY <1>1
      <4>2. x[q + 1] = u[q] /\ big[q + 1] = t[q]
        BY <1>2, <1>3, <4>1 DEF Longer
      <4>3. QED
        BY <3>2, <4>1, <4>2
    <3>3. QED
      BY <3>1, <3>2
  <2>2. p + 1 \in 1 .. n + 1 /\ x[p + 1] = u[p] /\ big[p + 1] = t[p] /\ y[p + 1] = b[p]
    BY <1>1, <1>2, <1>3, <1>5 DEF Longer
  <2>3. z[p + 1] = IF \E q \in (p + 1) + 1 .. n + 1 : x[q] + 1 < big[q] THEN x[p + 1]
                   ELSE IF x[p + 1] + 1 < big[p + 1] THEN x[p + 1] + 1 ELSE 0
    BY <1>6, <2>2 DEF Longer
  <2>4. QED
    BY <1>4, <2>1, <2>2, <2>3
<1>11. z = y
  <2>1. z \in Tuples(n + 1)
    BY <1>1, <1>5, <1>6, <1>9, <1>10, AsTuple DEF Longer
  <2>2. QED
    BY <1>1, <1>5, <1>9, <1>10, <2>1, SameTuple DEF Longer
<1>12. Room(x, big)
  BY <1>2, <1>8 DEF Room, Longer
<1>13. QED
  BY <1>4, <1>11, <1>12 DEF b, x, big, y, z

\* It turns when none behind it has.
LEMMA BumpInFront ==
  ASSUME NEW n \in Nat, NEW t \in Tuples(n), NEW m \in Nat, NEW v \in Nat,
         v + 1 < m, \A p \in 1 .. n : t[p] # 0
  PROVE  /\ High(t) \in Tuples(n) /\ Low(t) \in Tuples(n)
         /\ Bump(Cons(v, High(t)), Cons(m, t)) = Cons(v + 1, Low(t))
         /\ Room(Cons(v, High(t)), Cons(m, t))
<1> DEFINE big == Cons(m, t)
           u == High(t)
           w == Low(t)
           x == Cons(v, u)
           y == Cons(v + 1, w)
           z == Bump(x, big)
<1>1. t \in Seq(Nat) /\ Len(t) = n
  BY TupleIs
<1>2. Longer(big, m, t, n)
  BY ConsIs
<1>3. /\ u \in Tuples(n) /\ \A p \in 1 .. n : u[p] + 1 = t[p]
  BY <1>1 DEF High, Tuples
<1>4. w \in Tuples(n) /\ \A p \in 1 .. n : w[p] = 0
  BY <1>1 DEF Low, Tuples
<1>5. Longer(x, v, u, n)
  BY <1>3, ConsIs
<1>6. Longer(y, v + 1, w, n)
  <2>1. v + 1 \in Nat /\ w \in Tuples(n)
    BY <1>4
  <2>2. QED
    BY <2>1, ConsIs
<1>7. /\ z = [p \in 1 .. n + 1 |-> z[p]] /\ DOMAIN z = 1 .. n + 1
      /\ \A p \in 1 .. n + 1 : z[p] = IF \E q \in p + 1 .. n + 1 : x[q] + 1 < big[q] THEN x[p]
                                  ELSE IF x[p] + 1 < big[p] THEN x[p] + 1 ELSE 0
  BY <1>2 DEF Bump, Longer
<1> HIDE DEF big, u, w, x, y, z
<1>8. \A q \in 2 .. n + 1 : ~(x[q] + 1 < big[q])
  <2> TAKE q \in 2 .. n + 1
  <2>1. q - 1 \in 1 .. n /\ (q - 1) + 1 = q
    BY <1>1
  <2>2. x[q] = u[q - 1] /\ big[q] = t[q - 1] /\ u[q - 1] + 1 = t[q - 1] /\ t[q - 1] \in Nat
    BY <1>2, <1>3, <1>5, <2>1 DEF Tuples, Longer
  <2>3. QED
    BY <2>2
<1>9. z[1] = y[1]
  <2>1. 1 \in 1 .. n + 1 /\ x[1] + 1 < big[1]
    BY <1>1, <1>2, <1>5 DEF Longer
  <2>2. \A q \in 1 + 1 .. n + 1 : q \in 2 .. n + 1
    OBVIOUS
  <2>3. QED
    BY <1>5, <1>6, <1>7, <1>8, <2>1, <2>2 DEF Longer
<1>10. ASSUME NEW p \in 1 .. n PROVE z[p + 1] = y[p + 1]
  <2>1. p + 1 \in 2 .. n + 1 /\ \A q \in (p + 1) + 1 .. n + 1 : q \in 2 .. n + 1
    BY <1>1
  <2>2. z[p + 1] = IF \E q \in (p + 1) + 1 .. n + 1 : x[q] + 1 < big[q] THEN x[p + 1]
                   ELSE IF x[p + 1] + 1 < big[p + 1] THEN x[p + 1] + 1 ELSE 0
    BY <1>1, <1>7
  <2>3. z[p + 1] = 0
    BY <1>8, <2>1, <2>2
  <2>4. y[p + 1] = 0
    BY <1>4, <1>6 DEF Longer
  <2>5. QED
    BY <2>3, <2>4
<1>11. z = y
  <2>1. z \in Tuples(n + 1)
    BY <1>1, <1>6, <1>7, <1>9, <1>10, AsTuple DEF Longer
  <2>2. QED
    BY <1>1, <1>6, <1>9, <1>10, <2>1, SameTuple DEF Longer
<1>12. Room(x, big)
  <2>1. 1 \in 1 .. Len(big) /\ x[1] + 1 < big[1]
    BY <1>1, <1>2, <1>5 DEF Longer
  <2>2. QED
    BY <2>1 DEF Room
<1>13. QED
  BY <1>3, <1>4, <1>11, <1>12 DEF u, w, x, big, y, z

-----------------------------------------------------------------------------
(* The compile-time product climbs from the lowest tuple to the highest    *)

\* The first len elements of c, each the next of the one before it.
Climbs(c, len, x, y, sizes) ==
  /\ c[1] = x /\ c[len] = y
  /\ \A k \in 1 .. len - 1 : c[k + 1] = Bump(c[k], sizes) /\ Room(c[k], sizes)

Positive(t, n) == \A p \in 1 .. n : t[p] # 0

\* P lists the tuples below t in order; there is none when a size is zero.
Complete(P, t, n) ==
  /\ P \in Seq(Tuples(n))
  /\ Len(P) # 0 => Positive(t, n) /\ Climbs(P, Len(P), Low(t), High(t), t)

\* Two climbs, the second of which begins where the first would go on.
LEMMA ClimbOn ==
  ASSUME NEW a \in Nat \ {0}, NEW b \in Nat \ {0}, NEW c, NEW X, NEW Y, NEW sizes,
         NEW x, NEW y, NEW z,
         \A k \in 1 .. a : c[k] = X[k],
         \A k \in 1 .. b : c[a + k] = Y[k],
         Climbs(X, a, x, y, sizes), Room(y, sizes),
         Climbs(Y, b, Bump(y, sizes), z, sizes)
  PROVE  Climbs(c, a + b, x, z, sizes)
<1>1. c[1] = x /\ c[a + b] = z /\ c[a] = y /\ c[a + 1] = Bump(y, sizes)
  BY DEF Climbs
<1>2. ASSUME NEW k \in 1 .. (a + b) - 1
      PROVE  c[k + 1] = Bump(c[k], sizes) /\ Room(c[k], sizes)
  <2>1. CASE k < a
    <3>1. k \in 1 .. a - 1 /\ k + 1 \in 1 .. a /\ k \in 1 .. a
      BY <2>1
    <3>2. QED
      BY <3>1 DEF Climbs
  <2>2. CASE k = a
    BY <1>1, <2>2
  <2>3. CASE k > a
    <3>1. k - a \in 1 .. b - 1 /\ (k - a) + 1 \in 1 .. b /\ k - a \in 1 .. b
          /\ a + (k - a) = k /\ a + ((k - a) + 1) = k + 1
      BY <2>3
    <3>2. c[k] = Y[k - a] /\ c[k + 1] = Y[(k - a) + 1]
      BY <3>1
    <3>3. Y[(k - a) + 1] = Bump(Y[k - a], sizes) /\ Room(Y[k - a], sizes)
      BY <3>1 DEF Climbs
    <3>4. QED
      BY <3>2, <3>3
  <2>4. QED
    BY <2>1, <2>2, <2>3
<1>3. QED
  BY <1>1, <1>2 DEF Climbs

\* The configurations with one value in front of those of the other axes.
LEMMA BlockIs ==
  ASSUME NEW n \in Nat, NEW v \in Nat, NEW Q \in Seq(Tuples(n))
  PROVE  /\ prepend_each(v, Q) \in Seq(Tuples(n + 1))
         /\ Len(prepend_each(v, Q)) = Len(Q)
         /\ \A c \in 1 .. Len(Q) : prepend_each(v, Q)[c] = Cons(v, Q[c])
<1>1. Len(Q) \in Nat /\ DOMAIN Q = 1 .. Len(Q)
  BY LenProperties
<1>2. prepend_each(v, Q) = [c \in 1 .. Len(Q) |-> Cons(v, Q[c])]
  BY <1>1 DEF prepend_each, Cons
<1>3. ASSUME NEW c \in 1 .. Len(Q) PROVE Cons(v, Q[c]) \in Tuples(n + 1)
  <2>1. Q[c] \in Tuples(n)
    BY ElementOfSeq
  <2>2. QED
    BY <2>1, ConsIs DEF Longer
<1> HIDE DEF Cons
<1>4. QED
  BY <1>1, <1>2, <1>3

\* It climbs as they do.
LEMMA BlockClimbs ==
  ASSUME NEW n \in Nat, NEW t \in Tuples(n), NEW m \in Nat, NEW v \in Nat,
         NEW Q, Complete(Q, t, n), Len(Q) # 0
  PROVE  Climbs(prepend_each(v, Q), Len(Q), Cons(v, Low(t)), Cons(v, High(t)), Cons(m, t))
<1> DEFINE B == prepend_each(v, Q)
<1>1. Q \in Seq(Tuples(n)) /\ Len(Q) \in Nat /\ Climbs(Q, Len(Q), Low(t), High(t), t)
  BY LenProperties DEF Complete
<1>2. \A c \in 1 .. Len(Q) : B[c] = Cons(v, Q[c])
  BY <1>1, BlockIs
<1> HIDE DEF B
<1>3. B[1] = Cons(v, Low(t)) /\ B[Len(Q)] = Cons(v, High(t))
  BY <1>1, <1>2 DEF Climbs
<1>4. ASSUME NEW k \in 1 .. Len(Q) - 1
      PROVE  B[k + 1] = Bump(B[k], Cons(m, t)) /\ Room(B[k], Cons(m, t))
  <2>1. k \in 1 .. Len(Q) /\ k + 1 \in 1 .. Len(Q)
    BY <1>1
  <2>2. Q[k] \in Tuples(n)
    BY <1>1, <2>1, ElementOfSeq
  <2>3. Q[k + 1] = Bump(Q[k], t) /\ Room(Q[k], t)
    BY <1>1 DEF Climbs
  <2>4. /\ Bump(Cons(v, Q[k]), Cons(m, t)) = Cons(v, Bump(Q[k], t))
        /\ Room(Cons(v, Q[k]), Cons(m, t))
    BY <2>2, <2>3, BumpBehind
  <2>5. QED
    BY <1>2, <2>1, <2>3, <2>4
<1>5. QED
  BY <1>3, <1>4 DEF Climbs, B

LEMMA LowHighOf ==
  ASSUME NEW n \in Nat, NEW t \in Tuples(n), NEW m \in Nat \ {0}, Positive(t, n)
  PROVE  /\ Low(Cons(m, t)) = Cons(0, Low(t))
         /\ High(Cons(m, t)) = Cons(m - 1, High(t))
         /\ Positive(Cons(m, t), n + 1)
<1> DEFINE big == Cons(m, t)
           l == Low(t)
           h == High(t)
           lb == Low(big)
           hb == High(big)
           lc == Cons(0, l)
           hc == Cons(m - 1, h)
<1>1. Longer(big, m, t, n)
  BY ConsIs
<1>2. t \in Seq(Nat) /\ Len(t) = n
  BY TupleIs
<1>3. l \in Tuples(n) /\ h \in Tuples(n)
      /\ (\A p \in 1 .. n : l[p] = 0) /\ \A p \in 1 .. n : h[p] = t[p] - 1
  BY <1>2 DEF Low, High, Tuples, Positive
<1>4. Longer(lc, 0, l, n)
  BY <1>3, ConsIs
<1>5. Longer(hc, m - 1, h, n)
  <2>1. m - 1 \in Nat
    OBVIOUS
  <2>2. QED
    BY <1>3, <2>1, ConsIs
<1> HIDE DEF big, l, h, lc, hc
<1>6. Positive(big, n + 1)
  <2> SUFFICES ASSUME NEW p \in 1 .. n + 1 PROVE big[p] # 0
    BY DEF Positive
  <2>1. CASE p = 1
    BY <1>1, <2>1 DEF Longer
  <2>2. CASE p # 1
    <3>1. p - 1 \in 1 .. n /\ (p - 1) + 1 = p
      BY <2>2
    <3>2. big[p] = t[p - 1]
      BY <1>1, <3>1 DEF Longer
    <3>3. QED
      BY <3>1, <3>2 DEF Positive
  <2>3. QED
    BY <2>1, <2>2
<1>7. big \in Tuples(n + 1) /\ Len(big) = n + 1
  BY <1>1 DEF Longer
<1>8. lb \in Tuples(n + 1) /\ hb \in Tuples(n + 1)
      /\ (\A p \in 1 .. n + 1 : lb[p] = 0) /\ \A p \in 1 .. n + 1 : hb[p] = big[p] - 1
  BY <1>6, <1>7 DEF Low, High, Tuples, Positive
<1> HIDE DEF lb, hb
<1>9. lb = lc
  <2>1. lc \in Tuples(n + 1) /\ 1 \in 1 .. n + 1 /\ lb[1] = lc[1]
    BY <1>4, <1>8 DEF Longer
  <2>2. ASSUME NEW p \in 1 .. n PROVE lb[p + 1] = lc[p + 1]
    <3>1. p + 1 \in 1 .. n + 1
      OBVIOUS
    <3>2. QED
      BY <1>3, <1>4, <1>8, <3>1 DEF Longer
  <2>3. QED
    BY <1>8, <2>1, <2>2, SameTuple
<1>10. hb = hc
  <2>1. hc \in Tuples(n + 1) /\ 1 \in 1 .. n + 1 /\ hb[1] = hc[1]
    BY <1>1, <1>5, <1>8 DEF Longer
  <2>2. ASSUME NEW p \in 1 .. n PROVE hb[p + 1] = hc[p + 1]
    <3>1. p + 1 \in 1 .. n + 1
      OBVIOUS
    <3>2. hb[p + 1] = big[p + 1] - 1 /\ h[p] = t[p] - 1
      BY <1>3, <1>8, <3>1
    <3>3. big[p + 1] = t[p] /\ hc[p + 1] = h[p]
      BY <1>1, <1>5 DEF Longer
    <3>4. QED
      BY <3>2, <3>3
  <2>3. QED
    BY <1>8, <2>1, <2>2, SameTuple
<1>11. QED
  BY <1>6, <1>9, <1>10 DEF big, l, h, lb, hb, lc, hc

\* One more axis in front of a complete list makes a complete list.
LEMMA ProductStep ==
  ASSUME NEW n \in Nat, NEW t \in Tuples(n), NEW m \in Nat, NEW Q, Complete(Q, t, n)
  PROVE  LET R == FlattenSeq([v \in 1 .. m |-> prepend_each(v - 1, Q)])
         IN  Complete(R, Cons(m, t), n + 1) /\ Len(R) = m * Len(Q)
<1> DEFINE s == [v \in 1 .. m |-> prepend_each(v - 1, Q)]
           R == FlattenSeq(s)
           L == Len(Q)
           S == Tuples(n + 1)
           big == Cons(m, t)
<1>1. Q \in Seq(Tuples(n)) /\ L \in Nat
  BY LenProperties DEF Complete
<1>2. \A v \in 1 .. m : s[v] = prepend_each(v - 1, Q)
  OBVIOUS
<1>3. \A v \in 1 .. m : s[v] \in Seq(S) /\ Len(s[v]) = L
  <2> TAKE v \in 1 .. m
  <2>1. v - 1 \in Nat
    OBVIOUS
  <2>2. QED
    BY <1>1, <1>2, <2>1, BlockIs
<1>4. s \in Seq(Seq(S)) /\ Len(s) = m
  <2> HIDE DEF S
  <2>1. \A v \in 1 .. m : prepend_each(v - 1, Q) \in Seq(S)
    BY <1>2, <1>3
  <2>2. QED
    BY <2>1
<1> HIDE DEF s, S, L
<1>5. PICK F \in [0 .. m -> Seq(S)] :
         F[0] = << >> /\ R = F[m] /\ \A i \in 1 .. m : F[i] = F[i - 1] \o s[i]
  BY <1>4, FlattenSteps
<1> HIDE DEF R
<1>6. ASSUME NEW i \in 0 .. m - 1
      PROVE  /\ F[i + 1] \in Seq(S) /\ F[i] \in Seq(S)
             /\ Len(F[i + 1]) = Len(F[i]) + L /\ Len(F[i]) \in Nat
             /\ \A k \in 1 .. Len(F[i]) : F[i + 1][k] = F[i][k]
             /\ \A k \in 1 .. L : F[i + 1][Len(F[i]) + k] = s[i + 1][k]
  <2> DEFINE X == F[i]
             Y == s[i + 1]
             c == F[i + 1]
  <2>1. X \in Seq(S) /\ Y \in Seq(S) /\ Len(Y) = L /\ c \in Seq(S) /\ Len(X) \in Nat
    <3>1. i \in 0 .. m /\ i + 1 \in 1 .. m /\ i + 1 \in 0 .. m
      OBVIOUS
    <3>2. X \in Seq(S) /\ c \in Seq(S)
      BY <3>1
    <3>3. QED
      BY <1>3, <3>1, <3>2, LenProperties
  <2>2. c = X \o Y
    <3>1. i + 1 \in 1 .. m /\ (i + 1) - 1 = i
      OBVIOUS
    <3>2. F[i + 1] = F[(i + 1) - 1] \o s[i + 1]
      BY <1>5, <3>1
    <3>3. QED
      BY <3>1, <3>2
  <2> HIDE DEF X, Y, c
  <2>3. /\ Len(c) = Len(X) + L
        /\ \A k \in 1 .. Len(X) + L : c[k] = IF k <= Len(X) THEN X[k] ELSE Y[k - Len(X)]
    BY <2>1, <2>2, ConcatProperties
  <2>4. \A k \in 1 .. Len(X) : c[k] = X[k]
    BY <1>1, <2>1, <2>3
  <2>5. \A k \in 1 .. L : c[Len(X) + k] = Y[k]
    <3> TAKE k \in 1 .. L
    <3>1. Len(X) + k \in 1 .. Len(X) + L /\ ~(Len(X) + k <= Len(X)) /\ (Len(X) + k) - Len(X) = k
      BY <1>1, <2>1
    <3>2. QED
      BY <2>3, <3>1
  <2>6. QED
    BY <2>1, <2>3, <2>4, <2>5 DEF X, Y, c
<1>7. \A i \in 0 .. m : Len(F[i]) = i * L
  <2> DEFINE T == {i \in 0 .. m : Len(F[i]) = i * L}
  <2>1. 0 \in T
    <3>1. Len(F[0]) = 0 /\ 0 * L = 0
      BY <1>1, <1>5, EmptySeq
    <3>2. QED
      BY <3>1
  <2>2. ASSUME NEW i \in 0 .. m - 1, i \in T PROVE i + 1 \in T
    <3>1. Len(F[i + 1]) = i * L + L
      BY <1>6, <2>2
    <3>2. (i + 1) * L = i * L + L
      BY <1>1
    <3>3. QED
      BY <3>1, <3>2
  <2> HIDE DEF T
  <2>3. \A i \in 0 .. m : i \in T
    BY <2>1, <2>2, FromZero
  <2>4. QED
    BY <2>3 DEF T
<1>8. R \in Seq(S) /\ Len(R) = m * L
  <2>1. m \in 0 .. m
    OBVIOUS
  <2>2. QED
    BY <1>5, <1>7, <2>1
<1>9. CASE m = 0 \/ L = 0
  <2>1. Len(R) = 0
    BY <1>1, <1>8, <1>9
  <2>2. QED
    BY <1>8, <2>1 DEF Complete, R, s, L, S
<1>10. CASE m # 0 /\ L # 0
  <2>1. Positive(t, n)
    BY <1>10 DEF Complete, L
  <2> DEFINE T == {i \in 1 .. m : Climbs(F[i], i * L, Low(big), Cons(i - 1, High(t)), big)}
  <2>2. \A v \in 1 .. m : Climbs(s[v], L, Cons(v - 1, Low(t)), Cons(v - 1, High(t)), big)
    <3> TAKE v \in 1 .. m
    <3>1. v - 1 \in Nat
      OBVIOUS
    <3>2. QED
      BY <1>2, <1>10, <3>1, BlockClimbs DEF L
  <2>3. Low(big) = Cons(0, Low(t)) /\ High(big) = Cons(m - 1, High(t)) /\ Positive(big, n + 1)
    BY <1>10, <2>1, LowHighOf
  <2> HIDE DEF big
  <2>4. 1 \in T
    <3>1. 1 \in 1 .. m /\ 0 \in 0 .. m - 1 /\ 1 - 1 = 0 /\ 1 * L = L /\ 0 + 1 = 1
      BY <1>1, <1>10
    <3>2. Len(F[0]) = 0
      BY <1>5, EmptySeq
    <3>3. \A k \in 1 .. L : F[0 + 1][Len(F[0]) + k] = s[0 + 1][k]
      BY <1>6, <3>1
    <3>4. \A k \in 1 .. L : F[1][k] = s[1][k]
      BY <1>1, <3>1, <3>2, <3>3
    <3>5. Climbs(s[1], L, Low(big), Cons(0, High(t)), big)
      BY <2>2, <2>3, <3>1
    <3>6. Climbs(F[1], L, Low(big), Cons(0, High(t)), big)
      <4>1. 1 \in 1 .. L /\ L \in 1 .. L /\ \A k \in 1 .. L - 1 : k \in 1 .. L /\ k + 1 \in 1 .. L
        BY <1>1, <1>10
      <4>2. QED
        BY <3>4, <3>5, <4>1 DEF Climbs
    <3>7. QED
      BY <3>1, <3>6
  <2>5. ASSUME NEW i \in 1 .. m - 1, i \in T PROVE i + 1 \in T
    <3> DEFINE a == i * L
               X == F[i]
               Y == s[i + 1]
               c == F[i + 1]
               x == Low(big)
               y == Cons(i - 1, High(t))
               z == Cons(i, High(t))
    <3>1. i \in 0 .. m - 1 /\ i \in 0 .. m /\ i + 1 \in 1 .. m /\ i - 1 \in Nat
          /\ (i - 1) + 1 = i /\ (i + 1) - 1 = i
      OBVIOUS
    <3>2. Len(X) = a /\ a \in Nat \ {0} /\ (i + 1) * L = a + L /\ L \in Nat \ {0}
      <4>1. i * L \in Nat \ {0}
        BY <1>1, <1>10
      <4>2. (i + 1) * L = i * L + L
        BY <1>1
      <4>3. QED
        BY <1>1, <1>7, <1>10, <3>1, <4>1, <4>2
    <3>3. (\A k \in 1 .. a : c[k] = X[k]) /\ \A k \in 1 .. L : c[a + k] = Y[k]
      BY <1>6, <3>1, <3>2
    <3>4. Climbs(X, a, x, y, big)
      BY <2>5
    <3>5. Bump(y, big) = Cons(i, Low(t)) /\ Room(y, big)
      <4>1. i - 1 + 1 < m
        OBVIOUS
      <4>2. \A p \in 1 .. n : t[p] # 0
        BY <2>1 DEF Positive
      <4>3. Bump(y, big) = Cons((i - 1) + 1, Low(t)) /\ Room(y, big)
        BY <3>1, <4>1, <4>2, BumpInFront DEF big
      <4>4. QED
        BY <3>1, <4>3
    <3>6. Climbs(Y, L, Bump(y, big), z, big)
      BY <2>2, <3>1, <3>5
    <3> HIDE DEF a, X, Y, c, x, y, z
    <3>7. Climbs(c, a + L, x, z, big)
      BY <3>2, <3>3, <3>4, <3>5, <3>6, ClimbOn
    <3>8. QED
      BY <3>1, <3>2, <3>7 DEF c, x, z
  <2> HIDE DEF T
  <2>6. m \in T
    <3>1. \A i \in 1 .. m : i \in T
      BY <2>4, <2>5, UpTo
    <3>2. QED
      BY <1>10, <3>1
  <2>7. Climbs(R, Len(R), Low(big), High(big), big)
    BY <1>5, <1>8, <2>3, <2>6 DEF T
  <2>8. QED
    BY <1>8, <2>3, <2>7 DEF Complete, R, s, L, S, big
<1>11. QED
  BY <1>9, <1>10

-----------------------------------------------------------------------------
(* The recursive functions have values                                     *)

\* get_number_of_states is the last of the products w[i] of the first i sizes.
LEMMA NumberOfStates ==
  ASSUME NEW sizes \in Seq(Nat)
  PROVE  \E w \in [0 .. Len(sizes) -> Nat] :
            /\ w[0] = 1 /\ get_number_of_states(sizes) = w[Len(sizes)]
            /\ \A i \in 1 .. Len(sizes) : w[i] = w[i - 1] * sizes[i]
<1> DEFINE n == Len(sizes)
           step == [i \in 1 .. n |-> [x \in Nat |-> x * sizes[i]]]
           Is(f) == f = [i \in 0 .. n |-> IF i = 0 THEN 1 ELSE f[i - 1] * sizes[i]]
           G == CHOOSE f : Is(f)
<1>1. n \in Nat /\ \A i \in 1 .. n : sizes[i] \in Nat
  BY LenProperties
<1>2. get_number_of_states(sizes) = G[n]
  BY DEF get_number_of_states
<1>3. \A i \in 1 .. n, x \in Nat : x * sizes[i] \in Nat
  BY <1>1
<1>4. step \in Recursions(n, Nat) /\ \A i \in 1 .. n, x \in Nat : step[i][x] = x * sizes[i]
  BY <1>3 DEF Recursions
<1> HIDE DEF step, n
<1>5. PICK w \in [0 .. n -> Nat] : Follows(w, n, 1, step)
  <2>1. 1 \in Nat
    OBVIOUS
  <2>2. QED
    BY <1>1, <1>4, <2>1, RecursionUpTo
<1>6. w[0] = 1 /\ \A i \in 1 .. n : w[i] = w[i - 1] * sizes[i]
  <2>1. w[0] = 1 /\ \A i \in 1 .. n : w[i] = step[i][w[i - 1]]
    BY <1>5 DEF Follows
  <2>2. \A i \in 1 .. n : w[i - 1] \in Nat
    BY <1>1, <1>5
  <2>3. QED
    BY <1>4, <2>1, <2>2
<1>7. Is(w)
  <2>1. \A i \in 0 .. n : w[i] = IF i = 0 THEN 1 ELSE w[i - 1] * sizes[i]
    BY <1>1, <1>6
  <2>2. QED
    BY <1>5, <2>1
<1>8. Is(G)
  <2> HIDE DEF Is
  <2>1. QED
    BY <1>7
<1> HIDE DEF G
<1>9. G[0] = 1 /\ \A i \in 1 .. n : G[i] = G[i - 1] * sizes[i]
  <2> DEFINE h == [i \in 0 .. n |-> IF i = 0 THEN 1 ELSE G[i - 1] * sizes[i]]
  <2>1. h[0] = 1 /\ \A i \in 1 .. n : h[i] = G[i - 1] * sizes[i]
    BY <1>1
  <2>2. G = h
    BY <1>8
  <2> HIDE DEF h
  <2>3. QED
    BY <2>1, <2>2
<1>10. G[n] = w[n]
  <2> DEFINE T == {i \in 0 .. n : G[i] = w[i]}
  <2>1. 0 \in T
    BY <1>1, <1>6, <1>9
  <2>2. ASSUME NEW i \in 0 .. n - 1, i \in T PROVE i + 1 \in T
    <3>1. i + 1 \in 1 .. n /\ i + 1 \in 0 .. n /\ (i + 1) - 1 = i
      BY <1>1
    <3>2. G[i + 1] = G[i] * sizes[i + 1] /\ w[i + 1] = w[i] * sizes[i + 1]
      BY <1>6, <1>9, <3>1
    <3>3. G[i + 1] = w[i + 1]
      BY <2>2, <3>2
    <3>4. QED
      BY <3>1, <3>3
  <2> HIDE DEF T
  <2>3. \A i \in 0 .. n : i \in T
    BY <1>1, <2>1, <2>2, FromZero
  <2>4. QED
    BY <1>1, <2>3 DEF T
<1>11. QED
  BY <1>2, <1>6, <1>10 DEF n

LEMMA NextIs ==
  ASSUME NEW n \in Nat, NEW sizes, NEW u \in Tuples(n)
  PROVE  /\ next(u, sizes) \in Tuples(n)
         /\ \A p \in 1 .. n : next(u, sizes)[p] =
              IF \E q \in 1 .. p - 1 : u[q] + 1 < sizes[q] THEN u[p]
              ELSE IF u[p] + 1 < sizes[p] THEN u[p] + 1 ELSE 0
BY DEF next, Tuples

\* The indices of state_iterator: from zero, each the next() of the one before.
LEMMA EnumerationIs ==
  ASSUME NEW sizes \in Seq(Nat)
  PROVE  /\ get_number_of_states(sizes) \in Nat
         /\ Enumeration(sizes) \in Seq(Tuples(Len(sizes)))
         /\ Len(Enumeration(sizes)) = get_number_of_states(sizes)
         /\ get_number_of_states(sizes) # 0 => Enumeration(sizes)[1] = Low(sizes)
         /\ \A k \in 1 .. get_number_of_states(sizes) - 1 :
              Enumeration(sizes)[k + 1] = next(Enumeration(sizes)[k], sizes)
<1> DEFINE n == Len(sizes)
           N == get_number_of_states(sizes)
           S == Tuples(n)
           first == [p \in DOMAIN sizes |-> 0]
           Is(f) == f = [k \in 1 .. N |-> IF k = 1 THEN first ELSE next(f[k - 1], sizes)]
           G == CHOOSE f : Is(f)
<1>1. N \in Nat /\ n \in Nat /\ DOMAIN sizes = 1 .. n
  <2>1. PICK w \in [0 .. Len(sizes) -> Nat] : get_number_of_states(sizes) = w[Len(sizes)]
    BY NumberOfStates
  <2>2. QED
    BY <2>1, LenProperties
<1>2. first \in S /\ first = Low(sizes)
  BY <1>1 DEF Tuples, Low
<1>3. Enumeration(sizes) = G
  BY DEF Enumeration
<1>4. \A x \in S : next(x, sizes) \in S
  BY <1>1, NextIs
<1> HIDE DEF S, N, n, first
<1>5. CASE N = 0
  <2>1. Is([k \in 1 .. 0 |-> 0])
    BY <1>5
  <2>2. Is(G)
    <3> HIDE DEF Is
    <3>1. QED
      BY <2>1
  <2> HIDE DEF G
  <2>3. G = [k \in 1 .. 0 |-> 0]
    BY <1>5, <2>2
  <2>4. [k \in 1 .. 0 |-> 0] \in Seq(S) /\ Len([k \in 1 .. 0 |-> 0]) = 0
    OBVIOUS
  <2>5. QED
    BY <1>1, <1>3, <1>5, <2>3, <2>4 DEF S, N, n
<1>6. CASE N # 0
  <2> DEFINE m == N - 1
             step == [k \in 1 .. m |-> [x \in S |-> next(x, sizes)]]
  <2>1. m \in Nat
    BY <1>1, <1>6
  <2>2. step \in Recursions(m, S) /\ \A k \in 1 .. m, x \in S : step[k][x] = next(x, sizes)
    BY <1>4 DEF Recursions
  <2> HIDE DEF step
  <2>3. PICK w \in [0 .. m -> S] : Follows(w, m, first, step)
    <3> HIDE DEF m
    <3>1. QED
      BY <1>2, <2>1, <2>2, RecursionUpTo
  <2>4. w[0] = first /\ \A k \in 1 .. m : w[k] = next(w[k - 1], sizes)
    <3>1. w[0] = first /\ \A k \in 1 .. m : w[k] = step[k][w[k - 1]]
      BY <2>3 DEF Follows
    <3>2. \A k \in 1 .. m : w[k - 1] \in S
      BY <2>1, <2>3
    <3>3. QED
      BY <2>2, <3>1, <3>2
  <2>5. Is([k \in 1 .. N |-> w[k - 1]])
    <3> DEFINE f == [k \in 1 .. N |-> w[k - 1]]
    <3>1. ASSUME NEW k \in 1 .. N PROVE f[k] = IF k = 1 THEN first ELSE next(f[k - 1], sizes)
      <4>1. CASE k = 1
        BY <2>4, <4>1
      <4>2. CASE k # 1
        <5>1. k - 1 \in 1 .. m /\ k - 1 \in 1 .. N
          BY <1>1, <4>2
        <5>2. f[k] = w[k - 1] /\ f[k - 1] = w[(k - 1) - 1]
          BY <5>1
        <5>3. w[k - 1] = next(w[(k - 1) - 1], sizes)
          BY <2>4, <5>1
        <5>4. QED
          BY <4>2, <5>2, <5>3
      <4>3. QED
        BY <4>1, <4>2
    <3>2. QED
      BY <3>1
  <2>6. Is(G)
    <3> HIDE DEF Is
    <3>1. QED
      BY <2>5
  <2> HIDE DEF G
  <2> DEFINE h == [k \in 1 .. N |-> IF k = 1 THEN first ELSE next(G[k - 1], sizes)]
  <2>7. h[1] = first /\ (\A k \in 1 .. m : h[k + 1] = next(G[(k + 1) - 1], sizes)) /\ DOMAIN h = 1 .. N
    BY <1>1, <1>6
  <2>8. G = h
    BY <2>6
  <2> HIDE DEF h
  <2>9. DOMAIN G = 1 .. N /\ G[1] = first /\ \A k \in 1 .. m : G[k + 1] = next(G[k], sizes)
    <3>1. \A k \in 1 .. m : (k + 1) - 1 = k
      BY <2>1
    <3>2. QED
      BY <2>7, <2>8, <3>1
  <2> DEFINE T == {k \in 1 .. N : G[k] \in S}
  <2>10. \A k \in 1 .. N : k \in T
    <3>1. 1 \in T
      BY <1>1, <1>2, <1>6, <2>9
    <3>2. ASSUME NEW k \in 1 .. N - 1, k \in T PROVE k + 1 \in T
      <4>1. k \in 1 .. m /\ k + 1 \in 1 .. N
        BY <1>1
      <4>2. G[k + 1] \in S
        BY <1>4, <2>9, <3>2, <4>1
      <4>3. QED
        BY <4>1, <4>2
    <3> HIDE DEF T
    <3>3. QED
      BY <1>1, <3>1, <3>2, UpTo
  <2>11. G \in Seq(S) /\ Len(G) = N
    <3>1. G = [k \in 1 .. N |-> G[k]]
      BY <2>7, <2>8 DEF h
    <3>2. \A k \in 1 .. N : G[k] \in S
      BY <2>10
    <3>3. G \in [1 .. N -> S]
      BY <3>1, <3>2
    <3>4. G \in Seq(S)
      BY <1>1, <3>3, SeqDef
    <3>5. Len(G) \in Nat /\ DOMAIN G = 1 .. Len(G)
      BY <3>4, LenProperties
    <3>6. QED
      BY <1>1, <2>9, <3>4, <3>5
  <2>12. QED
    BY <1>1, <1>2, <1>3, <2>9, <2>11 DEF S, N, n
<1>7. QED
  BY <1>5, <1>6

-----------------------------------------------------------------------------
(* The odometer and the product number the type configurations alike       *)

\* The sizes of the axes from the a-th on.
Behind(sizes, a) == [p \in 1 .. Len(sizes) - a + 1 |-> sizes[a + p - 1]]

LEMMA BehindIs ==
  ASSUME NEW n \in Nat, NEW sizes \in Tuples(n)
  PROVE  /\ Behind(sizes, 1) = sizes
         /\ \A a \in 1 .. n + 1 : Behind(sizes, a) \in Tuples(n + 1 - a)
         /\ \A a \in 1 .. n : Behind(sizes, a) = Cons(sizes[a], Behind(sizes, a + 1))
<1>1. Len(sizes) = n
  BY TupleIs
<1>2. Behind(sizes, 1) = sizes
  BY <1>1 DEF Behind, Tuples
<1>3. ASSUME NEW a \in 1 .. n + 1 PROVE Behind(sizes, a) \in Tuples(n + 1 - a)
  <2>1. \A p \in 1 .. n - a + 1 : a + p - 1 \in 1 .. n /\ sizes[a + p - 1] \in Nat
    BY DEF Tuples
  <2>2. n - a + 1 = n + 1 - a
    OBVIOUS
  <2>3. QED
    BY <1>1, <2>1, <2>2 DEF Behind, Tuples
<1>4. ASSUME NEW a \in 1 .. n PROVE Behind(sizes, a) = Cons(sizes[a], Behind(sizes, a + 1))
  <2> DEFINE m == n - a
             b == Behind(sizes, a)
             r == Behind(sizes, a + 1)
             c == Cons(sizes[a], r)
  <2>1. m \in Nat /\ sizes[a] \in Nat /\ b \in Tuples(m + 1) /\ r \in Tuples(m)
    <3>1. n + 1 - a = m + 1 /\ n + 1 - (a + 1) = m /\ m \in Nat /\ a \in 1 .. n + 1
          /\ a + 1 \in 1 .. n + 1
      OBVIOUS
    <3>2. sizes[a] \in Nat
      BY DEF Tuples
    <3>3. b \in Tuples(n + 1 - a) /\ r \in Tuples(n + 1 - (a + 1))
      BY <1>3, <3>1
    <3>4. QED
      BY <3>1, <3>2, <3>3
  <2>2. b[1] = sizes[a] /\ \A p \in 1 .. m : b[p + 1] = sizes[a + p] /\ r[p] = sizes[a + p]
    <3>1. b[1] = sizes[a + 1 - 1] /\ a + 1 - 1 = a
      BY <1>1 DEF Behind
    <3>2. ASSUME NEW p \in 1 .. m PROVE b[p + 1] = sizes[a + p] /\ r[p] = sizes[a + p]
      <4>1. p + 1 \in 1 .. n - a + 1 /\ p \in 1 .. n - (a + 1) + 1
            /\ a + (p + 1) - 1 = a + p /\ (a + 1) + p - 1 = a + p
        OBVIOUS
      <4>2. b[p + 1] = sizes[a + (p + 1) - 1] /\ r[p] = sizes[(a + 1) + p - 1]
        BY <1>1, <4>1 DEF Behind
      <4>3. QED
        BY <4>1, <4>2
    <3>3. QED
      BY <3>1, <3>2
  <2> HIDE DEF m, b, r
  <2>3. Longer(c, sizes[a], r, m)
    BY <2>1, ConsIs
  <2> HIDE DEF c
  <2>4. c \in Tuples(m + 1) /\ b[1] = c[1] /\ \A p \in 1 .. m : b[p + 1] = c[p + 1]
    BY <2>2, <2>3 DEF Longer
  <2>5. b = c
    BY <2>1, <2>4, SameTuple
  <2>6. QED
    BY <2>5 DEF b, c, r
<1>5. QED
  BY <1>2, <1>3, <1>4

\* cartesian_product is the first of the lists G[a] of the configurations of the
\* axes from the a-th on.
LEMMA ProductSteps ==
  ASSUME NEW sizes \in Seq(Nat)
  PROVE  \E G : /\ cartesian_product(sizes) = G[1]
                /\ G[Len(sizes) + 1] = << << >> >>
                /\ \A a \in 1 .. Len(sizes) :
                     G[a] = FlattenSeq([v \in 1 .. sizes[a] |-> prepend_each(v - 1, G[a + 1])])
<1> DEFINE n == Len(sizes)
           U == Seq(Seq(Nat))
           none == << << >> >>
           Block(v, Q) == prepend_each(v - 1, Q)
           Row(a, Q) == FlattenSeq([v \in 1 .. sizes[a] |-> Block(v, Q)])
           Is(f) == f = [a \in 1 .. n + 1 |-> IF a > n THEN none ELSE Row(a, f[a + 1])]
           G == CHOOSE f : Is(f)
<1>1. n \in Nat /\ sizes \in Tuples(n) /\ \A i \in 1 .. n : sizes[i] \in Nat
  BY LenProperties DEF Tuples
<1>2. cartesian_product(sizes) = G[1]
  BY DEF cartesian_product
<1>3. \A a \in 1 .. n, Q \in U : Row(a, Q) \in U
  <2> SUFFICES ASSUME NEW a \in 1 .. n, NEW Q \in U PROVE Row(a, Q) \in U
    OBVIOUS
  <2>1. \A v \in 1 .. sizes[a] : Block(v, Q) \in Seq(Seq(Nat))
    <3> TAKE v \in 1 .. sizes[a]
    <3>1. \A c \in 1 .. Len(Q) : <<v - 1>> \o Q[c] \in Seq(Nat)
      <4> TAKE c \in 1 .. Len(Q)
      <4>1. Q[c] \in Seq(Nat) /\ <<v - 1>> \in Seq(Nat)
        BY <1>1, ElementOfSeq
      <4>2. QED
        BY <4>1, ConcatProperties
    <3>2. DOMAIN Q = 1 .. Len(Q) /\ Len(Q) \in Nat
      BY LenProperties
    <3>3. QED
      BY <3>1, <3>2 DEF prepend_each
  <2>2. [v \in 1 .. sizes[a] |-> Block(v, Q)] \in Seq(Seq(Seq(Nat)))
    <3> DEFINE V == Seq(Seq(Nat))
               m == sizes[a]
    <3>1. m \in Nat /\ \A v \in 1 .. m : Block(v, Q) \in V
      BY <1>1, <2>1
    <3> HIDE DEF Block, V, m
    <3>2. [v \in 1 .. m |-> Block(v, Q)] \in Seq(V)
      BY <3>1
    <3>3. QED
      BY <3>2 DEF V, m
  <2> HIDE DEF Block
  <2>3. QED
    BY <2>2, FlattenType
<1>4. none \in U
  OBVIOUS
<1> DEFINE step == [i \in 1 .. n |-> [Q \in U |-> Row(n + 1 - i, Q)]]
<1> HIDE DEF U, none, Row
<1>5. step \in Recursions(n, U) /\ \A i \in 1 .. n, Q \in U : step[i][Q] = Row(n + 1 - i, Q)
  <2>1. \A i \in 1 .. n : n + 1 - i \in 1 .. n
    BY <1>1
  <2>2. QED
    BY <1>3, <2>1 DEF Recursions
<1> HIDE DEF step, n
<1>6. PICK g \in [0 .. n -> U] : Follows(g, n, none, step)
  BY <1>1, <1>4, <1>5, RecursionUpTo
<1>7. g[0] = none /\ \A i \in 1 .. n : g[i] = Row(n + 1 - i, g[i - 1])
  <2>1. g[0] = none /\ \A i \in 1 .. n : g[i] = step[i][g[i - 1]]
    BY <1>6 DEF Follows
  <2>2. \A i \in 1 .. n : g[i - 1] \in U
    BY <1>1, <1>6
  <2>3. QED
    BY <1>5, <2>1, <2>2
<1>8. Is([a \in 1 .. n + 1 |-> g[n + 1 - a]])
  <2> DEFINE f == [a \in 1 .. n + 1 |-> g[n + 1 - a]]
  <2>1. ASSUME NEW a \in 1 .. n + 1 PROVE f[a] = IF a > n THEN none ELSE Row(a, f[a + 1])
    <3>1. CASE a > n
      <4>1. n + 1 - a = 0
        BY <1>1, <3>1
      <4>2. QED
        BY <1>7, <3>1, <4>1
    <3>2. CASE ~(a > n)
      <4>1. n + 1 - a \in 1 .. n /\ n + 1 - (n + 1 - a) = a /\ (n + 1 - a) - 1 = n + 1 - (a + 1)
            /\ a + 1 \in 1 .. n + 1
        BY <1>1, <3>2
      <4>2. f[a] = g[n + 1 - a] /\ f[a + 1] = g[n + 1 - (a + 1)]
        BY <4>1
      <4>3. g[n + 1 - a] = Row(n + 1 - (n + 1 - a), g[(n + 1 - a) - 1])
        BY <1>7, <4>1
      <4>4. QED
        BY <3>2, <4>1, <4>2, <4>3
    <3>3. QED
      BY <3>1, <3>2
  <2>2. QED
    BY <2>1
<1>9. Is(G)
  <2> HIDE DEF Is
  <2>1. QED
    BY <1>8
<1> HIDE DEF G
<1>10. G[n + 1] = none /\ \A a \in 1 .. n : G[a] = Row(a, G[a + 1])
  <2> DEFINE h == [a \in 1 .. n + 1 |-> IF a > n THEN none ELSE Row(a, G[a + 1])]
  <2>1. h[n + 1] = none /\ \A a \in 1 .. n : h[a] = Row(a, G[a + 1])
    BY <1>1
  <2>2. G = h
    BY <1>9
  <2> HIDE DEF h
  <2>3. QED
    BY <2>1, <2>2
<1>11. QED
  BY <1>2, <1>10 DEF Row, Block, n, none

\* cartesian_product lists the tuples below the sizes in order, as many as the
\* odometer has.
LEMMA ProductIs ==
  ASSUME NEW sizes \in Seq(Nat)
  PROVE  /\ Complete(cartesian_product(sizes), sizes, Len(sizes))
         /\ Len(cartesian_product(sizes)) = get_number_of_states(Reverse(sizes))
<1> DEFINE n == Len(sizes)
           none == << << >> >>
<1>1. n \in Nat /\ sizes \in Tuples(n) /\ \A i \in 1 .. n : sizes[i] \in Nat
  BY LenProperties DEF Tuples
<1>10. PICK G : /\ cartesian_product(sizes) = G[1] /\ G[n + 1] = none
                /\ \A a \in 1 .. n :
                     G[a] = FlattenSeq([v \in 1 .. sizes[a] |-> prepend_each(v - 1, G[a + 1])])
  BY ProductSteps
<1> HIDE DEF n, none
<1> DEFINE rs == Reverse(sizes)
<1>11. rs \in Seq(Nat) /\ Len(rs) = n /\ \A i \in 1 .. n : rs[i] = sizes[n - i + 1]
  BY ReverseIs DEF n
<1> HIDE DEF rs
<1>12. PICK w \in [0 .. n -> Nat] :
          /\ w[0] = 1 /\ get_number_of_states(rs) = w[n]
          /\ \A i \in 1 .. n : w[i] = w[i - 1] * rs[i]
  BY <1>11, NumberOfStates
<1> DEFINE T == {i \in 0 .. n : /\ Complete(G[n + 1 - i], Behind(sizes, n + 1 - i), i)
                                /\ Len(G[n + 1 - i]) = w[i]}
<1>13. 0 \in T
  <2> DEFINE t == Behind(sizes, n + 1)
  <2>1. n + 1 - 0 = n + 1 /\ 0 \in 0 .. n
    BY <1>1
  <2>2. t \in Tuples(0)
    <3>1. n + 1 \in 1 .. n + 1 /\ n + 1 - (n + 1) = 0
      BY <1>1
    <3>2. t \in Tuples(n + 1 - (n + 1))
      BY <1>1, <3>1, BehindIs
    <3>3. QED
      BY <3>1, <3>2
  <2>3. t \in Seq(Nat) /\ Len(t) = 0
    BY <2>2, TupleIs
  <2> HIDE DEF t
  <2>4. none \in Seq(Tuples(0)) /\ Len(none) = 1 /\ none[1] = << >>
    BY DEF none, Tuples
  <2>5. Low(t) = << >> /\ High(t) = << >>
    BY <2>3 DEF Low, High
  <2>6. Climbs(none, 1, Low(t), High(t), t)
    BY <2>4, <2>5 DEF Climbs
  <2>7. Complete(none, t, 0)
    BY <2>4, <2>6 DEF Complete, Positive
  <2>8. QED
    BY <1>10, <1>12, <2>1, <2>4, <2>7 DEF t
<1>14. ASSUME NEW i \in 0 .. n - 1, i \in T PROVE i + 1 \in T
  <2> DEFINE a == n + 1 - (i + 1)
             Q == G[a + 1]
             t == Behind(sizes, a + 1)
             m == sizes[a]
             R == FlattenSeq([v \in 1 .. m |-> prepend_each(v - 1, Q)])
  <2>1. a \in 1 .. n /\ a + 1 = n + 1 - i /\ n - (i + 1) + 1 = a /\ i \in Nat
        /\ a + 1 \in 1 .. n + 1 /\ n + 1 - (a + 1) = i /\ i + 1 \in 0 .. n /\ i + 1 \in 1 .. n
        /\ (i + 1) - 1 = i
    BY <1>1
  <2>2. Complete(Q, t, i) /\ Len(Q) = w[i]
    BY <1>14, <2>1
  <2>3. t \in Tuples(i) /\ m \in Nat /\ Behind(sizes, a) = Cons(m, t)
    <3>1. t \in Tuples(n + 1 - (a + 1)) /\ Behind(sizes, a) = Cons(m, t)
      BY <1>1, <2>1, BehindIs
    <3>2. QED
      BY <1>1, <2>1, <3>1
  <2>4. G[a] = R
    BY <1>10, <2>1
  <2>5. w[i + 1] = w[i] * m
    <3>1. rs[i + 1] = sizes[n - (i + 1) + 1]
      BY <1>11, <2>1
    <3>2. w[i + 1] = w[(i + 1) - 1] * rs[i + 1]
      BY <1>12, <2>1
    <3>3. QED
      BY <2>1, <3>1, <3>2
  <2>6. w[i] * m = m * w[i]
    <3>1. i \in 0 .. n
      BY <1>1
    <3>2. w[i] \in Nat
      BY <1>12, <3>1
    <3>3. \A x, y \in Nat : x * y = y * x
      OBVIOUS
    <3>4. QED
      BY <2>3, <3>2, <3>3
  <2> HIDE DEF m, t, Q, a
  <2>7. Complete(R, Cons(m, t), i + 1) /\ Len(R) = m * Len(Q)
    BY <2>1, <2>2, <2>3, ProductStep
  <2> HIDE DEF R
  <2>8. Complete(G[a], Behind(sizes, a), i + 1) /\ Len(G[a]) = w[i + 1]
    BY <2>2, <2>3, <2>4, <2>5, <2>6, <2>7
  <2>9. QED
    BY <2>1, <2>8 DEF a
<1> HIDE DEF T
<1>15. n \in T
  <2>1. \A i \in 0 .. n : i \in T
    BY <1>1, <1>13, <1>14, FromZero
  <2>2. QED
    BY <1>1, <2>1
<1>16. Complete(G[1], Behind(sizes, 1), n) /\ Len(G[1]) = w[n]
  <2>1. n + 1 - n = 1
    BY <1>1
  <2>2. QED
    BY <1>15, <2>1 DEF T
<1>17. Behind(sizes, 1) = sizes
  BY <1>1, BehindIs
<1>18. QED
  BY <1>10, <1>12, <1>16, <1>17 DEF n, rs

LEMMA ReverseTuple ==
  ASSUME NEW n \in Nat, NEW u \in Tuples(n)
  PROVE  /\ Reverse(u) \in Tuples(n) /\ Len(Reverse(u)) = n
         /\ \A p \in 1 .. n : Reverse(u)[p] = u[n - p + 1]
         /\ Reverse(Reverse(u)) = u
<1>1. u \in Seq(Nat) /\ Len(u) = n
  BY TupleIs
<1> DEFINE r == Reverse(u)
           rr == Reverse(r)
<1>2. r \in Seq(Nat) /\ Len(r) = n /\ \A p \in 1 .. n : r[p] = u[n - p + 1]
  BY <1>1, ReverseIs
<1>3. r \in Tuples(n)
  BY <1>2, LenProperties DEF Tuples
<1> HIDE DEF r
<1>4. rr \in Seq(Nat) /\ Len(rr) = n /\ \A p \in 1 .. n : rr[p] = r[n - p + 1]
  BY <1>2, ReverseIs
<1> HIDE DEF rr
<1>5. rr = u
  <2>1. rr \in Tuples(n)
    BY <1>4, LenProperties DEF Tuples
  <2>2. \A p \in 1 .. n : rr[p] = u[p]
    <3> TAKE p \in 1 .. n
    <3>1. n - p + 1 \in 1 .. n /\ n - (n - p + 1) + 1 = p
      OBVIOUS
    <3>2. rr[p] = r[n - p + 1] /\ r[n - p + 1] = u[n - (n - p + 1) + 1]
      BY <1>2, <1>4, <3>1
    <3>3. QED
      BY <3>1, <3>2
  <2>3. QED
    BY <2>1, <2>2 DEF Tuples
<1>6. QED
  BY <1>2, <1>3, <1>5 DEF r, rr

\* One turn of the odometer, seen from the other side.
LEMMA ReverseNext ==
  ASSUME NEW n \in Nat, NEW sizes \in Tuples(n), NEW u \in Tuples(n)
  PROVE  Reverse(next(u, Reverse(sizes))) = Bump(Reverse(u), sizes)
<1> DEFINE rs == Reverse(sizes)
           x == next(u, rs)
           rx == Reverse(x)
           r == Reverse(u)
           b == Bump(r, sizes)
<1>1. rs \in Tuples(n) /\ \A p \in 1 .. n : rs[p] = sizes[n - p + 1]
  BY ReverseTuple
<1>2. r \in Tuples(n) /\ \A p \in 1 .. n : r[p] = u[n - p + 1]
  BY ReverseTuple
<1>3. /\ x \in Tuples(n)
      /\ \A p \in 1 .. n : x[p] = IF \E q \in 1 .. p - 1 : u[q] + 1 < rs[q] THEN u[p]
                                  ELSE IF u[p] + 1 < rs[p] THEN u[p] + 1 ELSE 0
  BY NextIs
<1>4. Len(sizes) = n
  BY TupleIs
<1>5. /\ b \in Tuples(n)
      /\ \A p \in 1 .. n : b[p] = IF \E q \in p + 1 .. n : r[q] + 1 < sizes[q] THEN r[p]
                                  ELSE IF r[p] + 1 < sizes[p] THEN r[p] + 1 ELSE 0
  <2> HIDE DEF r
  <2>1. QED
    BY <1>2, <1>4 DEF Bump, Tuples
<1> HIDE DEF x
<1>6. rx \in Tuples(n) /\ \A p \in 1 .. n : rx[p] = x[n - p + 1]
  BY <1>3, ReverseTuple
<1> HIDE DEF rs, r, rx, b
<1>7. ASSUME NEW p \in 1 .. n PROVE rx[p] = b[p]
  <2> DEFINE m == n - p + 1
  <2>1. m \in 1 .. n /\ n - m + 1 = p /\ m - 1 = n - p
    OBVIOUS
  <2>2. u[m] = r[p] /\ rs[m] = sizes[p]
    BY <1>1, <1>2, <2>1
  <2>3. (\E q \in 1 .. m - 1 : u[q] + 1 < rs[q]) <=> \E q \in p + 1 .. n : r[q] + 1 < sizes[q]
    <3>1. ASSUME NEW q \in 1 .. m - 1, u[q] + 1 < rs[q]
          PROVE  \E i \in p + 1 .. n : r[i] + 1 < sizes[i]
      <4>1. n - q + 1 \in p + 1 .. n /\ n - q + 1 \in 1 .. n /\ n - (n - q + 1) + 1 = q
            /\ q \in 1 .. n
        BY <2>1
      <4>2. r[n - q + 1] = u[q] /\ rs[q] = sizes[n - q + 1]
        BY <1>1, <1>2, <4>1
      <4>3. QED
        BY <3>1, <4>1, <4>2
    <3>2. ASSUME NEW q \in p + 1 .. n, r[q] + 1 < sizes[q]
          PROVE  \E i \in 1 .. m - 1 : u[i] + 1 < rs[i]
      <4>1. n - q + 1 \in 1 .. m - 1 /\ n - q + 1 \in 1 .. n /\ n - (n - q + 1) + 1 = q
            /\ q \in 1 .. n
        BY <2>1
      <4>2. r[q] = u[n - q + 1] /\ rs[n - q + 1] = sizes[q]
        BY <1>1, <1>2, <4>1
      <4>3. QED
        BY <3>2, <4>1, <4>2
    <3>3. QED
      BY <3>1, <3>2
  <2>4. rx[p] = x[m]
    BY <1>6
  <2> HIDE DEF m
  <2>5. x[m] = IF \E q \in 1 .. m - 1 : u[q] + 1 < rs[q] THEN u[m]
               ELSE IF u[m] + 1 < rs[m] THEN u[m] + 1 ELSE 0
    BY <1>3, <2>1
  <2>6. b[p] = IF \E q \in p + 1 .. n : r[q] + 1 < sizes[q] THEN r[p]
               ELSE IF r[p] + 1 < sizes[p] THEN r[p] + 1 ELSE 0
    BY <1>5
  <2>7. QED
    BY <2>2, <2>3, <2>4, <2>5, <2>6
<1>8. rx = b
  BY <1>5, <1>6, <1>7 DEF Tuples
<1>9. QED
  BY <1>8 DEF rx, x, rs, b, r

\* The turns of the odometer over the reversed axes, each reversed, are the
\* tuples of the product in its order.
LEMMA OdometerIsProduct ==
  ASSUME NEW sizes \in Seq(Nat)
  PROVE  /\ Enumeration(Reverse(sizes)) \in Seq(Tuples(Len(sizes)))
         /\ Len(Enumeration(Reverse(sizes))) = Len(cartesian_product(sizes))
         /\ \A k \in 1 .. Len(cartesian_product(sizes)) :
              Reverse(Enumeration(Reverse(sizes))[k]) = cartesian_product(sizes)[k]
<1> DEFINE n == Len(sizes)
           rs == Reverse(sizes)
           N == get_number_of_states(rs)
           E == Enumeration(rs)
           P == cartesian_product(sizes)
<1>1. n \in Nat /\ sizes \in Tuples(n)
  BY LenProperties DEF Tuples
<1> HIDE DEF n
<1>2. rs \in Seq(Nat) /\ Len(rs) = n /\ rs \in Tuples(n)
  BY <1>1, ReverseIs, ReverseTuple DEF n
<1> HIDE DEF rs
<1>3. /\ N \in Nat /\ E \in Seq(Tuples(n)) /\ Len(E) = N
      /\ N # 0 => E[1] = Low(rs)
      /\ \A k \in 1 .. N - 1 : E[k + 1] = next(E[k], rs)
  BY <1>2, EnumerationIs
<1>4. Complete(P, sizes, n) /\ Len(P) = N
  BY ProductIs DEF n, rs
<1>5. N # 0 => /\ P[1] = Low(sizes)
               /\ \A k \in 1 .. N - 1 : P[k + 1] = Bump(P[k], sizes)
  BY <1>4 DEF Complete, Climbs
<1> HIDE DEF N, E, P
<1> DEFINE T == {k \in 1 .. N : Reverse(E[k]) = P[k]}
<1>6. CASE N = 0
  BY <1>3, <1>4, <1>6 DEF E, P, N, n, rs
<1>7. CASE N # 0
  <2>1. 1 \in T
    <3> DEFINE z == Low(rs)
               rz == Reverse(z)
               l == Low(sizes)
    <3>1. z \in Tuples(n) /\ \A p \in 1 .. n : z[p] = 0
      BY <1>1, <1>2 DEF Low, Tuples
    <3>2. Len(sizes) = n
      BY DEF n
    <3>3. l \in Tuples(n) /\ \A p \in 1 .. n : l[p] = 0
      BY <1>1, <3>2 DEF Low, Tuples
    <3> HIDE DEF z
    <3>4. rz \in Tuples(n) /\ \A p \in 1 .. n : rz[p] = z[n - p + 1]
      BY <1>1, <3>1, ReverseTuple
    <3> HIDE DEF rz, l
    <3>5. \A p \in 1 .. n : rz[p] = l[p]
      <4> TAKE p \in 1 .. n
      <4>1. n - p + 1 \in 1 .. n
        BY <1>1
      <4>2. QED
        BY <3>1, <3>3, <3>4, <4>1
    <3>6. rz = l
      BY <1>1, <3>3, <3>4, <3>5, EqualTuples
    <3>7. 1 \in 1 .. N
      BY <1>3, <1>7
    <3>8. QED
      BY <1>3, <1>5, <1>7, <3>6, <3>7 DEF rz, z, l
  <2>2. ASSUME NEW k \in 1 .. N - 1, k \in T PROVE k + 1 \in T
    <3>1. k + 1 \in 1 .. N /\ k \in 1 .. N
      BY <1>3
    <3>2. E[k] \in Tuples(n)
      BY <1>3, <3>1, ElementOfSeq
    <3>3. Reverse(next(E[k], rs)) = Bump(Reverse(E[k]), sizes)
      BY <1>1, <3>2, ReverseNext DEF rs
    <3>4. E[k + 1] = next(E[k], rs) /\ P[k + 1] = Bump(P[k], sizes) /\ Reverse(E[k]) = P[k]
      BY <1>3, <1>5, <1>7, <2>2
    <3>5. QED
      BY <3>1, <3>3, <3>4
  <2> HIDE DEF T
  <2>3. \A k \in 1 .. N : k \in T
    BY <1>3, <1>7, <2>1, <2>2, UpTo
  <2>4. QED
    BY <1>3, <1>4, <2>3 DEF T, E, P, N, n, rs
<1>8. QED
  BY <1>6, <1>7

-----------------------------------------------------------------------------
(* The type configurations of a benchmark                                  *)

Wheels(bench) == Len(bench.types)

LEMMA TypeSizesIs ==
  ASSUME NEW bench \in Benchmark
  PROVE  /\ TypeSizes(bench) \in Seq(Nat) /\ Len(TypeSizes(bench)) = Wheels(bench)
         /\ Wheels(bench) \in Nat
         /\ \A a \in 1 .. Wheels(bench) : TypeSizes(bench)[a] = Len(bench.types[a])
<1> DEFINE t == bench.types
<1>1. t \in Seq(Seq(BOOLEAN))
  BY DEF Benchmark
<1> DEFINE B == Seq(BOOLEAN)
<1>2. Len(t) \in Nat /\ DOMAIN t = 1 .. Len(t) /\ \A a \in 1 .. Len(t) : t[a] \in B
  BY <1>1, LenProperties, ElementOfSeq
<1>3. \A x \in B : Len(x) \in Nat
  BY LenProperties
<1> HIDE DEF t, B
<1>4. TypeSizes(bench) = [a \in 1 .. Len(t) |-> Len(t[a])]
  BY <1>2 DEF TypeSizes, t
<1>5. QED
  BY <1>2, <1>3, <1>4 DEF Wheels, t

\* The run-time odometer and the compile-time cartesian product number the type
\* configurations alike, whatever the axes (state_generator.cxx, "this is
\* necessary to ensure that the correct states are passed to the corresponding
\* benchmark instantiations").
THEOREM ConfigsAgree ==
  ASSUME NEW bench \in Benchmark
  PROVE  /\ type_configs(bench) \in Seq(Tuples(Wheels(bench)))
         /\ Len(type_configs(bench)) \in Nat
         /\ DOMAIN m_type_axis_configs(bench) = 1 .. Len(type_configs(bench))
         /\ \A k \in 1 .. Len(type_configs(bench)) :
              m_type_axis_configs(bench)[k].values = type_configs(bench)[k]
<1> DEFINE sizes == TypeSizes(bench)
           turns == Enumeration(Reverse(sizes))
           P == cartesian_product(sizes)
           On(indices) == \A a \in DOMAIN indices : bench.types[a][indices[a] + 1]
           Config(indices) == [values |-> indices, active |-> On(indices)]
<1>1. sizes \in Seq(Nat) /\ Len(sizes) = Wheels(bench)
  BY TypeSizesIs
<1> HIDE DEF sizes
<1>2. /\ turns \in Seq(Tuples(Len(sizes))) /\ Len(turns) = Len(P)
      /\ \A k \in 1 .. Len(P) : Reverse(turns[k]) = P[k]
  BY <1>1, OdometerIsProduct
<1>3. P \in Seq(Tuples(Len(sizes)))
  BY <1>1, ProductIs DEF Complete
<1>4. Len(P) \in Nat /\ DOMAIN turns = 1 .. Len(P)
  BY <1>2, <1>3, LenProperties
<1>5. m_type_axis_configs(bench) = [k \in DOMAIN turns |-> Config(Reverse(turns[k]))]
  BY DEF m_type_axis_configs, sizes
<1> HIDE DEF turns, P, On
<1>6. type_configs(bench) = P
  BY DEF type_configs, P, sizes
<1>7. \A k \in 1 .. Len(P) : m_type_axis_configs(bench)[k].values = P[k]
  BY <1>2, <1>4, <1>5
<1>8. QED
  BY <1>1, <1>3, <1>4, <1>5, <1>6, <1>7

-----------------------------------------------------------------------------
(* The states of a benchmark                                               *)

Actives == Devices \cup {FirstDevice}

\* What a state of the benchmark is when it runs.
StateOf(bench) ==
  {s \in [types : Tuples(Wheels(bench)), others : Tuples(Len(bench.others)),
          device : Devices \cup {NoDevice}, typeConfig : Nat,
          stream : Actives \cup {NoDevice}, skipped : BOOLEAN] :
     /\ s.device \in ToSet(Passes(bench))
     /\ s.device # NoDevice => s.stream = s.device
     /\ s.typeConfig < Len(type_configs(bench))
     /\ s.types = type_configs(bench)[s.typeConfig + 1]}

LEMMA PassesIs ==
  ASSUME NEW bench \in Benchmark
  PROVE  /\ Passes(bench) \in Seq(Devices \cup {NoDevice})
         /\ Len(Passes(bench)) \in Nat \ {0}
         /\ DOMAIN Passes(bench) = 1 .. Len(Passes(bench))
         /\ ToSet(Passes(bench)) \subseteq Devices \cup {NoDevice}
<1> DEFINE D == Devices \cup {NoDevice}
<1>1. bench.devices \in Seq(D)
  <2>1. bench.devices \in Seq(Devices) /\ Devices \subseteq D
    BY DEF Benchmark
  <2> HIDE DEF D
  <2>2. QED
    BY <2>1, SeqMonotonic
<1>2. <<NoDevice>> \in Seq(D) /\ Len(<<NoDevice>>) = 1
  OBVIOUS
<1> HIDE DEF D
<1>3. Passes(bench) \in Seq(D) /\ Len(Passes(bench)) \in Nat \ {0}
  <2>1. CASE bench.devices = << >>
    BY <1>2, <2>1 DEF Passes
  <2>2. CASE bench.devices # << >>
    BY <1>1, <2>2, EmptySeq DEF Passes
  <2>3. QED
    BY <2>1, <2>2
<1>4. DOMAIN Passes(bench) = 1 .. Len(Passes(bench))
  BY <1>3, LenProperties
<1>5. ToSet(Passes(bench)) \subseteq D
  BY <1>3, <1>4, ElementOfSeq DEF ToSet
<1>6. QED
  BY <1>3, <1>4, <1>5 DEF D

LEMMA OthersIs ==
  ASSUME NEW bench \in Benchmark
  PROVE  /\ m_non_type_axis_configs(bench) \in Seq(Tuples(Len(bench.others)))
         /\ Len(m_non_type_axis_configs(bench)) \in Nat
         /\ DOMAIN m_non_type_axis_configs(bench) = 1 .. Len(m_non_type_axis_configs(bench))
<1>1. bench.others \in Seq(Nat)
  BY DEF Benchmark
<1>2. m_non_type_axis_configs(bench) \in Seq(Tuples(Len(bench.others)))
  BY <1>1, EnumerationIs DEF m_non_type_axis_configs
<1>3. QED
  BY <1>2, LenProperties

LEMMA DeviceStatesAre ==
  ASSUME NEW bench \in Benchmark, NEW device \in ToSet(Passes(bench)), NEW on \in Actives
  PROVE  StatesForDevice(bench, device, on) \in Seq(StateOf(bench))
<1> DEFINE types  == m_type_axis_configs(bench)
           others == m_non_type_axis_configs(bench)
           State(k, other) ==
             [types |-> types[k].values, others |-> other, device |-> device,
              typeConfig |-> k - 1, stream |-> Activated(on, device),
              skipped |-> FALSE]
           Row(k) == IF types[k].active
                     THEN [o \in DOMAIN others |-> State(k, others[o])]
                     ELSE <<>>
           N == Len(type_configs(bench))
           V == Seq(StateOf(bench))
<1>1. StatesForDevice(bench, device, on) = FlattenSeq([k \in DOMAIN types |-> Row(k)])
  BY DEF StatesForDevice
<1>2. /\ N \in Nat /\ DOMAIN types = 1 .. N /\ type_configs(bench) \in Seq(Tuples(Wheels(bench)))
      /\ \A k \in 1 .. N : types[k].values = type_configs(bench)[k]
  BY ConfigsAgree
<1>3. others \in Seq(Tuples(Len(bench.others))) /\ Len(others) \in Nat /\ DOMAIN others = 1 .. Len(others)
  BY OthersIs
<1> HIDE DEF N, types, others
<1>4. ASSUME NEW k \in 1 .. N, NEW o \in 1 .. Len(others)
      PROVE  State(k, others[o]) \in StateOf(bench)
  <2>1. type_configs(bench)[k] \in Tuples(Wheels(bench)) /\ others[o] \in Tuples(Len(bench.others))
    BY <1>2, <1>3, ElementOfSeq DEF N
  <2>2. k - 1 \in Nat /\ k - 1 < N /\ (k - 1) + 1 = k
    BY <1>2
  <2>3. device \in Devices \cup {NoDevice}
    BY PassesIs
  <2>4. Activated(on, device) \in Actives \cup {NoDevice} /\ (device # NoDevice => Activated(on, device) = device)
    BY <2>3 DEF Activated, Actives
  <2>5. QED
    BY <1>2, <2>1, <2>2, <2>3, <2>4 DEF StateOf, N
<1> HIDE DEF State
<1>5. \A k \in 1 .. N : Row(k) \in V
  <2> TAKE k \in 1 .. N
  <2>1. [o \in 1 .. Len(others) |-> State(k, others[o])] \in Seq(StateOf(bench))
    BY <1>3, <1>4
  <2>2. << >> \in Seq(StateOf(bench))
    BY EmptySeq
  <2>3. QED
    BY <1>3, <2>1, <2>2
<1> HIDE DEF Row, V
<1>6. [k \in 1 .. N |-> Row(k)] \in Seq(V)
  BY <1>2, <1>5
<1>7. QED
  BY <1>1, <1>2, <1>6, FlattenType DEF V

LEMMA StatesAre ==
  ASSUME NEW bench \in Benchmark, NEW on \in Actives
  PROVE  build_states(bench, on) \in Seq(StateOf(bench))
<1> DEFINE P == Passes(bench)
           V == Seq(StateOf(bench))
           Made(p) == StatesForDevice(bench, P[p], on)
<1>1. Len(P) \in Nat /\ DOMAIN P = 1 .. Len(P)
  BY PassesIs
<1>2. \A p \in 1 .. Len(P) : Made(p) \in V
  <2> TAKE p \in 1 .. Len(P)
  <2>1. P[p] \in ToSet(Passes(bench))
    BY <1>1 DEF ToSet
  <2>2. QED
    BY <2>1, DeviceStatesAre
<1>3. build_states(bench, on) = FlattenSeq([p \in 1 .. Len(P) |-> Made(p)])
  BY <1>1 DEF build_states
<1> HIDE DEF P, Made, V
<1>4. [p \in 1 .. Len(P) |-> Made(p)] \in Seq(V)
  BY <1>1, <1>2
<1>5. QED
  BY <1>3, <1>4, FlattenType DEF V

-----------------------------------------------------------------------------
(* The count of the states                                                 *)

LEMMA ConfigCountIs ==
  ASSUME NEW bench \in Benchmark
  PROVE  get_config_count(bench) \in Nat
<1> DEFINE t == bench.types
           On(mask) == {i \in DOMAIN mask : mask[i]}
           counts == [a \in DOMAIN t |-> Cardinality(On(t[a]))]
<1>1. t \in Seq(Seq(BOOLEAN)) /\ bench.others \in Seq(Nat) /\ bench.devices \in Seq(Devices)
  BY DEF Benchmark
<1>2. \A mask \in Seq(BOOLEAN) : Cardinality(On(mask)) \in Nat
  <2> TAKE mask \in Seq(BOOLEAN)
  <2>1. Len(mask) \in Nat /\ DOMAIN mask = 1 .. Len(mask)
    BY LenProperties
  <2>2. IsFiniteSet(1 .. Len(mask))
    BY <2>1, FS_Interval
  <2>3. On(mask) \subseteq 1 .. Len(mask)
    BY <2>1
  <2>4. IsFiniteSet(On(mask))
    BY <2>2, <2>3, FS_Subset
  <2>5. QED
    BY <2>4, FS_CardinalityType
<1> DEFINE B == Seq(BOOLEAN)
<1>3. Len(t) \in Nat /\ DOMAIN t = 1 .. Len(t) /\ \A a \in 1 .. Len(t) : t[a] \in B
  BY <1>1, LenProperties, ElementOfSeq
<1>4. counts \in Seq(Nat)
  <2> HIDE DEF t, On
  <2>1. \A a \in 1 .. Len(t) : Cardinality(On(t[a])) \in Nat
    BY <1>2, <1>3
  <2>2. counts = [a \in 1 .. Len(t) |-> Cardinality(On(t[a]))]
    BY <1>3
  <2> HIDE DEF counts
  <2>3. QED
    BY <1>3, <2>1, <2>2
<1>5. get_config_count(bench) = get_number_of_states(counts) * get_number_of_states(bench.others)
                                  * Len(bench.devices)
  BY DEF get_config_count
<1> HIDE DEF counts
<1>6. get_number_of_states(counts) \in Nat /\ get_number_of_states(bench.others) \in Nat
      /\ Len(bench.devices) \in Nat
  BY <1>1, <1>4, EnumerationIs, LenProperties
<1>7. \A x, y, z \in Nat : x * y * z \in Nat
  OBVIOUS
<1>8. QED
  BY <1>5, <1>6, <1>7

\* TotalConfigs is the last of the sums w[b] of the counts of the first b.
LEMMA TotalIs ==
  ASSUME NEW program \in Seq(Benchmark)
  PROVE  \E w \in [0 .. Len(program) -> Nat] :
            /\ w[0] = 0 /\ TotalConfigs(program) = w[Len(program)]
            /\ \A b \in 1 .. Len(program) : w[b] = w[b - 1] + get_config_count(program[b])
<1> DEFINE n == Len(program)
           count(b) == get_config_count(program[b])
           step == [b \in 1 .. n |-> [x \in Nat |-> x + count(b)]]
           Is(f) == f = [b \in 0 .. n |-> IF b = 0 THEN 0 ELSE f[b - 1] + count(b)]
           G == CHOOSE f : Is(f)
<1>1. n \in Nat /\ \A b \in 1 .. n : count(b) \in Nat
  BY LenProperties, ElementOfSeq, ConfigCountIs
<1>2. TotalConfigs(program) = G[n]
  BY DEF TotalConfigs
<1> HIDE DEF count
<1>3. \A b \in 1 .. n, x \in Nat : x + count(b) \in Nat
  BY <1>1
<1>4. step \in Recursions(n, Nat) /\ \A b \in 1 .. n, x \in Nat : step[b][x] = x + count(b)
  BY <1>3 DEF Recursions
<1> HIDE DEF step, n
<1>5. PICK w \in [0 .. n -> Nat] : Follows(w, n, 0, step)
  <2>1. 0 \in Nat
    OBVIOUS
  <2>2. QED
    BY <1>1, <1>4, <2>1, RecursionUpTo
<1>6. w[0] = 0 /\ \A b \in 1 .. n : w[b] = w[b - 1] + count(b)
  <2>1. w[0] = 0 /\ \A b \in 1 .. n : w[b] = step[b][w[b - 1]]
    BY <1>5 DEF Follows
  <2>2. \A b \in 1 .. n : w[b - 1] \in Nat
    BY <1>1, <1>5
  <2>3. QED
    BY <1>4, <2>1, <2>2
<1>7. Is(w)
  <2>1. \A b \in 0 .. n : w[b] = IF b = 0 THEN 0 ELSE w[b - 1] + count(b)
    BY <1>1, <1>6
  <2>2. QED
    BY <1>5, <2>1
<1>8. Is(G)
  <2> HIDE DEF Is
  <2>1. QED
    BY <1>7
<1> HIDE DEF G
<1>9. G[0] = 0 /\ \A b \in 1 .. n : G[b] = G[b - 1] + count(b)
  <2> DEFINE h == [b \in 0 .. n |-> IF b = 0 THEN 0 ELSE G[b - 1] + count(b)]
  <2>1. h[0] = 0 /\ \A b \in 1 .. n : h[b] = G[b - 1] + count(b)
    BY <1>1
  <2>2. G = h
    BY <1>8
  <2> HIDE DEF h
  <2>3. QED
    BY <2>1, <2>2
<1>10. G[n] = w[n]
  <2> DEFINE T == {b \in 0 .. n : G[b] = w[b]}
  <2>1. 0 \in T
    BY <1>1, <1>6, <1>9
  <2>2. ASSUME NEW b \in 0 .. n - 1, b \in T PROVE b + 1 \in T
    <3>1. b + 1 \in 1 .. n /\ b + 1 \in 0 .. n /\ (b + 1) - 1 = b
      BY <1>1
    <3>2. G[b + 1] = G[b] + count(b + 1) /\ w[b + 1] = w[b] + count(b + 1)
      BY <1>6, <1>9, <3>1
    <3>3. G[b + 1] = w[b + 1]
      BY <2>2, <3>2
    <3>4. QED
      BY <3>1, <3>3
  <2> HIDE DEF T
  <2>3. \A b \in 0 .. n : b \in T
    BY <1>1, <2>1, <2>2, FromZero
  <2>4. QED
    BY <1>1, <2>3 DEF T
<1>11. QED
  BY <1>2, <1>6, <1>10 DEF n, count

-----------------------------------------------------------------------------
(* The invariant                                                           *)

\* Where the loops are, and what is active there.
Placed ==
  /\ active \in Actives
  /\ point = "main" <=> current = 0
  /\ point \in {"device", "scan", "running"} => current \in DOMAIN benchmarks
  /\ point \in {"scan", "running"} =>
       /\ pass \in DOMAIN Passes(Bench)
       /\ typeConfig <= Len(type_configs(Bench))
       /\ Passes(Bench)[pass] # NoDevice => active = Passes(Bench)[pass]
  /\ point = "running" =>
       /\ typeConfig < Len(type_configs(Bench))
       /\ cursor \in DOMAIN states[current] /\ Selected

Listed ==
  /\ states = [b \in DOMAIN benchmarks |-> states[b]]
  /\ \A b \in DOMAIN benchmarks : states[b] \in Seq(StateOf(benchmarks[b]))

Calls(bench) == [state : Nat, types : Tuples(Wheels(bench))]

\* The calls of a generator: of its own states, for their own types.
Called ==
  /\ runs = [b \in DOMAIN benchmarks |-> runs[b]]
  /\ \A b \in DOMAIN benchmarks :
       /\ runs[b] \in Seq(Calls(benchmarks[b]))
       /\ \A r \in DOMAIN runs[b] :
            /\ runs[b][r].state \in DOMAIN states[b]
            /\ runs[b][r].types = states[b][runs[b][r].state].types
       /\ b > current \/ (b = current /\ point = "benchmark") => runs[b] = << >>

RunnerInv == TypeOK /\ Placed /\ Listed /\ Called

LEMMA ProgramIs ==
  ASSUME TypeOK
  PROVE  /\ benchmarks \in Seq(Benchmark)
         /\ DOMAIN benchmarks = 1 .. Len(benchmarks) /\ Len(benchmarks) \in Nat
         /\ \A b \in DOMAIN benchmarks : benchmarks[b] \in Benchmark
<1>1. benchmarks \in Seq(Benchmark)
  BY ProgramsAssumption DEF TypeOK
<1>2. QED
  BY <1>1, LenProperties, ElementOfSeq

LEMMA InitHolds == Init => RunnerInv
<1> SUFFICES ASSUME Init PROVE RunnerInv
  OBVIOUS
<1>1. benchmarks \in Seq(Benchmark) /\ benchmarks \in Programs
  BY ProgramsAssumption DEF Init
<1>2. Len(benchmarks) \in Nat /\ DOMAIN benchmarks = 1 .. Len(benchmarks)
  BY <1>1, LenProperties
<1>3. TypeOK
  BY <1>1, <1>2 DEF Init, TypeOK
<1>4. Placed
  BY DEF Init, Placed, Actives
<1>5. Listed
  BY <1>1, EmptySeq DEF Init, Listed
<1>6. Called
  <2>1. \A b \in DOMAIN benchmarks : runs[b] = << >>
    BY DEF Init
  <2>2. DOMAIN << >> = {}
    OBVIOUS
  <2>3. \A b \in DOMAIN benchmarks : << >> \in Seq(Calls(benchmarks[b]))
    BY EmptySeq
  <2>4. runs = [b \in DOMAIN benchmarks |-> runs[b]]
    BY DEF Init
  <2>5. QED
    BY <2>1, <2>2, <2>3, <2>4 DEF Called
<1>7. QED
  BY <1>3, <1>4, <1>5, <1>6 DEF RunnerInv

LEMMA GenerateStatesKeeps ==
  ASSUME RunnerInv, GenerateStates
  PROVE  RunnerInv'
<1> USE DEF GenerateStates, progress
<1>1. /\ benchmarks \in Seq(Benchmark) /\ DOMAIN benchmarks = 1 .. Len(benchmarks)
      /\ Len(benchmarks) \in Nat /\ current \in DOMAIN benchmarks /\ Bench \in Benchmark
  <2>1. /\ benchmarks \in Seq(Benchmark) /\ DOMAIN benchmarks = 1 .. Len(benchmarks)
        /\ Len(benchmarks) \in Nat /\ \A b \in DOMAIN benchmarks : benchmarks[b] \in Benchmark
    BY ProgramIs DEF RunnerInv
  <2>2. current \in DOMAIN benchmarks
    BY <2>1 DEF RunnerInv, TypeOK, Placed
  <2>3. QED
    BY <2>1, <2>2 DEF Bench
<1> DEFINE new == build_states(Bench, active)
<1>2. new \in Seq(StateOf(Bench))
  BY <1>1, StatesAre DEF RunnerInv, Placed
<1> HIDE DEF new
<1>3. /\ states' = [b \in DOMAIN benchmarks |-> states'[b]] /\ states'[current] = new
      /\ \A b \in DOMAIN benchmarks : b # current => states'[b] = states[b]
  BY <1>1 DEF RunnerInv, Listed, new
<1>4. active' \in Actives
  <2>1. CASE new = << >>
    BY <1>3, <2>1 DEF RunnerInv, Placed
  <2>2. CASE new # << >>
    <3>1. Len(new) \in 1 .. Len(new) /\ Last(new) = new[Len(new)]
      BY <1>2, <2>2, EmptySeq DEF Last
    <3>2. Last(new) \in StateOf(Bench)
      BY <1>2, <3>1, ElementOfSeq
    <3>3. Last(new).device \in Devices \cup {NoDevice}
      BY <3>2 DEF StateOf
    <3>4. active' = Activated(active, Last(new).device)
      BY <1>3, <2>2
    <3>5. active \in Actives
      BY DEF RunnerInv, Placed
    <3>6. QED
      BY <3>3, <3>4, <3>5 DEF Activated, Actives
  <2>3. QED
    BY <2>1, <2>2
<1>5. TypeOK'
  BY <1>3 DEF RunnerInv, TypeOK
<1>6. Placed'
  BY <1>1, <1>4 DEF RunnerInv, Placed
<1>7. Listed'
  BY <1>2, <1>3 DEF RunnerInv, Listed, Bench
<1>8. Called'
  <2>1. runs[current] = << >> /\ DOMAIN << >> = {}
    BY <1>1 DEF RunnerInv, Called
  <2>2. QED
    BY <1>1, <1>3, <2>1 DEF RunnerInv, Called
<1>9. QED
  BY <1>5, <1>6, <1>7, <1>8 DEF RunnerInv

LEMMA RunStateKeeps ==
  ASSUME RunnerInv, RunState
  PROVE  RunnerInv'
<1> USE DEF RunState, loop, progress
<1> DEFINE call == [state |-> cursor, types |-> type_configs(Bench)[typeConfig + 1]]
<1>1. /\ DOMAIN benchmarks = 1 .. Len(benchmarks)
      /\ Len(benchmarks) \in Nat /\ current \in DOMAIN benchmarks /\ Bench \in Benchmark
  <2>1. /\ DOMAIN benchmarks = 1 .. Len(benchmarks)
        /\ Len(benchmarks) \in Nat /\ \A b \in DOMAIN benchmarks : benchmarks[b] \in Benchmark
    BY ProgramIs DEF RunnerInv
  <2>2. current \in DOMAIN benchmarks
    BY DEF RunnerInv, Placed, InTypeConfig
  <2>3. QED
    BY <2>1, <2>2 DEF Bench
<1>2. states[current] \in Seq(StateOf(Bench)) /\ cursor \in DOMAIN states[current]
      /\ CurState \in StateOf(Bench)
  <2>1. states[current] \in Seq(StateOf(Bench))
    BY <1>1 DEF RunnerInv, Listed, Bench
  <2>2. cursor \in 1 .. Len(states[current]) /\ DOMAIN states[current] = 1 .. Len(states[current])
    BY <2>1, LenProperties DEF RunnerInv, TypeOK
  <2>3. QED
    BY <2>1, <2>2, ElementOfSeq DEF CurState
<1>3. call.types = CurState.types /\ call.state = cursor /\ call \in Calls(Bench)
  <2>1. CurState.typeConfig = typeConfig /\ CurState.types = type_configs(Bench)[typeConfig + 1]
    BY <1>2 DEF Selected, StateOf
  <2>2. CurState.types \in Tuples(Wheels(Bench)) /\ cursor \in Nat
    BY <1>2 DEF StateOf, RunnerInv, TypeOK
  <2>3. QED
    BY <2>1, <2>2 DEF Calls
<1> HIDE DEF call
<1>4. /\ runs' = [b \in DOMAIN benchmarks |-> runs'[b]]
      /\ runs'[current] = Append(runs[current], call)
      /\ \A b \in DOMAIN benchmarks : b # current => runs'[b] = runs[b]
  BY <1>1 DEF RunnerInv, Called, call
<1>5. /\ runs[current] \in Seq(Calls(Bench)) /\ Append(runs[current], call) \in Seq(Calls(Bench))
      /\ Len(Append(runs[current], call)) = Len(runs[current]) + 1
      /\ \A r \in 1 .. Len(runs[current]) : Append(runs[current], call)[r] = runs[current][r]
      /\ Append(runs[current], call)[Len(runs[current]) + 1] = call
      /\ DOMAIN Append(runs[current], call) = 1 .. Len(runs[current]) + 1
      /\ DOMAIN runs[current] = 1 .. Len(runs[current]) /\ Len(runs[current]) \in Nat
  <2>1. runs[current] \in Seq(Calls(Bench))
    BY <1>1 DEF RunnerInv, Called, Bench
  <2>2. QED
    BY <1>3, <2>1, AppendProperties, LenProperties
<1>6. TypeOK'
  BY <1>1, <1>2, <1>4 DEF RunnerInv, TypeOK
<1>7. Placed'
  BY <1>1, <1>2 DEF RunnerInv, Placed, InTypeConfig, Selected, CurState, Bench
<1>8. Listed'
  BY DEF RunnerInv, Listed
<1>9. Called'
  <2>1. ASSUME NEW b \in DOMAIN benchmarks, b = current
        PROVE  /\ runs'[b] \in Seq(Calls(benchmarks[b]))
               /\ \A r \in DOMAIN runs'[b] :
                    /\ runs'[b][r].state \in DOMAIN states[b]
                    /\ runs'[b][r].types = states[b][runs'[b][r].state].types
    <3>1. runs'[b] \in Seq(Calls(benchmarks[b]))
      BY <1>4, <1>5, <2>1 DEF Bench
    <3>2. ASSUME NEW r \in DOMAIN runs'[b]
          PROVE  /\ runs'[b][r].state \in DOMAIN states[b]
                 /\ runs'[b][r].types = states[b][runs'[b][r].state].types
      <4>1. CASE r \in 1 .. Len(runs[current])
        <5>1. runs'[b][r] = runs[current][r] /\ r \in DOMAIN runs[current]
          BY <1>4, <1>5, <2>1, <4>1
        <5>2. QED
          BY <1>1, <2>1, <5>1 DEF RunnerInv, Called
      <4>2. CASE r = Len(runs[current]) + 1
        <5>1. runs'[b][r] = call
          BY <1>4, <1>5, <2>1, <4>2
        <5>2. QED
          BY <1>2, <1>3, <2>1, <5>1 DEF CurState
      <4>3. QED
        BY <1>4, <1>5, <2>1, <3>2, <4>1, <4>2
    <3>3. QED
      BY <3>1, <3>2
  <2>2. ASSUME NEW b \in DOMAIN benchmarks, b # current
        PROVE  /\ runs'[b] \in Seq(Calls(benchmarks[b]))
               /\ \A r \in DOMAIN runs'[b] :
                    /\ runs'[b][r].state \in DOMAIN states[b]
                    /\ runs'[b][r].types = states[b][runs'[b][r].state].types
               /\ b > current => runs'[b] = << >>
    BY <1>4, <2>2 DEF RunnerInv, Called
  <2>3. \A b \in DOMAIN benchmarks : b > current => b # current
    BY <1>1
  <2>4. QED
    BY <1>4, <2>1, <2>2, <2>3 DEF Called
<1>10. QED
  BY <1>6, <1>7, <1>8, <1>9 DEF RunnerInv

LEMMA StateCompletesKeeps ==
  ASSUME RunnerInv, StateCompletes
  PROVE  RunnerInv'
<1> USE DEF StateCompletes
<1>1. /\ DOMAIN benchmarks = 1 .. Len(benchmarks)
      /\ Len(benchmarks) \in Nat /\ current \in DOMAIN benchmarks /\ Bench \in Benchmark
  <2>1. /\ DOMAIN benchmarks = 1 .. Len(benchmarks)
        /\ Len(benchmarks) \in Nat /\ \A b \in DOMAIN benchmarks : benchmarks[b] \in Benchmark
    BY ProgramIs DEF RunnerInv
  <2>2. current \in DOMAIN benchmarks
    BY DEF RunnerInv, Placed
  <2>3. QED
    BY <2>1, <2>2 DEF Bench
<1>2. PICK skips \in BOOLEAN, throws \in BOOLEAN :
        states' = [states EXCEPT ![current][cursor].skipped = @ \/ skips \/ throws]
  OBVIOUS
<1> DEFINE old == states[current]
           s == [old[cursor] EXCEPT !.skipped = @ \/ skips \/ throws]
           new == [old EXCEPT ![cursor] = s]
<1>3. old \in Seq(StateOf(Bench)) /\ DOMAIN old = 1 .. Len(old) /\ cursor \in 1 .. Len(old)
  <2>1. old \in Seq(StateOf(Bench)) /\ cursor \in DOMAIN old
    BY <1>1 DEF RunnerInv, Listed, Placed, Bench
  <2>2. QED
    BY <2>1, LenProperties
<1>4. s \in StateOf(Bench) /\ s.types = old[cursor].types
  <2>1. old[cursor] \in StateOf(Bench)
    BY <1>3, ElementOfSeq
  <2>2. (old[cursor].skipped \/ skips \/ throws) \in BOOLEAN
    OBVIOUS
  <2> HIDE DEF old
  <2>3. QED
    BY <2>1, <2>2 DEF StateOf
<1> HIDE DEF s
<1>5. /\ new \in Seq(StateOf(Bench)) /\ Len(new) = Len(old) /\ DOMAIN new = DOMAIN old
      /\ \A i \in DOMAIN old : new[i].types = old[i].types
  <2> HIDE DEF old
  <2>1. /\ new \in Seq(StateOf(Bench)) /\ Len(new) = Len(old)
        /\ \A i \in 1 .. Len(old) : new[i] = IF i = cursor THEN s ELSE old[i]
    BY <1>3, <1>4, ExceptSeq
  <2>2. DOMAIN new = 1 .. Len(new)
    BY <2>1, LenProperties
  <2>3. QED
    BY <1>3, <1>4, <2>1, <2>2
<1>6. /\ states' = [b \in DOMAIN benchmarks |-> states'[b]] /\ states'[current] = new
      /\ \A b \in DOMAIN benchmarks : b # current => states'[b] = states[b]
  BY <1>1, <1>2 DEF RunnerInv, Listed, s
<1> HIDE DEF old, new
<1>7. TypeOK'
  <2>1. cursor' \in Nat \ {0} /\ completed' \in Nat
    BY DEF RunnerInv, TypeOK
  <2>2. QED
    BY <1>6, <2>1 DEF RunnerInv, TypeOK
<1>8. Placed'
  BY DEF RunnerInv, Placed, Bench
<1>9. Listed'
  BY <1>1, <1>5, <1>6 DEF RunnerInv, Listed, Bench
<1>10. Called'
  <2>1. \A b \in DOMAIN benchmarks :
          DOMAIN states'[b] = DOMAIN states[b]
          /\ \A i \in DOMAIN states[b] : states'[b][i].types = states[b][i].types
    BY <1>5, <1>6 DEF old
  <2>2. QED
    BY <2>1 DEF RunnerInv, Called
<1>11. QED
  BY <1>7, <1>8, <1>9, <1>10 DEF RunnerInv

LEMMA NextKeeps == RunnerInv /\ [Next]_vars => RunnerInv'
<1> SUFFICES ASSUME RunnerInv, [Next]_vars PROVE RunnerInv'
  OBVIOUS
<1>1. /\ benchmarks \in Seq(Benchmark) /\ DOMAIN benchmarks = 1 .. Len(benchmarks)
      /\ Len(benchmarks) \in Nat
  BY ProgramIs DEF RunnerInv
<1>2. CASE CountConfigs
  <2>1. TotalConfigs(benchmarks) \in Nat
    BY <1>1, TotalIs
  <2>2. TypeOK'
    BY <1>1, <1>2, <2>1 DEF RunnerInv, TypeOK, CountConfigs, loop
  <2>3. Placed'
    BY <1>2 DEF RunnerInv, Placed, CountConfigs, loop
  <2>4. Listed'
    BY <1>2 DEF RunnerInv, Listed, CountConfigs, loop
  <2>5. Called'
    <3>1. current = 0
      BY <1>2 DEF RunnerInv, CountConfigs, TypeOK, Placed
    <3>2. QED
      BY <1>1, <1>2, <3>1 DEF RunnerInv, Called, CountConfigs, loop
  <2>6. QED
    BY <2>2, <2>3, <2>4, <2>5 DEF RunnerInv
<1>3. CASE StartDevice
  <2>1. current \in DOMAIN benchmarks /\ Bench \in Benchmark
    BY <1>1, <1>3, ElementOfSeq DEF RunnerInv, Placed, StartDevice, Bench
  <2>2. pass \in DOMAIN Passes(Bench) /\ Len(type_configs(Bench)) \in Nat
        /\ Passes(Bench)[pass] \in Devices \cup {NoDevice}
    <3>1. pass \in 1 .. Len(Passes(Bench))
      BY <1>3, <2>1, PassesIs DEF RunnerInv, TypeOK, StartDevice
    <3>2. QED
      BY <2>1, <3>1, PassesIs, ConfigsAgree, ElementOfSeq
  <2>3. active' \in Actives /\ (Passes(Bench)[pass] # NoDevice => active' = Passes(Bench)[pass])
    BY <1>3, <2>2 DEF RunnerInv, Placed, StartDevice, Activated, Actives
  <2>4. TypeOK' /\ Listed' /\ Called'
    BY <1>3 DEF RunnerInv, TypeOK, Listed, Called, StartDevice, progress
  <2>5. Placed'
    BY <1>3, <2>1, <2>2, <2>3 DEF RunnerInv, Placed, StartDevice, Bench
  <2>6. QED
    BY <2>4, <2>5 DEF RunnerInv
<1>4. CASE PassOver
  <2>1. TypeOK' /\ Listed' /\ Called'
    BY <1>4 DEF RunnerInv, TypeOK, Listed, Called, PassOver, progress, InTypeConfig
  <2>2. Placed'
    BY <1>4 DEF RunnerInv, Placed, PassOver, Bench, InTypeConfig
  <2>3. QED
    BY <2>1, <2>2 DEF RunnerInv
<1>5. CASE GeneratorAborts
  <2>1. TypeOK' /\ Listed' /\ Called'
    BY <1>5 DEF RunnerInv, TypeOK, Listed, Called, GeneratorAborts, progress, loop
  <2>2. Placed'
    BY <1>5 DEF RunnerInv, Placed, GeneratorAborts, loop
  <2>3. QED
    BY <2>1, <2>2 DEF RunnerInv
<1>6. CASE NextTypeConfig
  <2>1. TypeOK' /\ Listed' /\ Called'
    BY <1>6 DEF RunnerInv, TypeOK, Listed, Called, NextTypeConfig, progress, InTypeConfig
  <2>2. current \in DOMAIN benchmarks /\ Bench \in Benchmark
    BY <1>1, <1>6, ElementOfSeq DEF RunnerInv, Placed, NextTypeConfig, InTypeConfig, Bench
  <2>3. typeConfig + 1 <= Len(type_configs(Bench))
    BY <1>6, <2>2, ConfigsAgree DEF RunnerInv, TypeOK, NextTypeConfig, InTypeConfig
  <2>4. Placed'
    BY <1>6, <2>3 DEF RunnerInv, Placed, NextTypeConfig, Bench, InTypeConfig
  <2>5. QED
    BY <2>1, <2>4 DEF RunnerInv
<1>7. CASE FinishDevice
  <2>1. TypeOK' /\ Listed' /\ Called'
    BY <1>7 DEF RunnerInv, TypeOK, Listed, Called, FinishDevice, progress
  <2>2. Placed'
    BY <1>7 DEF RunnerInv, Placed, FinishDevice
  <2>3. QED
    BY <2>1, <2>2 DEF RunnerInv
<1>8. CASE FinishBenchmark
  <2>1. current \in 1 .. Len(benchmarks)
    BY <1>1, <1>8 DEF RunnerInv, Placed, FinishBenchmark
  <2>2. TypeOK' /\ Listed'
    BY <1>8, <2>1 DEF RunnerInv, TypeOK, Listed, FinishBenchmark, progress, loop
  <2>3. Called'
    <3>1. \A b \in DOMAIN benchmarks : b > current + 1 \/ b = current + 1 => b > current
      BY <1>1, <2>1
    <3>2. QED
      BY <1>8, <3>1 DEF RunnerInv, Called, FinishBenchmark, progress, loop
  <2>4. Placed'
    BY <1>8, <2>1 DEF RunnerInv, Placed, FinishBenchmark
  <2>5. QED
    BY <2>2, <2>3, <2>4 DEF RunnerInv
<1>9. CASE FinishAll
  <2>1. TypeOK' /\ Listed' /\ Called'
    BY <1>9 DEF RunnerInv, TypeOK, Listed, Called, FinishAll, progress, loop
  <2>2. Placed'
    BY <1>9 DEF RunnerInv, Placed, FinishAll
  <2>3. QED
    BY <2>1, <2>2 DEF RunnerInv
<1>10. CASE UNCHANGED vars
  BY <1>10 DEF RunnerInv, TypeOK, Placed, Listed, Called, vars, loop, progress, Bench,
               Selected, CurState
<1>11. QED
  BY <1>2, <1>3, <1>4, <1>5, <1>6, <1>7, <1>8, <1>9, <1>10, GenerateStatesKeeps,
     RunStateKeeps, StateCompletesKeeps DEF Next

LEMMA RunnerInvHolds == Spec => []RunnerInv
BY InitHolds, NextKeeps, PTL DEF Spec

-----------------------------------------------------------------------------
(* Theorems                                                                *)

\* The loops stay where there is something to run.
THEOREM TypeCorrect == Spec => []TypeOK
<1>1. RunnerInv => TypeOK
  BY DEF RunnerInv
<1>2. QED
  BY <1>1, RunnerInvHolds, PTL

\* While a state runs, its device is the active one, and its stream was made on
\* that device, whatever the device lists of the benchmarks before it.
THEOREM OnOwnDevice == Spec => []RunsOnOwnDevice
<1>1. RunnerInv => RunsOnOwnDevice
  <2> SUFFICES ASSUME RunnerInv, point = "running", CurState.device # NoDevice
               PROVE  active = CurState.device /\ CurState.stream = CurState.device
    BY DEF RunsOnOwnDevice
  <2>1. current \in DOMAIN benchmarks /\ cursor \in DOMAIN states[current] /\ Selected
        /\ (Passes(Bench)[pass] # NoDevice => active = Passes(Bench)[pass])
    BY DEF RunnerInv, Placed
  <2>2. states[current] \in Seq(StateOf(Bench))
    BY <2>1 DEF RunnerInv, Listed, Bench
  <2>3. CurState \in StateOf(Bench)
    BY <2>1, <2>2, LenProperties, ElementOfSeq DEF CurState
  <2>4. QED
    BY <2>1, <2>3 DEF Selected, StateOf
<1>2. QED
  BY <1>1, RunnerInvHolds, PTL

\* A state is always handed to the instantiation of its own types.
THEOREM OwnInstantiation == Spec => []RunsOwnInstantiation
<1>1. RunnerInv => RunsOwnInstantiation
  <2> SUFFICES ASSUME RunnerInv, NEW b \in DOMAIN runs, NEW r \in DOMAIN runs[b]
               PROVE  runs[b][r].types = states[b][runs[b][r].state].types
    BY DEF RunsOwnInstantiation
  <2>1. b \in DOMAIN benchmarks
    BY DEF RunnerInv, TypeOK
  <2>2. QED
    BY <2>1 DEF RunnerInv, Called
<1>2. QED
  BY <1>1, RunnerInvHolds, PTL

-----------------------------------------------------------------------------
(* The product and the odometer miss no configuration and repeat none      *)

\* The indices that each wheel has.
Below(t, n) == {u \in Tuples(n) : \A p \in 1 .. n : u[p] < t[p]}

Block(v, t, n) == {Cons(v, u) : u \in Below(t, n)}

Same(S) == [x \in S |-> x]

LEMMA ConsIsInjective ==
  ASSUME NEW n \in Nat, NEW u \in Tuples(n), NEW y \in Tuples(n),
         NEW v \in Nat, NEW w \in Nat, Cons(v, u) = Cons(w, y)
  PROVE  v = w /\ u = y
<1> DEFINE c == Cons(v, u)
           d == Cons(w, y)
<1>1. Longer(c, v, u, n) /\ Longer(d, w, y, n) /\ c = d
  BY ConsIs
<1> HIDE DEF c, d
<1>2. v = w
  BY <1>1 DEF Longer
<1>3. \A p \in 1 .. n : u[p] = y[p]
  BY <1>1 DEF Longer
<1>4. QED
  BY <1>2, <1>3, EqualTuples

LEMMA BelowSplits ==
  ASSUME NEW n \in Nat, NEW t \in Tuples(n), NEW m \in Nat
  PROVE  Below(Cons(m, t), n + 1) = UNION {Block(v - 1, t, n) : v \in 1 .. m}
<1> DEFINE big == Cons(m, t)
<1>1. Longer(big, m, t, n)
  BY ConsIs
<1> HIDE DEF big
<1>2. ASSUME NEW x \in Below(big, n + 1)
      PROVE  x \in UNION {Block(v - 1, t, n) : v \in 1 .. m}
  <2> DEFINE u == [p \in 1 .. n |-> x[p + 1]]
             v == x[1] + 1
             c == Cons(x[1], u)
  <2>1. x \in Tuples(n + 1) /\ \A p \in 1 .. n + 1 : x[p] < big[p] /\ x[p] \in Nat
    BY DEF Below, Tuples
  <2>2. \A p \in 1 .. n : p + 1 \in 1 .. n + 1
    OBVIOUS
  <2>3. x[1] \in Nat /\ x[1] < m
    <3>1. 1 \in 1 .. n + 1
      OBVIOUS
    <3>2. QED
      BY <1>1, <2>1, <3>1 DEF Longer
  <2>4. u \in Tuples(n) /\ \A p \in 1 .. n : u[p] = x[p + 1]
    BY <2>1, <2>2 DEF Tuples
  <2> HIDE DEF u
  <2>5. \A p \in 1 .. n : u[p] < t[p]
    BY <1>1, <2>1, <2>2, <2>4 DEF Longer
  <2>6. u \in Below(t, n)
    BY <2>4, <2>5 DEF Below
  <2>7. Longer(c, x[1], u, n)
    BY <2>3, <2>4, ConsIs
  <2> HIDE DEF c
  <2>8. x = c
    <3>1. c \in Tuples(n + 1) /\ x[1] = c[1] /\ \A p \in 1 .. n : x[p + 1] = c[p + 1]
      BY <2>4, <2>7 DEF Longer
    <3>2. QED
      BY <2>1, <3>1, SameTuple
  <2>9. v \in 1 .. m /\ v - 1 = x[1]
    BY <2>3
  <2>10. x \in Block(v - 1, t, n)
    BY <2>6, <2>8, <2>9 DEF Block, c
  <2>11. QED
    BY <2>9, <2>10
<1>3. ASSUME NEW v \in 1 .. m, NEW x \in Block(v - 1, t, n)
      PROVE  x \in Below(big, n + 1)
  <2>1. PICK u \in Below(t, n) : x = Cons(v - 1, u)
    BY DEF Block
  <2>2. v - 1 \in Nat /\ v - 1 < m /\ u \in Tuples(n) /\ \A p \in 1 .. n : u[p] < t[p]
    BY DEF Below
  <2>3. Longer(x, v - 1, u, n)
    BY <2>1, <2>2, ConsIs
  <2>4. ASSUME NEW p \in 1 .. n + 1 PROVE x[p] < big[p]
    <3>1. CASE p = 1
      BY <1>1, <2>2, <2>3, <3>1 DEF Longer
    <3>2. CASE p # 1
      <4>1. p - 1 \in 1 .. n /\ (p - 1) + 1 = p
        BY <3>2
      <4>2. x[p] = u[p - 1] /\ big[p] = t[p - 1]
        BY <1>1, <2>3, <4>1 DEF Longer
      <4>3. QED
        BY <2>2, <4>1, <4>2
    <3>3. QED
      BY <3>1, <3>2
  <2>5. QED
    BY <2>3, <2>4 DEF Below, Longer
<1>4. QED
  BY <1>2, <1>3 DEF big

\* One more axis in front of a list of all the configurations makes one.
LEMMA ProductListsStep ==
  ASSUME NEW n \in Nat, NEW t \in Tuples(n), NEW m \in Nat,
         NEW Q \in Seq(Tuples(n)), Lists(Q, Below(t, n))
  PROVE  LET R == FlattenSeq([v \in 1 .. m |-> prepend_each(v - 1, Q)])
         IN  R \in Seq(Tuples(n + 1)) /\ Lists(R, Below(Cons(m, t), n + 1))
<1> DEFINE S == Tuples(n + 1)
           s == [v \in 1 .. m |-> prepend_each(v - 1, Q)]
           R == FlattenSeq(s)
           f == Same(S)
           V == [v \in 1 .. m |-> Block(v - 1, t, n)]
<1>1. Len(Q) \in Nat /\ \A c \in 1 .. Len(Q) : Q[c] \in Tuples(n)
  BY LenProperties, ElementOfSeq
<1>2. \A v \in 1 .. m : /\ prepend_each(v - 1, Q) \in Seq(S)
                        /\ Len(prepend_each(v - 1, Q)) = Len(Q)
                        /\ \A c \in 1 .. Len(Q) : prepend_each(v - 1, Q)[c] = Cons(v - 1, Q[c])
  <2> TAKE v \in 1 .. m
  <2>1. v - 1 \in Nat
    OBVIOUS
  <2>2. QED
    BY <2>1, BlockIs
<1>3. s \in Seq(Seq(S)) /\ Len(s) = m /\ \A v \in 1 .. m : s[v] = prepend_each(v - 1, Q)
  <2> HIDE DEF S
  <2>1. QED
    BY <1>2
<1> HIDE DEF s, S
<1>4. ASSUME NEW v \in 1 .. m PROVE Lists(Labels(s[v], f), V[v])
  <2> DEFINE B == s[v]
             L == Labels(B, f)
             W == V[v]
  <2>1. B \in Seq(S) /\ Len(B) = Len(Q) /\ \A c \in 1 .. Len(Q) : B[c] = Cons(v - 1, Q[c])
    BY <1>2, <1>3
  <2> HIDE DEF B
  <2>2. \A c \in 1 .. Len(Q) : B[c] \in S
    BY <2>1, ElementOfSeq
  <2>3. Len(L) = Len(Q) /\ \A c \in 1 .. Len(Q) : L[c] = Cons(v - 1, Q[c])
    BY <2>1, <2>2, LabelsLength DEF Same
  <2>4. W = Block(v - 1, t, n)
    OBVIOUS
  <2> HIDE DEF L, W, V, f
  <2>5. \A k \in 1 .. Len(L) : L[k] \in W
    <3> TAKE k \in 1 .. Len(L)
    <3>1. Q[k] \in Below(t, n)
      BY <2>3 DEF Lists
    <3>2. QED
      BY <2>3, <2>4, <3>1 DEF Block
  <2>6. \A w \in W : \E k \in 1 .. Len(L) : L[k] = w
    <3> TAKE w \in W
    <3>1. PICK u \in Below(t, n) : w = Cons(v - 1, u)
      BY <2>4 DEF Block
    <3>2. PICK k \in 1 .. Len(Q) : Q[k] = u
      BY DEF Lists
    <3>3. QED
      BY <2>3, <3>1, <3>2
  <2>7. ASSUME NEW k \in 1 .. Len(L), NEW l \in 1 .. Len(L), L[k] = L[l]
        PROVE  k = l
    <3>1. Cons(v - 1, Q[k]) = Cons(v - 1, Q[l]) /\ v - 1 \in Nat
          /\ Q[k] \in Tuples(n) /\ Q[l] \in Tuples(n)
      BY <1>1, <2>3, <2>7
    <3>2. Q[k] = Q[l]
      BY <3>1, ConsIsInjective
    <3>3. QED
      BY <2>3, <3>2 DEF Lists
  <2>8. Lists(L, W)
    BY <2>5, <2>6, <2>7 DEF Lists
  <2>9. QED
    BY <2>8 DEF L, W, B
<1>5. ASSUME NEW v \in 1 .. m, NEW l \in 1 .. m, v # l PROVE V[v] \cap V[l] = {}
  <2> SUFFICES ASSUME NEW x \in V[v], x \in V[l] PROVE FALSE
    OBVIOUS
  <2>1. PICK u \in Below(t, n) : x = Cons(v - 1, u)
    BY DEF Block
  <2>2. PICK y \in Below(t, n) : x = Cons(l - 1, y)
    BY DEF Block
  <2>3. u \in Tuples(n) /\ y \in Tuples(n) /\ v - 1 \in Nat /\ l - 1 \in Nat
        /\ Cons(v - 1, u) = Cons(l - 1, y)
    BY <2>1, <2>2 DEF Below
  <2>4. v - 1 = l - 1
    BY <2>3, ConsIsInjective
  <2>5. QED
    BY <1>5, <2>4
<1> DEFINE W == Union(V, m)
<1>6. W = Below(Cons(m, t), n + 1)
  <2>1. W = UNION {Block(v - 1, t, n) : v \in 1 .. m}
    BY DEF Union
  <2>2. QED
    BY <2>1, BelowSplits
<1> HIDE DEF V, f
<1>7. Lists(Labels(R, f), W)
  <2>1. s \in Seq(Seq(S)) /\ Len(s) = m
    BY <1>3
  <2>2. /\ \A i \in 1 .. Len(s) : Lists(Labels(s[i], f), V[i])
        /\ \A i, l \in 1 .. Len(s) : i # l => V[i] \cap V[l] = {}
    BY <1>4, <1>5, <2>1
  <2>3. Lists(Labels(FlattenSeq(s), f), Union(V, Len(s)))
    BY ONLY <2>1, <2>2, FlattenLists
  <2>4. QED
    BY <2>1, <2>3
<1>8. R \in Seq(S)
  BY <1>3, FlattenType
<1> HIDE DEF R, W
<1>9. \A k \in 1 .. Len(R) : Labels(R, f)[k] = R[k] /\ Len(Labels(R, f)) = Len(R)
  <2> TAKE k \in 1 .. Len(R)
  <2>1. R[k] \in S
    BY <1>8, ElementOfSeq
  <2>2. QED
    BY <1>8, <2>1, LabelsLength DEF f, Same
<1>10. Len(Labels(R, f)) = Len(R)
  BY <1>8, LabelsLength
<1>11. Lists(R, W)
  <2> DEFINE L == Labels(R, f)
  <2>1. Lists(L, W) /\ Len(L) = Len(R) /\ \A k \in 1 .. Len(R) : L[k] = R[k]
    BY <1>7, <1>9, <1>10
  <2> HIDE DEF L
  <2>2. \A w \in W : \E k \in 1 .. Len(R) : R[k] = w
    <3> TAKE w \in W
    <3>1. PICK k \in 1 .. Len(L) : L[k] = w
      BY <2>1 DEF Lists
    <3>2. QED
      BY <2>1, <3>1
  <2>3. QED
    BY <2>1, <2>2 DEF Lists
<1>12. QED
  BY <1>6, <1>8, <1>11 DEF R, s, S

LEMMA ProductLists ==
  ASSUME NEW sizes \in Seq(Nat)
  PROVE  Lists(cartesian_product(sizes), Below(sizes, Len(sizes)))
<1> DEFINE n == Len(sizes)
           none == << << >> >>
<1>1. n \in Nat /\ sizes \in Tuples(n) /\ \A i \in 1 .. n : sizes[i] \in Nat
  BY LenProperties DEF Tuples
<1>2. PICK G : /\ cartesian_product(sizes) = G[1] /\ G[n + 1] = none
               /\ \A a \in 1 .. n :
                    G[a] = FlattenSeq([v \in 1 .. sizes[a] |-> prepend_each(v - 1, G[a + 1])])
  BY ProductSteps
<1> HIDE DEF n, none
<1> DEFINE Good(a, i) == G[a] \in Seq(Tuples(i)) /\ Lists(G[a], Below(Behind(sizes, a), i))
           T == {i \in 0 .. n : Good(n + 1 - i, i)}
<1>3. 0 \in T
  <2> DEFINE t == Behind(sizes, n + 1)
  <2>1. n + 1 - 0 = n + 1 /\ 0 \in 0 .. n
    BY <1>1
  <2>2. none \in Seq(Tuples(0)) /\ Len(none) = 1 /\ none[1] = << >>
    BY DEF none, Tuples
  <2>3. Tuples(0) = {<< >>}
    <3>1. << >> \in Tuples(0)
      BY DEF Tuples
    <3>2. ASSUME NEW u \in Tuples(0) PROVE u = << >>
      <4>1. u \in Seq(Nat) /\ Len(u) = 0
        BY TupleIs
      <4>2. QED
        BY <4>1, EmptySeq
    <3>3. QED
      BY <3>1, <3>2
  <2>4. Below(t, 0) = {<< >>}
    <3>1. \A u \in Tuples(0) : \A p \in 1 .. 0 : u[p] < t[p]
      OBVIOUS
    <3> HIDE DEF t
    <3>2. QED
      BY <2>3, <3>1 DEF Below
  <2>5. Lists(none, Below(t, 0))
    BY <2>2, <2>4 DEF Lists
  <2>6. QED
    BY <1>2, <2>1, <2>2, <2>5
<1>4. ASSUME NEW i \in 0 .. n - 1, i \in T PROVE i + 1 \in T
  <2> DEFINE a == n + 1 - (i + 1)
             Q == G[a + 1]
             t == Behind(sizes, a + 1)
             m == sizes[a]
             R == FlattenSeq([v \in 1 .. m |-> prepend_each(v - 1, Q)])
  <2>1. a \in 1 .. n /\ a + 1 = n + 1 - i /\ i \in Nat
        /\ a + 1 \in 1 .. n + 1 /\ n + 1 - (a + 1) = i /\ i + 1 \in 0 .. n
    BY <1>1
  <2>2. Q \in Seq(Tuples(i)) /\ Lists(Q, Below(t, i))
    <3>1. Good(a + 1, i)
      BY <1>4, <2>1
    <3>2. QED
      BY <3>1
  <2>3. t \in Tuples(i) /\ m \in Nat /\ Behind(sizes, a) = Cons(m, t)
    <3>1. t \in Tuples(n + 1 - (a + 1)) /\ Behind(sizes, a) = Cons(m, t)
      BY <1>1, <2>1, BehindIs
    <3>2. QED
      BY <1>1, <2>1, <3>1
  <2>4. G[a] = R
    BY <1>2, <2>1
  <2> HIDE DEF m, t, Q, a
  <2>5. R \in Seq(Tuples(i + 1)) /\ Lists(R, Below(Cons(m, t), i + 1))
    BY <2>1, <2>2, <2>3, ProductListsStep
  <2> HIDE DEF R
  <2>6. Good(a, i + 1)
    BY <2>3, <2>4, <2>5
  <2>7. QED
    BY <2>1, <2>6 DEF a
<1> HIDE DEF T
<1>5. n \in T
  <2>1. \A i \in 0 .. n : i \in T
    BY <1>1, <1>3, <1>4, FromZero
  <2>2. QED
    BY <1>1, <2>1
<1>6. Good(1, n)
  <2>1. n + 1 - n = 1
    BY <1>1
  <2>2. QED
    BY <1>5, <2>1 DEF T
<1>7. Behind(sizes, 1) = sizes
  BY <1>1, BehindIs
<1>8. QED
  BY <1>2, <1>6, <1>7 DEF n

LEMMA ReverseBelow ==
  ASSUME NEW n \in Nat, NEW t \in Tuples(n), NEW u \in Below(t, n)
  PROVE  Reverse(u) \in Below(Reverse(t), n)
<1> DEFINE ru == Reverse(u)
           rt == Reverse(t)
<1>1. u \in Tuples(n) /\ \A p \in 1 .. n : u[p] < t[p]
  BY DEF Below
<1>2. ru \in Tuples(n) /\ \A p \in 1 .. n : ru[p] = u[n - p + 1]
  BY <1>1, ReverseTuple
<1>3. rt \in Tuples(n) /\ \A p \in 1 .. n : rt[p] = t[n - p + 1]
  BY ReverseTuple
<1> HIDE DEF ru, rt
<1>4. \A p \in 1 .. n : n - p + 1 \in 1 .. n
  OBVIOUS
<1>5. \A p \in 1 .. n : ru[p] < rt[p]
  BY <1>1, <1>2, <1>3, <1>4
<1>6. QED
  BY <1>2, <1>5 DEF Below, ru, rt

\* The odometer passes through each configuration once.
LEMMA EnumerationLists ==
  ASSUME NEW sizes \in Seq(Nat)
  PROVE  Lists(Enumeration(sizes), Below(sizes, Len(sizes)))
<1> DEFINE n == Len(sizes)
           rs == Reverse(sizes)
           E == Enumeration(sizes)
           P == cartesian_product(rs)
<1>1. n \in Nat /\ sizes \in Tuples(n)
  BY LenProperties DEF Tuples
<1> HIDE DEF n
<1>2. rs \in Seq(Nat) /\ Len(rs) = n /\ rs \in Tuples(n) /\ Reverse(rs) = sizes
  BY <1>1, ReverseIs, ReverseTuple DEF n
<1> HIDE DEF rs
<1>3. /\ E \in Seq(Tuples(n)) /\ Len(E) = Len(P)
      /\ \A k \in 1 .. Len(P) : Reverse(E[k]) = P[k]
  <2>1. /\ Enumeration(Reverse(rs)) \in Seq(Tuples(Len(rs)))
        /\ Len(Enumeration(Reverse(rs))) = Len(cartesian_product(rs))
        /\ \A k \in 1 .. Len(cartesian_product(rs)) :
              Reverse(Enumeration(Reverse(rs))[k]) = cartesian_product(rs)[k]
    BY ONLY <1>2, OdometerIsProduct
  <2>2. QED
    BY <1>2, <2>1
<1>4. Lists(P, Below(rs, n))
  BY <1>2, ProductLists
<1>5. \A k \in 1 .. Len(E) : E[k] \in Tuples(n)
  BY <1>3, ElementOfSeq
<1> HIDE DEF E, P
<1>6. \A k \in 1 .. Len(E) : E[k] = Reverse(P[k])
  <2> TAKE k \in 1 .. Len(E)
  <2>1. E[k] \in Tuples(n)
    BY <1>5
  <2>2. Reverse(Reverse(E[k])) = E[k]
    BY <1>1, <2>1, ReverseTuple
  <2>3. QED
    BY <1>3, <2>2
<1>7. \A k \in 1 .. Len(E) : E[k] \in Below(sizes, n)
  <2> TAKE k \in 1 .. Len(E)
  <2>1. P[k] \in Below(rs, n)
    BY <1>3, <1>4 DEF Lists
  <2>2. Reverse(P[k]) \in Below(Reverse(rs), n)
    BY <1>1, <1>2, <2>1, ReverseBelow
  <2>3. QED
    BY <1>2, <1>6, <2>2
<1>8. \A w \in Below(sizes, n) : \E k \in 1 .. Len(E) : E[k] = w
  <2> TAKE w \in Below(sizes, n)
  <2>1. w \in Tuples(n)
    BY DEF Below
  <2>2. Reverse(w) \in Below(rs, n) /\ Reverse(Reverse(w)) = w
    BY <1>1, <2>1, ReverseBelow, ReverseTuple DEF rs
  <2>3. PICK k \in 1 .. Len(P) : P[k] = Reverse(w)
    BY <1>4, <2>2 DEF Lists
  <2>4. QED
    BY <1>3, <1>6, <2>2, <2>3
<1>9. \A k, l \in 1 .. Len(E) : E[k] = E[l] => k = l
  <2> TAKE k, l \in 1 .. Len(E)
  <2> HAVE E[k] = E[l]
  <2>1. P[k] = P[l]
    BY <1>3
  <2>2. QED
    BY <1>3, <1>4, <2>1 DEF Lists
<1>10. QED
  BY <1>7, <1>8, <1>9 DEF Lists, E, n

\* The type configurations that no mask excludes.
Usable(bench) ==
  {u \in Below(TypeSizes(bench), Wheels(bench)) :
     \A a \in 1 .. Wheels(bench) : bench.types[a][u[a] + 1]}

LEMMA ActiveIs ==
  ASSUME NEW bench \in Benchmark, NEW k \in 1 .. Len(type_configs(bench))
  PROVE  m_type_axis_configs(bench)[k].active <=> type_configs(bench)[k] \in Usable(bench)
<1> DEFINE sizes == TypeSizes(bench)
           n == Wheels(bench)
           turns == Enumeration(Reverse(sizes))
           P == type_configs(bench)
           On(indices) == \A a \in DOMAIN indices : bench.types[a][indices[a] + 1]
           Config(indices) == [values |-> indices, active |-> On(indices)]
<1>1. sizes \in Seq(Nat) /\ Len(sizes) = n /\ n \in Nat
  BY TypeSizesIs
<1>2. P \in Seq(Tuples(n)) /\ DOMAIN m_type_axis_configs(bench) = 1 .. Len(P)
      /\ m_type_axis_configs(bench)[k].values = P[k]
  BY ConfigsAgree
<1>3. Lists(P, Below(sizes, n))
  BY <1>1, ProductLists DEF type_configs
<1>4. m_type_axis_configs(bench) = [i \in DOMAIN turns |-> Config(Reverse(turns[i]))]
  BY DEF m_type_axis_configs
<1>0. k \in 1 .. Len(P)
  OBVIOUS
<1> HIDE DEF P, On, sizes, n
<1>5. m_type_axis_configs(bench)[k].active = On(P[k])
  <2>1. DOMAIN turns = 1 .. Len(P)
    BY <1>2, <1>4
  <2> HIDE DEF turns
  <2>2. m_type_axis_configs(bench)[k] = Config(Reverse(turns[k]))
    BY <1>0, <1>4, <2>1
  <2>3. QED
    BY <1>2, <2>2
<1>6. P[k] \in Below(sizes, n) /\ P[k] \in Tuples(n)
  BY <1>0, <1>3 DEF Lists, Below
<1>7. DOMAIN P[k] = 1 .. n
  BY <1>6 DEF Tuples
<1>8. On(P[k]) <=> \A a \in 1 .. n : bench.types[a][P[k][a] + 1]
  BY <1>7 DEF On
<1>9. QED
  BY <1>5, <1>6, <1>8 DEF Usable, P, sizes, n

-----------------------------------------------------------------------------
(* The states list the configurations                                      *)

\* The configuration of a state.
KeyOf(s) == [types |-> s.types, others |-> s.others, device |-> s.device]

Keys(bench) == [s \in StateOf(bench) |-> KeyOf(s)]

OthersBelow(bench) == Below(bench.others, Len(bench.others))

\* The configurations of the type axes in T on the devices in D.
On(bench, T, D) == [types : T, others : OthersBelow(bench), device : D]

LEMMA RowLists ==
  ASSUME NEW bench \in Benchmark, NEW device \in ToSet(Passes(bench)), NEW on \in Actives,
         NEW k \in 1 .. Len(type_configs(bench)),
         NEW q \in Seq(StateOf(bench)),
         Len(q) = Len(m_non_type_axis_configs(bench)),
         \A o \in 1 .. Len(q) : /\ q[o].types = type_configs(bench)[k]
                                /\ q[o].others = m_non_type_axis_configs(bench)[o]
                                /\ q[o].device = device
  PROVE  Lists(Labels(q, Keys(bench)), On(bench, {type_configs(bench)[k]}, {device}))
<1> DEFINE E == m_non_type_axis_configs(bench)
           t == type_configs(bench)[k]
           L == Labels(q, Keys(bench))
           W == On(bench, {t}, {device})
           key(o) == [types |-> t, others |-> E[o], device |-> device]
<1>1. Lists(E, OthersBelow(bench))
  <2>1. bench.others \in Seq(Nat)
    BY DEF Benchmark
  <2>2. QED
    BY <2>1, EnumerationLists DEF m_non_type_axis_configs, OthersBelow
<1>2. Len(L) = Len(q) /\ \A o \in 1 .. Len(q) : L[o] = Keys(bench)[q[o]] /\ q[o] \in StateOf(bench)
  BY LabelsLength, ElementOfSeq
<1> HIDE DEF E, L, t, W
<1>3. Len(L) = Len(E) /\ \A o \in 1 .. Len(E) : L[o] = key(o)
  <2>1. \A o \in 1 .. Len(q) : Keys(bench)[q[o]] = KeyOf(q[o])
    BY <1>2 DEF Keys
  <2>2. QED
    BY <1>2, <2>1 DEF KeyOf, E, t
<1>4. \A o \in 1 .. Len(L) : L[o] \in W
  <2> TAKE o \in 1 .. Len(L)
  <2>1. L[o] = key(o) /\ E[o] \in OthersBelow(bench)
    BY <1>1, <1>3 DEF Lists
  <2>2. key(o) \in W
    BY <2>1 DEF On, W
  <2>3. QED
    BY <2>1, <2>2
<1>5. \A w \in W : \E o \in 1 .. Len(L) : L[o] = w
  <2> TAKE w \in W
  <2>1. w = [types |-> t, others |-> w.others, device |-> device] /\ w.others \in OthersBelow(bench)
    BY DEF W, On
  <2>2. PICK o \in 1 .. Len(E) : E[o] = w.others
    BY <1>1, <2>1 DEF Lists
  <2>3. QED
    BY <1>3, <2>1, <2>2
<1>6. \A o, p \in 1 .. Len(L) : L[o] = L[p] => o = p
  <2> TAKE o, p \in 1 .. Len(L)
  <2> HAVE L[o] = L[p]
  <2>1. key(o) = key(p)
    BY <1>3
  <2>2. E[o] = E[p]
    BY <2>1
  <2>3. QED
    BY <1>1, <1>3, <2>2 DEF Lists
<1>7. QED
  BY <1>4, <1>5, <1>6 DEF Lists, L, W, t

\* The states for a device are those of each usable type configuration.
LEMMA DeviceStatesList ==
  ASSUME NEW bench \in Benchmark, NEW device \in ToSet(Passes(bench)), NEW on \in Actives
  PROVE  Lists(Labels(StatesForDevice(bench, device, on), Keys(bench)),
               On(bench, Usable(bench), {device}))
<1> DEFINE types  == m_type_axis_configs(bench)
           others == m_non_type_axis_configs(bench)
           State(k, other) ==
             [types |-> types[k].values, others |-> other, device |-> device,
              typeConfig |-> k - 1, stream |-> Activated(on, device),
              skipped |-> FALSE]
           Row(k) == IF types[k].active
                     THEN [o \in DOMAIN others |-> State(k, others[o])]
                     ELSE <<>>
           P == type_configs(bench)
           N == Len(P)
           S == StateOf(bench)
           f == Keys(bench)
           V == [k \in 1 .. N |-> IF P[k] \in Usable(bench) THEN On(bench, {P[k]}, {device}) ELSE {}]
           s == [k \in 1 .. N |-> Row(k)]
<1>1. StatesForDevice(bench, device, on) = FlattenSeq([k \in DOMAIN types |-> Row(k)])
  BY DEF StatesForDevice
<1>2. /\ N \in Nat /\ DOMAIN types = 1 .. N /\ P \in Seq(Tuples(Wheels(bench)))
      /\ \A k \in 1 .. N : types[k].values = P[k]
  BY ConfigsAgree
<1>3. others \in Seq(Tuples(Len(bench.others))) /\ Len(others) \in Nat /\ DOMAIN others = 1 .. Len(others)
  BY OthersIs
<1>4. \A k \in 1 .. N : types[k].active <=> P[k] \in Usable(bench)
  BY ActiveIs
<1>5. Lists(P, Below(TypeSizes(bench), Wheels(bench)))
  <2>1. TypeSizes(bench) \in Seq(Nat) /\ Len(TypeSizes(bench)) = Wheels(bench)
    BY TypeSizesIs
  <2>2. QED
    BY <2>1, ProductLists DEF type_configs
<1> HIDE DEF N, types, others, P, f
<1>6. ASSUME NEW k \in 1 .. N, NEW o \in 1 .. Len(others)
      PROVE  State(k, others[o]) \in S
  <2>1. P[k] \in Tuples(Wheels(bench)) /\ others[o] \in Tuples(Len(bench.others))
    BY <1>2, <1>3, ElementOfSeq DEF N
  <2>2. k - 1 \in Nat /\ k - 1 < N /\ (k - 1) + 1 = k
    BY <1>2
  <2>3. device \in Devices \cup {NoDevice}
    BY PassesIs
  <2>4. Activated(on, device) \in Actives \cup {NoDevice} /\ (device # NoDevice => Activated(on, device) = device)
    BY <2>3 DEF Activated, Actives
  <2>5. QED
    BY <1>2, <2>1, <2>2, <2>3, <2>4 DEF StateOf, N, P
<1> HIDE DEF S
<1>7. ASSUME NEW k \in 1 .. N
      PROVE  Row(k) \in Seq(S) /\ Lists(Labels(Row(k), f), V[k])
  <2>1. CASE types[k].active
    <3> DEFINE q == [o \in 1 .. Len(others) |-> State(k, others[o])]
    <3>1. Row(k) = q
      BY <1>3, <2>1
    <3>2. \A o \in 1 .. Len(others) : State(k, others[o]) \in S
      BY <1>6
    <3>3. \A o \in 1 .. Len(others) : /\ q[o].types = P[k]
                                      /\ q[o].others = others[o]
                                      /\ q[o].device = device
      BY <1>2
    <3> HIDE DEF State
    <3>4. q \in Seq(S) /\ Len(q) = Len(others)
      BY <1>3, <3>2
    <3> HIDE DEF q
    <3>5. V[k] = On(bench, {P[k]}, {device})
      BY <1>4, <2>1
    <3>6. Lists(Labels(q, f), On(bench, {P[k]}, {device}))
      BY <1>3, <3>3, <3>4, RowLists DEF S, P, N, others, f
    <3>7. QED
      BY <3>1, <3>4, <3>5, <3>6
  <2>2. CASE ~types[k].active
    <3>1. Row(k) = << >> /\ << >> \in Seq(S) /\ Len(<< >>) = 0
      BY <2>2, EmptySeq
    <3>2. Len(Labels(<< >>, f)) = 0
      BY <3>1, LabelsLength
    <3>3. V[k] = {}
      BY <1>4, <2>2
    <3>4. Lists(Labels(<< >>, f), {})
      BY <3>2 DEF Lists
    <3>5. QED
      BY <3>1, <3>3, <3>4
  <2>3. QED
    BY <2>1, <2>2
<1> HIDE DEF Row
<1>8. s \in Seq(Seq(S)) /\ Len(s) = N /\ \A k \in 1 .. N : s[k] = Row(k)
  <2> DEFINE Q == Seq(S)
  <2>1. \A k \in 1 .. N : Row(k) \in Q
    BY <1>7
  <2> HIDE DEF Q
  <2>2. s \in Seq(Q) /\ Len(s) = N
    BY <1>2, <2>1
  <2>3. QED
    BY <2>2 DEF Q
<1>9. ASSUME NEW k \in 1 .. N, NEW l \in 1 .. N, k # l PROVE V[k] \cap V[l] = {}
  <2> SUFFICES ASSUME NEW x \in V[k], x \in V[l] PROVE FALSE
    OBVIOUS
  <2>1. x.types = P[k] /\ x.types = P[l]
    BY DEF On
  <2>2. QED
    BY <1>5, <1>9, <2>1 DEF Lists, N
<1>10. Union(V, N) = On(bench, Usable(bench), {device})
  <2>1. ASSUME NEW x \in Union(V, N) PROVE x \in On(bench, Usable(bench), {device})
    <3>1. PICK k \in 1 .. N : x \in V[k]
      BY DEF Union
    <3>2. P[k] \in Usable(bench) /\ x \in On(bench, {P[k]}, {device})
      BY <3>1
    <3>3. QED
      BY <3>2 DEF On
  <2>2. ASSUME NEW x \in On(bench, Usable(bench), {device}) PROVE x \in Union(V, N)
    <3>1. x.types \in Usable(bench) /\ x.types \in Below(TypeSizes(bench), Wheels(bench))
      BY DEF On, Usable
    <3>2. PICK k \in 1 .. N : P[k] = x.types
      BY <1>5, <3>1 DEF Lists, N
    <3>3. x \in On(bench, {P[k]}, {device})
      BY <3>2 DEF On
    <3>4. x \in V[k]
      BY <3>1, <3>2, <3>3
    <3>5. QED
      BY <3>4 DEF Union
  <2>3. QED
    BY <2>1, <2>2
<1> HIDE DEF V
<1>11. Lists(Labels(FlattenSeq(s), f), Union(V, N))
  <2>1. s \in Seq(Seq(S)) /\ Len(s) = N
    BY <1>8
  <2>2. /\ \A i \in 1 .. Len(s) : Lists(Labels(s[i], f), V[i])
        /\ \A i, l \in 1 .. Len(s) : i # l => V[i] \cap V[l] = {}
    BY <1>7, <1>8, <1>9
  <2> HIDE DEF s
  <2>3. Lists(Labels(FlattenSeq(s), f), Union(V, Len(s)))
    BY ONLY <2>1, <2>2, FlattenLists
  <2>4. QED
    BY <2>1, <2>3
<1>12. StatesForDevice(bench, device, on) = FlattenSeq(s)
  BY <1>1, <1>2
<1>13. QED
  BY <1>10, <1>11, <1>12 DEF f

Configurations(bench) == On(bench, Usable(bench), ToSet(Passes(bench)))

LEMMA PassesOnce ==
  ASSUME NEW bench \in Benchmark, IsInjective(bench.devices)
  PROVE  \A p, q \in 1 .. Len(Passes(bench)) : Passes(bench)[p] = Passes(bench)[q] => p = q
<1>1. bench.devices \in Seq(Devices)
  BY DEF Benchmark
<1>2. CASE bench.devices = << >>
  <2>1. Passes(bench) = <<NoDevice>> /\ Len(<<NoDevice>>) = 1
    BY <1>2 DEF Passes
  <2>2. \A p, q \in 1 .. 1 : p = q
    OBVIOUS
  <2>3. QED
    BY <2>1, <2>2
<1>3. CASE bench.devices # << >>
  <2>1. Passes(bench) = bench.devices
    BY <1>3 DEF Passes
  <2>2. DOMAIN bench.devices = 1 .. Len(bench.devices)
    BY <1>1, LenProperties
  <2>3. QED
    BY <2>1, <2>2 DEF IsInjective
<1>4. QED
  BY <1>2, <1>3

\* The states of a benchmark are its configurations, each once, if no device is
\* listed twice.
LEMMA StatesList ==
  ASSUME NEW bench \in Benchmark, NEW on \in Actives, IsInjective(bench.devices)
  PROVE  Lists(Labels(build_states(bench, on), Keys(bench)), Configurations(bench))
<1> DEFINE P == Passes(bench)
           N == Len(P)
           S == StateOf(bench)
           f == Keys(bench)
           V == [p \in 1 .. N |-> On(bench, Usable(bench), {P[p]})]
           s == [p \in 1 .. N |-> StatesForDevice(bench, P[p], on)]
<1>1. N \in Nat /\ DOMAIN P = 1 .. N
  BY PassesIs
<1>2. \A p \in 1 .. N : P[p] \in ToSet(Passes(bench))
  BY <1>1 DEF ToSet
<1>3. \A p \in 1 .. N : /\ StatesForDevice(bench, P[p], on) \in Seq(S)
                        /\ Lists(Labels(StatesForDevice(bench, P[p], on), f), V[p])
  BY <1>2, DeviceStatesAre, DeviceStatesList
<1>4. \A p, q \in 1 .. N : P[p] = P[q] => p = q
  BY PassesOnce
<1>5. build_states(bench, on) = FlattenSeq(s)
  BY <1>1 DEF build_states
<1>6. ToSet(P) = {P[p] : p \in 1 .. N}
  BY <1>1 DEF ToSet
<1> HIDE DEF P, N, S, f
<1>7. s \in Seq(Seq(S)) /\ Len(s) = N /\ \A p \in 1 .. N : s[p] = StatesForDevice(bench, P[p], on)
  <2> DEFINE Q == Seq(S)
  <2>1. \A p \in 1 .. N : StatesForDevice(bench, P[p], on) \in Q
    BY <1>3
  <2> HIDE DEF Q
  <2>2. s \in Seq(Q) /\ Len(s) = N
    BY <1>1, <2>1
  <2>3. QED
    BY <2>2 DEF Q
<1>8. ASSUME NEW p \in 1 .. N, NEW q \in 1 .. N, p # q PROVE V[p] \cap V[q] = {}
  <2> SUFFICES ASSUME NEW x \in V[p], x \in V[q] PROVE FALSE
    OBVIOUS
  <2>1. x.device = P[p] /\ x.device = P[q]
    BY DEF On
  <2>2. QED
    BY <1>4, <1>8, <2>1
<1>9. Union(V, N) = Configurations(bench)
  <2>1. ASSUME NEW x \in Union(V, N) PROVE x \in On(bench, Usable(bench), ToSet(P))
    <3>1. PICK p \in 1 .. N : x \in V[p]
      BY DEF Union
    <3>2. x \in On(bench, Usable(bench), {P[p]})
      BY <3>1
    <3>3. QED
      BY <1>6, <3>2 DEF On
  <2>2. ASSUME NEW x \in On(bench, Usable(bench), ToSet(P)) PROVE x \in Union(V, N)
    <3>1. x.device \in ToSet(P)
      BY DEF On
    <3>2. PICK p \in 1 .. N : x.device = P[p]
      BY <1>6, <3>1
    <3>3. x \in On(bench, Usable(bench), {P[p]})
      BY <3>2 DEF On
    <3>4. QED
      BY <3>3 DEF Union
  <2>3. QED
    BY <2>1, <2>2 DEF Configurations, P
<1> HIDE DEF V
<1>10. Lists(Labels(FlattenSeq(s), f), Union(V, N))
  <2>1. s \in Seq(Seq(S)) /\ Len(s) = N
    BY <1>7
  <2>2. /\ \A i \in 1 .. Len(s) : Lists(Labels(s[i], f), V[i])
        /\ \A i, l \in 1 .. Len(s) : i # l => V[i] \cap V[l] = {}
    BY <1>3, <1>7, <1>8
  <2> HIDE DEF s
  <2>3. Lists(Labels(FlattenSeq(s), f), Union(V, Len(s)))
    BY ONLY <2>1, <2>2, FlattenLists
  <2>4. QED
    BY <2>1, <2>3
<1>11. QED
  BY <1>5, <1>9, <1>10 DEF f

\* The configurations the property expects are these.
LEMMA ExpectedIs ==
  ASSUME NEW bench \in Benchmark
  PROVE  Expected(bench) = Configurations(bench)
<1> DEFINE n == Wheels(bench)
           t == bench.types
           m == Len(bench.others)
           On1(a) == {i \in 0 .. Len(t[a]) - 1 : t[a][i + 1]}
           ts == [a \in DOMAIN t |-> On1(a)]
           os == [a \in DOMAIN bench.others |-> 0 .. bench.others[a] - 1]
<1>1. /\ n \in Nat /\ DOMAIN t = 1 .. n
      /\ \A a \in 1 .. n : TypeSizes(bench)[a] = Len(t[a]) /\ Len(t[a]) \in Nat
  <2>1. t \in Seq(Seq(BOOLEAN))
    BY DEF Benchmark
  <2>2. DOMAIN t = 1 .. n /\ n \in Nat
    BY <2>1, LenProperties DEF Wheels
  <2>3. TypeSizes(bench) \in Seq(Nat) /\ Len(TypeSizes(bench)) = n
        /\ \A a \in 1 .. n : TypeSizes(bench)[a] = Len(t[a])
    BY TypeSizesIs
  <2>4. \A a \in 1 .. n : TypeSizes(bench)[a] \in Nat
    BY <2>3, ElementOfSeq
  <2>5. QED
    BY <2>2, <2>3, <2>4
<1>2. m \in Nat /\ DOMAIN bench.others = 1 .. m /\ \A a \in 1 .. m : bench.others[a] \in Nat
  <2>1. bench.others \in Seq(Nat)
    BY DEF Benchmark
  <2>2. QED
    BY <2>1, LenProperties, ElementOfSeq
<1>3. Expected(bench) = [types : Selections(ts), others : Selections(os), device : ToSet(Passes(bench))]
  BY DEF Expected
<1>4. \A u : u \in Selections(ts) <=> u \in [1 .. n -> UNION ToSet(ts)] /\ \A a \in 1 .. n : u[a] \in On1(a)
  BY <1>1 DEF Selections
<1>5. \A u : u \in Selections(os) <=> u \in [1 .. m -> UNION ToSet(os)]
                                      /\ \A a \in 1 .. m : u[a] \in 0 .. bench.others[a] - 1
  BY <1>2 DEF Selections
<1>6. ToSet(ts) = {On1(a) : a \in 1 .. n} /\ ToSet(os) = {0 .. bench.others[a] - 1 : a \in 1 .. m}
  BY <1>1, <1>2 DEF ToSet
<1>7. Selections(os) = OthersBelow(bench)
  <2>1. ASSUME NEW u \in Selections(os) PROVE u \in OthersBelow(bench)
    <3>1. u \in [1 .. m -> UNION ToSet(os)] /\ \A a \in 1 .. m : u[a] \in 0 .. bench.others[a] - 1
      BY <1>5
    <3>2. \A a \in 1 .. m : u[a] \in Nat /\ u[a] < bench.others[a]
      BY <1>2, <3>1
    <3>3. QED
      BY <3>1, <3>2 DEF OthersBelow, Below, Tuples
  <2>2. ASSUME NEW u \in OthersBelow(bench) PROVE u \in Selections(os)
    <3>1. u \in [1 .. m -> Nat] /\ \A a \in 1 .. m : u[a] \in Nat /\ u[a] < bench.others[a]
      BY DEF OthersBelow, Below, Tuples
    <3>2. \A a \in 1 .. m : u[a] \in 0 .. bench.others[a] - 1
      BY <1>2, <3>1
    <3>3. \A a \in 1 .. m : u[a] \in UNION ToSet(os)
      BY <1>6, <3>2
    <3>4. QED
      BY <1>5, <3>1, <3>2, <3>3
  <2>3. QED
    BY <2>1, <2>2
<1>8. Selections(ts) = Usable(bench)
  <2>1. ASSUME NEW u \in Selections(ts) PROVE u \in Usable(bench)
    <3>1. u \in [1 .. n -> UNION ToSet(ts)] /\ \A a \in 1 .. n : u[a] \in On1(a)
      BY <1>4
    <3>2. \A a \in 1 .. n : u[a] \in Nat /\ u[a] < Len(t[a]) /\ t[a][u[a] + 1]
      BY <1>1, <3>1
    <3>3. u \in Tuples(n)
      BY <3>1, <3>2 DEF Tuples
    <3>4. QED
      BY <1>1, <3>2, <3>3 DEF Usable, Below
  <2>2. ASSUME NEW u \in Usable(bench) PROVE u \in Selections(ts)
    <3>1. u \in [1 .. n -> Nat] /\ \A a \in 1 .. n : u[a] \in Nat /\ u[a] < Len(t[a]) /\ t[a][u[a] + 1]
      BY <1>1 DEF Usable, Below, Tuples
    <3>2. \A a \in 1 .. n : u[a] \in On1(a)
      BY <1>1, <3>1
    <3>3. \A a \in 1 .. n : u[a] \in UNION ToSet(ts)
      <4> TAKE a \in 1 .. n
      <4>1. On1(a) \in {On1(b) : b \in 1 .. n} /\ u[a] \in On1(a)
        BY <3>2
      <4> HIDE DEF On1, ts
      <4>2. On1(a) \in ToSet(ts)
        BY <1>6, <4>1
      <4>3. QED
        BY <4>1, <4>2
    <3>4. QED
      BY <1>4, <3>1, <3>2, <3>3
  <2>3. QED
    BY <2>1, <2>2
<1>9. QED
  BY <1>3, <1>7, <1>8 DEF Configurations, On

-----------------------------------------------------------------------------
(* Every configuration is run once                                         *)

\* The states made list the configurations.
Made ==
  \A b \in Generated : IsInjective(benchmarks[b].devices) =>
    Lists(Labels(states[b], Keys(benchmarks[b])), Configurations(benchmarks[b]))

Ran(b, i) == \E r \in DOMAIN runs[b] : runs[b][r].state = i

Once ==
  \A b \in DOMAIN benchmarks : IsInjective(benchmarks[b].devices) =>
    \A r, q \in DOMAIN runs[b] : runs[b][r].state = runs[b][q].state => r = q

\* The loops have passed the i-th state of the current benchmark.
Passed(i) ==
  \/ \E q \in 1 .. pass - 1 : states[current][i].device = Passes(Bench)[q]
  \/ /\ point \in {"scan", "running"}
     /\ states[current][i].device = Passes(Bench)[pass]
     /\ \/ states[current][i].typeConfig < typeConfig
        \/ /\ states[current][i].typeConfig = typeConfig
           /\ i < cursor \/ (i = cursor /\ point = "running")

\* The states that have run are those the loops have passed.
Reached ==
  point \in {"device", "scan", "running"} /\ IsInjective(Bench.devices) =>
    \A i \in DOMAIN states[current] : Ran(current, i) <=> Passed(i)

Whole ==
  \A b \in DOMAIN benchmarks : b < current /\ IsInjective(benchmarks[b].devices) =>
    \A i \in DOMAIN states[b] : Ran(b, i)

CoverInv == Made /\ Once /\ Reached /\ Whole

\* Where a benchmark is being run.
LEMMA InBenchmark ==
  ASSUME RunnerInv, point \in {"device", "scan", "running"}
  PROVE  /\ current \in DOMAIN benchmarks /\ current \in Nat /\ Bench \in Benchmark
         /\ states[current] \in Seq(StateOf(Bench)) /\ Len(states[current]) \in Nat
         /\ DOMAIN states[current] = 1 .. Len(states[current])
         /\ \A i \in DOMAIN states[current] :
              /\ states[current][i] \in StateOf(Bench)
              /\ states[current][i].typeConfig \in Nat
              /\ states[current][i].typeConfig < Len(type_configs(Bench))
              /\ states[current][i].device \in ToSet(Passes(Bench))
         /\ Len(type_configs(Bench)) \in Nat
<1>1. current \in DOMAIN benchmarks
  BY DEF RunnerInv, Placed
<1>2. /\ DOMAIN benchmarks = 1 .. Len(benchmarks) /\ Len(benchmarks) \in Nat
      /\ \A b \in DOMAIN benchmarks : benchmarks[b] \in Benchmark
  BY ProgramIs DEF RunnerInv
<1>3. current \in Nat /\ Bench \in Benchmark
  BY <1>1, <1>2 DEF Bench
<1>4. states[current] \in Seq(StateOf(Bench))
  BY <1>1 DEF RunnerInv, Listed, Bench
<1>5. Len(states[current]) \in Nat /\ DOMAIN states[current] = 1 .. Len(states[current])
  BY <1>4, LenProperties
<1>6. \A i \in DOMAIN states[current] : states[current][i] \in StateOf(Bench)
  BY <1>4, <1>5, ElementOfSeq
<1>7. \A s \in StateOf(Bench) : /\ s.typeConfig \in Nat
                                /\ s.typeConfig < Len(type_configs(Bench))
                                /\ s.device \in ToSet(Passes(Bench))
  BY DEF StateOf
<1>8. Len(type_configs(Bench)) \in Nat
  BY <1>3, ConfigsAgree
<1>9. QED
  BY <1>1, <1>3, <1>4, <1>5, <1>6, <1>7, <1>8

LEMMA CoverInit == Init => CoverInv
<1> SUFFICES ASSUME Init PROVE CoverInv
  OBVIOUS
<1>1. benchmarks \in Seq(Benchmark)
  BY ProgramsAssumption DEF Init
<1>2. DOMAIN benchmarks = 1 .. Len(benchmarks)
  BY <1>1, LenProperties
<1>3. Made
  BY <1>2 DEF Init, Made, Generated
<1>4. Once
  BY DEF Init, Once
<1>5. Reached
  BY DEF Init, Reached
<1>6. Whole
  BY <1>2 DEF Init, Whole
<1>7. QED
  BY <1>3, <1>4, <1>5, <1>6 DEF CoverInv

\* A step that makes no state, calls no generator and stays in the benchmark.
LEMMA SameBenchmark ==
  ASSUME CoverInv, UNCHANGED <<benchmarks, states, runs, current>>, Generated' = Generated
  PROVE  Made' /\ Once' /\ Whole'
<1>1. Made'
  BY DEF CoverInv, Made
<1>2. Once'
  BY DEF CoverInv, Once
<1>3. Whole'
  BY DEF CoverInv, Whole, Ran
<1>4. QED
  BY <1>1, <1>2, <1>3

LEMMA CoverCountConfigs ==
  ASSUME RunnerInv, CoverInv, CountConfigs
  PROVE  CoverInv'
<1>1. DOMAIN benchmarks = 1 .. Len(benchmarks)
  BY ProgramIs DEF RunnerInv
<1>2. Made'
  BY <1>1 DEF CountConfigs, Made, Generated
<1>3. Once'
  BY DEF CountConfigs, Once, CoverInv
<1>4. Reached'
  BY DEF CountConfigs, Reached
<1>5. Whole'
  BY <1>1 DEF CountConfigs, Whole
<1>6. QED
  BY <1>2, <1>3, <1>4, <1>5 DEF CoverInv

LEMMA CoverGenerateStates ==
  ASSUME RunnerInv, CoverInv, GenerateStates
  PROVE  CoverInv'
<1> USE DEF GenerateStates
<1>1. /\ DOMAIN benchmarks = 1 .. Len(benchmarks) /\ Len(benchmarks) \in Nat
      /\ current \in DOMAIN benchmarks /\ Bench \in Benchmark
  <2>1. /\ DOMAIN benchmarks = 1 .. Len(benchmarks) /\ Len(benchmarks) \in Nat
        /\ \A b \in DOMAIN benchmarks : benchmarks[b] \in Benchmark
    BY ProgramIs DEF RunnerInv
  <2>2. current \in DOMAIN benchmarks
    BY <2>1 DEF RunnerInv, TypeOK, Placed
  <2>3. QED
    BY <2>1, <2>2 DEF Bench
<1> DEFINE new == build_states(Bench, active)
<1>2. /\ states'[current] = new
      /\ \A b \in DOMAIN benchmarks : b # current => states'[b] = states[b]
  BY <1>1 DEF RunnerInv, Listed
<1>3. IsInjective(Bench.devices) => Lists(Labels(new, Keys(Bench)), Configurations(Bench))
  BY <1>1, StatesList DEF RunnerInv, Placed
<1> HIDE DEF new
<1>4. \A b \in Generated' : b \in DOMAIN benchmarks /\ (b = current \/ (b # current /\ b \in Generated))
  BY <1>1 DEF Generated
<1>5. Made'
  BY <1>2, <1>3, <1>4 DEF CoverInv, Made, Bench
<1>6. Once'
  BY DEF CoverInv, Once
<1>7. runs[current] = << >> /\ DOMAIN << >> = {}
  BY <1>1 DEF RunnerInv, Called
<1>8. Reached'
  <2>1. \A i : ~Ran(current, i)'
    BY <1>7 DEF Ran
  <2>2. \A i : ~Passed(i)'
    BY DEF Passed
  <2>3. QED
    BY <2>1, <2>2 DEF Reached
<1>9. Whole'
  BY <1>1, <1>2 DEF CoverInv, Whole, Ran
<1>10. QED
  BY <1>5, <1>6, <1>8, <1>9 DEF CoverInv

LEMMA CoverStartDevice ==
  ASSUME RunnerInv, CoverInv, StartDevice
  PROVE  CoverInv'
<1> USE DEF StartDevice
<1>1. Made' /\ Once' /\ Whole'
  BY SameBenchmark DEF Generated
<1>2. Reached'
  <2> SUFFICES ASSUME IsInjective(Bench.devices), NEW i \in DOMAIN states[current]
               PROVE  Ran(current, i)' <=> Passed(i)'
    BY DEF Reached, Bench
  <2>1. Ran(current, i)' <=> Ran(current, i)
    BY DEF Ran
  <2>2. Ran(current, i) <=> Passed(i)
    BY DEF CoverInv, Reached
  <2>3. states[current][i].typeConfig \in Nat /\ i \in Nat \ {0}
    BY InBenchmark
  <2>4. Passed(i)' <=> Passed(i)
    BY <2>3 DEF Passed, Bench
  <2>5. QED
    BY <2>1, <2>2, <2>4
<1>3. QED
  BY <1>1, <1>2 DEF CoverInv

LEMMA CoverPassOver ==
  ASSUME RunnerInv, CoverInv, PassOver
  PROVE  CoverInv'
<1> USE DEF PassOver, InTypeConfig
<1>1. Made' /\ Once' /\ Whole'
  BY SameBenchmark DEF Generated
<1>2. Reached'
  <2> SUFFICES ASSUME IsInjective(Bench.devices), NEW i \in DOMAIN states[current]
               PROVE  Ran(current, i)' <=> Passed(i)'
    BY DEF Reached, Bench
  <2>1. Ran(current, i)' <=> Ran(current, i)
    BY DEF Ran
  <2>2. Ran(current, i) <=> Passed(i)
    BY DEF CoverInv, Reached
  <2>3. states[current][i].typeConfig \in Nat /\ i \in Nat \ {0}
        /\ typeConfig \in Nat /\ cursor \in Nat
    BY InBenchmark DEF RunnerInv, TypeOK
  <2>4. i = cursor => ~(/\ states[current][i].device = Passes(Bench)[pass]
                        /\ states[current][i].typeConfig = typeConfig)
    BY DEF Selected, CurState
  <2>5. Passed(i)' <=> Passed(i)
    BY <2>3, <2>4 DEF Passed, Bench
  <2>6. QED
    BY <2>1, <2>2, <2>5
<1>3. QED
  BY <1>1, <1>2 DEF CoverInv

LEMMA CoverNextTypeConfig ==
  ASSUME RunnerInv, CoverInv, NextTypeConfig
  PROVE  CoverInv'
<1> USE DEF NextTypeConfig, InTypeConfig
<1>1. Made' /\ Once' /\ Whole'
  BY SameBenchmark DEF Generated
<1>2. Reached'
  <2> SUFFICES ASSUME IsInjective(Bench.devices), NEW i \in DOMAIN states[current]
               PROVE  Ran(current, i)' <=> Passed(i)'
    BY DEF Reached, Bench
  <2>1. Ran(current, i)' <=> Ran(current, i)
    BY DEF Ran
  <2>2. Ran(current, i) <=> Passed(i)
    BY DEF CoverInv, Reached
  <2>3. states[current][i].typeConfig \in Nat /\ i \in 1 .. Len(states[current])
        /\ typeConfig \in Nat /\ cursor \in Nat /\ Len(states[current]) \in Nat
    BY InBenchmark DEF RunnerInv, TypeOK
  <2>4. i < cursor /\ i # 0
    BY <2>3
  <2>5. Passed(i)' <=> Passed(i)
    BY <2>3, <2>4 DEF Passed, Bench
  <2>6. QED
    BY <2>1, <2>2, <2>5
<1>3. QED
  BY <1>1, <1>2 DEF CoverInv

LEMMA CoverFinishDevice ==
  ASSUME RunnerInv, CoverInv, FinishDevice
  PROVE  CoverInv'
<1> USE DEF FinishDevice
<1>1. Made' /\ Once' /\ Whole'
  BY SameBenchmark DEF Generated
<1>2. Reached'
  <2> SUFFICES ASSUME IsInjective(Bench.devices), NEW i \in DOMAIN states[current]
               PROVE  Ran(current, i)' <=> Passed(i)'
    BY DEF Reached, Bench
  <2>1. Ran(current, i)' <=> Ran(current, i)
    BY DEF Ran
  <2>2. Ran(current, i) <=> Passed(i)
    BY DEF CoverInv, Reached
  <2>3. states[current][i].typeConfig < typeConfig
    BY InBenchmark
  <2>4. pass \in Nat \ {0} /\ \A q \in 1 .. pass : q = pass \/ q \in 1 .. pass - 1
    BY DEF RunnerInv, TypeOK
  <2>5. Passed(i) <=> \E q \in 1 .. pass : states[current][i].device = Passes(Bench)[q]
    BY <2>3, <2>4 DEF Passed
  <2>6. (pass + 1) - 1 = pass
    BY <2>4
  <2>7. Passed(i)' <=> \E q \in 1 .. pass : states[current][i].device = Passes(Bench)[q]
    BY <2>6 DEF Passed, Bench
  <2>8. QED
    BY <2>1, <2>2, <2>5, <2>7
<1>3. QED
  BY <1>1, <1>2 DEF CoverInv

LEMMA CoverFinishBenchmark ==
  ASSUME RunnerInv, CoverInv, FinishBenchmark
  PROVE  CoverInv'
<1> USE DEF FinishBenchmark, loop
<1>1. /\ current \in DOMAIN benchmarks /\ current \in Nat /\ Bench \in Benchmark
      /\ \A i \in DOMAIN states[current] : states[current][i].device \in ToSet(Passes(Bench))
  BY InBenchmark
<1>2. DOMAIN benchmarks = 1 .. Len(benchmarks) /\ Len(benchmarks) \in Nat
  BY ProgramIs DEF RunnerInv
<1>3. Made'
  <2>1. Generated' \subseteq Generated
    BY <1>1, <1>2 DEF Generated
  <2>2. QED
    BY <2>1 DEF CoverInv, Made
<1>4. Once'
  BY DEF CoverInv, Once
<1>5. Reached'
  BY DEF Reached
<1>6. ASSUME IsInjective(Bench.devices), NEW i \in DOMAIN states[current]
      PROVE  Ran(current, i)
  <2>1. DOMAIN Passes(Bench) = 1 .. Len(Passes(Bench)) /\ Len(Passes(Bench)) \in Nat
    BY <1>1, PassesIs
  <2>2. PICK q \in 1 .. Len(Passes(Bench)) : states[current][i].device = Passes(Bench)[q]
    BY <1>1, <2>1 DEF ToSet
  <2>3. q \in 1 .. pass - 1
    BY <2>1 DEF RunnerInv, TypeOK
  <2>4. Passed(i)
    BY <2>2, <2>3 DEF Passed
  <2>5. QED
    BY <1>6, <2>4 DEF CoverInv, Reached
<1>7. Whole'
  <2>1. \A b \in DOMAIN benchmarks : b < current + 1 => b < current \/ b = current
    BY <1>1, <1>2
  <2>2. \A b, i : Ran(b, i)' <=> Ran(b, i)
    BY DEF Ran
  <2>3. QED
    BY <1>6, <2>1, <2>2 DEF CoverInv, Whole, Bench
<1>8. QED
  BY <1>3, <1>4, <1>5, <1>7 DEF CoverInv

LEMMA CoverStateCompletes ==
  ASSUME RunnerInv, CoverInv, StateCompletes
  PROVE  CoverInv'
<1> USE DEF StateCompletes
<1>1. /\ current \in DOMAIN benchmarks /\ current \in Nat /\ Bench \in Benchmark
      /\ states[current] \in Seq(StateOf(Bench)) /\ Len(states[current]) \in Nat
      /\ DOMAIN states[current] = 1 .. Len(states[current])
      /\ \A i \in DOMAIN states[current] :
           /\ states[current][i] \in StateOf(Bench) /\ states[current][i].typeConfig \in Nat
  BY InBenchmark
<1>2. PICK skips \in BOOLEAN, throws \in BOOLEAN :
        states' = [states EXCEPT ![current][cursor].skipped = @ \/ skips \/ throws]
  OBVIOUS
<1> DEFINE old == states[current]
           s == [old[cursor] EXCEPT !.skipped = @ \/ skips \/ throws]
           new == [old EXCEPT ![cursor] = s]
<1>3. cursor \in DOMAIN old
  BY DEF RunnerInv, Placed
<1>4. /\ s.types = old[cursor].types /\ s.others = old[cursor].others
      /\ s.device = old[cursor].device /\ s.typeConfig = old[cursor].typeConfig
      /\ s \in StateOf(Bench)
  <2>1. old[cursor] \in StateOf(Bench)
    BY <1>1, <1>3
  <2>2. (old[cursor].skipped \/ skips \/ throws) \in BOOLEAN
    OBVIOUS
  <2> HIDE DEF old
  <2>3. QED
    BY <2>1, <2>2 DEF StateOf
<1> HIDE DEF s
<1>5. /\ states'[current] = new
      /\ \A b \in DOMAIN benchmarks : b # current => states'[b] = states[b]
  BY <1>1, <1>2 DEF RunnerInv, Listed, s
<1>6. /\ DOMAIN new = DOMAIN old /\ Len(new) = Len(old)
      /\ \A i \in DOMAIN old : /\ new[i] \in StateOf(Bench)
                               /\ new[i].types = old[i].types /\ new[i].others = old[i].others
                               /\ new[i].device = old[i].device
                               /\ new[i].typeConfig = old[i].typeConfig
  <2>1. old \in Seq(StateOf(Bench)) /\ DOMAIN old = 1 .. Len(old)
    BY <1>1
  <2>2. \A i \in DOMAIN old : old[i] \in StateOf(Bench)
    BY <1>1
  <2> HIDE DEF old
  <2>3. /\ new \in Seq(StateOf(Bench)) /\ Len(new) = Len(old)
        /\ \A i \in 1 .. Len(old) : new[i] = IF i = cursor THEN s ELSE old[i]
    BY <1>3, <1>4, <2>1, ExceptSeq
  <2>4. DOMAIN new = 1 .. Len(new)
    BY <2>3, LenProperties
  <2>5. QED
    BY <1>4, <2>1, <2>2, <2>3, <2>4
<1> HIDE DEF new
<1>7. Labels(new, Keys(Bench)) = Labels(old, Keys(Bench))
  <2>1. \A i \in 1 .. Len(old) : Keys(Bench)[new[i]] = Keys(Bench)[old[i]]
    <3> TAKE i \in 1 .. Len(old)
    <3>1. new[i] \in StateOf(Bench) /\ old[i] \in StateOf(Bench)
          /\ KeyOf(new[i]) = KeyOf(old[i])
      BY <1>1, <1>6 DEF KeyOf
    <3>2. QED
      BY <3>1 DEF Keys
  <2>2. QED
    BY <1>6, <2>1 DEF Labels
<1>8. Made'
  <2>1. Generated' = Generated
    BY DEF Generated
  <2>2. \A b \in Generated : b \in DOMAIN benchmarks
    BY DEF Generated
  <2>3. QED
    BY <1>5, <1>7, <2>1, <2>2 DEF CoverInv, Made, Bench
<1>9. Once'
  BY DEF CoverInv, Once
<1>10. Whole'
  BY <1>1, <1>5 DEF CoverInv, Whole, Ran
<1>11. Reached'
  <2> SUFFICES ASSUME IsInjective(Bench.devices), NEW i \in DOMAIN states[current]
               PROVE  Ran(current, i)' <=> Passed(i)'
    BY <1>5, <1>6 DEF Reached, Bench
  <2>1. Ran(current, i)' <=> Ran(current, i)
    BY DEF Ran
  <2>2. Ran(current, i) <=> Passed(i)
    BY DEF CoverInv, Reached
  <2>3. i \in Nat /\ cursor \in Nat
    BY <1>1, <1>3
  <2>4. /\ states'[current][i].device = states[current][i].device
        /\ states'[current][i].typeConfig = states[current][i].typeConfig
    BY <1>5, <1>6
  <2>5. i < cursor + 1 <=> i < cursor \/ i = cursor
    BY <2>3
  <2>6. Passed(i)' <=> Passed(i)
    BY <2>4, <2>5 DEF Passed, Bench
  <2>7. QED
    BY <2>1, <2>2, <2>6
<1>12. QED
  BY <1>8, <1>9, <1>10, <1>11 DEF CoverInv

LEMMA CoverRunState ==
  ASSUME RunnerInv, CoverInv, RunState
  PROVE  CoverInv'
<1> USE DEF RunState, InTypeConfig, loop, progress
<1> DEFINE call == [state |-> cursor, types |-> type_configs(Bench)[typeConfig + 1]]
           old == runs[current]
           n == Len(old)
<1>1. /\ current \in DOMAIN benchmarks /\ current \in Nat /\ Bench \in Benchmark
      /\ Len(states[current]) \in Nat
      /\ DOMAIN states[current] = 1 .. Len(states[current])
      /\ \A i \in DOMAIN states[current] : states[current][i].typeConfig \in Nat
      /\ cursor \in DOMAIN states[current] /\ pass \in Nat \ {0} /\ typeConfig \in Nat
  BY InBenchmark DEF RunnerInv, TypeOK
<1>2. old \in Seq(Calls(Bench)) /\ n \in Nat /\ DOMAIN old = 1 .. n
  <2>1. old \in Seq(Calls(Bench))
    BY <1>1 DEF RunnerInv, Called, Bench
  <2>2. QED
    BY <2>1, LenProperties
<1>3. call.state = cursor
  OBVIOUS
<1> HIDE DEF call
<1>4. /\ runs'[current] = Append(old, call)
      /\ \A b \in DOMAIN benchmarks : b # current => runs'[b] = runs[b]
  BY <1>1 DEF RunnerInv, Called, call
<1>5. /\ DOMAIN runs'[current] = 1 .. n + 1
      /\ runs'[current][n + 1] = call
      /\ \A r \in 1 .. n : runs'[current][r] = runs[current][r]
  <2> DEFINE E == Calls(Bench) \cup {call}
  <2>1. call \in E
    OBVIOUS
  <2>2. old \in Seq(E)
    <3>1. Calls(Bench) \subseteq E
      OBVIOUS
    <3> HIDE DEF E, old
    <3>2. QED
      BY <1>2, <3>1, SeqMonotonic
  <2> HIDE DEF E, old
  <2>3. /\ Append(old, call) \in Seq(E) /\ Len(Append(old, call)) = Len(old) + 1
        /\ \A r \in 1 .. Len(old) : Append(old, call)[r] = old[r]
        /\ Append(old, call)[Len(old) + 1] = call
    BY <2>1, <2>2, AppendProperties
  <2>4. DOMAIN Append(old, call) = 1 .. Len(Append(old, call))
    BY <2>3, LenProperties
  <2>5. QED
    BY <1>4, <2>3, <2>4 DEF old
<1>6. \A i : Ran(current, i)' <=> Ran(current, i) \/ i = cursor
  <2> TAKE i
  <2>1. ASSUME Ran(current, i)' PROVE Ran(current, i) \/ i = cursor
    <3>1. PICK r \in 1 .. n + 1 : runs'[current][r].state = i
      BY <1>5, <2>1 DEF Ran
    <3>2. CASE r = n + 1
      BY <1>3, <1>5, <3>1, <3>2
    <3>3. CASE r # n + 1
      <4>1. r \in 1 .. n
        BY <1>2, <3>3
      <4>2. QED
        BY <1>2, <1>5, <3>1, <4>1 DEF Ran
    <3>4. QED
      BY <3>2, <3>3
  <2>2. ASSUME Ran(current, i) PROVE Ran(current, i)'
    <3>1. PICK r \in 1 .. n : runs[current][r].state = i
      BY <1>2, <2>2 DEF Ran
    <3>2. r \in 1 .. n + 1 /\ runs'[current][r].state = i
      BY <1>2, <1>5, <3>1
    <3>3. QED
      BY <1>5, <3>2 DEF Ran
  <2>3. ASSUME i = cursor PROVE Ran(current, i)'
    <3>1. n + 1 \in 1 .. n + 1 /\ runs'[current][n + 1].state = i
      BY <1>2, <1>3, <1>5, <2>3
    <3>2. QED
      BY <1>5, <3>1 DEF Ran
  <2>4. QED
    BY <2>1, <2>2, <2>3
<1>7. states[current][cursor].device = Passes(Bench)[pass]
      /\ states[current][cursor].typeConfig = typeConfig
  BY DEF Selected, CurState
<1>8. ASSUME IsInjective(Bench.devices) PROVE ~Ran(current, cursor)
  <2>1. pass \in 1 .. Len(Passes(Bench)) /\ Len(Passes(Bench)) \in Nat
    BY <1>1, PassesIs DEF RunnerInv, Placed
  <2>2. \A q \in 1 .. pass - 1 : q \in 1 .. Len(Passes(Bench)) /\ q # pass
    BY <2>1
  <2>3. \A q \in 1 .. pass - 1 : Passes(Bench)[q] # Passes(Bench)[pass]
    BY <1>1, <1>8, <2>1, <2>2, PassesOnce
  <2>4. ~Passed(cursor)
    BY <1>1, <1>7, <2>3 DEF Passed
  <2>5. QED
    BY <1>1, <1>8, <2>4 DEF CoverInv, Reached
<1>9. Made'
  BY DEF CoverInv, Made, Generated
<1>10. Once'
  <2> SUFFICES ASSUME NEW b \in DOMAIN benchmarks, IsInjective(benchmarks[b].devices),
                      NEW r \in DOMAIN runs'[b], NEW q \in DOMAIN runs'[b],
                      runs'[b][r].state = runs'[b][q].state
               PROVE  r = q
    BY DEF Once
  <2>1. CASE b # current
    BY <1>4, <2>1 DEF CoverInv, Once
  <2>2. CASE b = current
    <3>1. r \in 1 .. n + 1 /\ q \in 1 .. n + 1
      BY <1>5, <2>2
    <3>2. \A k \in 1 .. n : runs'[current][k].state # cursor
      BY <1>2, <1>5, <1>8, <2>2 DEF Ran, Bench
    <3>3. CASE r = n + 1 \/ q = n + 1
      <4>1. runs'[current][r].state = cursor /\ runs'[current][q].state = cursor
        BY <1>3, <1>5, <2>2, <3>3
      <4>2. \A k \in 1 .. n + 1 : k \in 1 .. n \/ k = n + 1
        BY <1>2
      <4>3. QED
        BY <3>1, <3>2, <4>1, <4>2
    <3>4. CASE r # n + 1 /\ q # n + 1
      <4>1. r \in 1 .. n /\ q \in 1 .. n
        BY <1>2, <3>1, <3>4
      <4>2. runs[current][r].state = runs[current][q].state
        BY <1>5, <2>2, <4>1
      <4>3. QED
        BY <1>2, <2>2, <4>1, <4>2 DEF CoverInv, Once
    <3>5. QED
      BY <3>3, <3>4
  <2>3. QED
    BY <2>1, <2>2
<1>11. Whole'
  <2>1. \A b \in DOMAIN benchmarks : b < current => b # current
    BY <1>1
  <2>2. QED
    BY <1>4, <2>1 DEF CoverInv, Whole, Ran
<1>12. Reached'
  <2> SUFFICES ASSUME IsInjective(Bench.devices), NEW i \in DOMAIN states[current]
               PROVE  Ran(current, i)' <=> Passed(i)'
    BY DEF Reached, Bench
  <2>1. Ran(current, i) <=> Passed(i)
    BY DEF CoverInv, Reached
  <2>2. Passed(i)' <=> Passed(i) \/ i = cursor
    BY <1>1, <1>7 DEF Passed, Bench
  <2>3. QED
    BY <1>6, <2>1, <2>2
<1>13. QED
  BY <1>9, <1>10, <1>11, <1>12 DEF CoverInv

LEMMA CoverKeeps == RunnerInv /\ CoverInv /\ [Next]_vars => CoverInv'
<1> SUFFICES ASSUME RunnerInv, CoverInv, [Next]_vars PROVE CoverInv'
  OBVIOUS
<1>1. CASE GeneratorAborts
  <2>1. Made' /\ Once' /\ Whole'
    BY <1>1, SameBenchmark DEF Generated, GeneratorAborts
  <2>2. QED
    BY <1>1, <2>1 DEF CoverInv, Reached, GeneratorAborts
<1>2. CASE FinishAll
  <2>1. Generated' = Generated
    BY <1>2, ProgramIs DEF Generated, FinishAll, RunnerInv, TypeOK
  <2>2. Made' /\ Once' /\ Whole'
    BY <1>2, <2>1, SameBenchmark DEF FinishAll
  <2>3. QED
    BY <1>2, <2>2 DEF CoverInv, Reached, FinishAll
<1>3. CASE UNCHANGED vars
  <2>1. Made' /\ Once' /\ Whole'
    BY <1>3, SameBenchmark DEF Generated, vars
  <2>2. Reached'
    BY <1>3 DEF CoverInv, Reached, Ran, Passed, vars, loop, Bench
  <2>3. QED
    BY <2>1, <2>2 DEF CoverInv
<1>4. QED
  BY <1>1, <1>2, <1>3, CoverCountConfigs, CoverGenerateStates, CoverStartDevice,
     CoverPassOver, CoverRunState, CoverStateCompletes, CoverNextTypeConfig,
     CoverFinishDevice, CoverFinishBenchmark DEF Next

LEMMA CoverInvHolds == Spec => []CoverInv
BY RunnerInvHolds, CoverInit, CoverKeeps, PTL DEF Spec

\* A benchmark that has been run called its generator exactly once for each
\* configuration called for.
LEMMA CoveredWhenFinished == RunnerInv /\ CoverInv => FinishedBenchmarkCovered
<1> SUFFICES ASSUME RunnerInv, CoverInv, NEW b \in DOMAIN runs, b < current,
                    IsInjective(benchmarks[b].devices)
             PROVE  LET Ran1(r) == LET s == states[b][r.state]
                                   IN  [types |-> r.types, others |-> s.others, device |-> s.device]
                        ran == [r \in DOMAIN runs[b] |-> Ran1(runs[b][r])]
                    IN  IsInjective(ran) /\ ToSet(ran) = Expected(benchmarks[b])
  BY DEF FinishedBenchmarkCovered
<1> DEFINE Ran1(r) == LET s == states[b][r.state]
                      IN  [types |-> r.types, others |-> s.others, device |-> s.device]
           ran == [r \in DOMAIN runs[b] |-> Ran1(runs[b][r])]
           bench == benchmarks[b]
           S == states[b]
           C == Configurations(bench)
           L == Labels(S, Keys(bench))
           D == DOMAIN runs[b]
<1>1. b \in DOMAIN benchmarks /\ bench \in Benchmark /\ b \in Generated
  <2>1. b \in DOMAIN benchmarks
    BY DEF RunnerInv, TypeOK
  <2>2. QED
    BY <2>1, ProgramIs DEF RunnerInv, Generated
<1>2. S \in Seq(StateOf(bench)) /\ Len(S) \in Nat /\ DOMAIN S = 1 .. Len(S)
      /\ \A i \in 1 .. Len(S) : S[i] \in StateOf(bench)
  <2>1. S \in Seq(StateOf(bench))
    BY <1>1 DEF RunnerInv, Listed
  <2> HIDE DEF S
  <2>2. QED
    BY <2>1, LenProperties, ElementOfSeq
<1>3. Lists(L, C)
  BY <1>1 DEF CoverInv, Made
<1>4. /\ \A r \in D : runs[b][r].state \in 1 .. Len(S)
      /\ \A r \in D : runs[b][r].types = S[runs[b][r].state].types
  BY <1>1, <1>2 DEF RunnerInv, Called
<1>5. \A r, q \in D : runs[b][r].state = runs[b][q].state => r = q
  BY <1>1 DEF CoverInv, Once
<1>6. \A i \in 1 .. Len(S) : \E r \in D : runs[b][r].state = i
  BY <1>1, <1>2 DEF CoverInv, Whole, Ran
<1>7. Len(L) = Len(S) /\ \A i \in 1 .. Len(S) : L[i] = KeyOf(S[i])
  <2>1. Len(L) = Len(S) /\ \A i \in 1 .. Len(S) : L[i] = Keys(bench)[S[i]]
    BY <1>2, LabelsLength
  <2> HIDE DEF S, L
  <2>2. \A i \in 1 .. Len(S) : Keys(bench)[S[i]] = KeyOf(S[i])
    BY <1>2 DEF Keys
  <2>3. QED
    BY <2>1, <2>2
<1>8. DOMAIN ran = D /\ \A r \in D : ran[r] = L[runs[b][r].state]
  <2>1. \A r \in D : ran[r] = KeyOf(S[runs[b][r].state])
    <3> TAKE r \in D
    <3>1. ran[r] = Ran1(runs[b][r])
      OBVIOUS
    <3>2. runs[b][r].types = S[runs[b][r].state].types
      BY <1>4
    <3>3. QED
      BY <3>1, <3>2 DEF KeyOf
  <2>2. DOMAIN ran = D
    OBVIOUS
  <2> HIDE DEF ran, L, S, D
  <2>3. QED
    BY <1>4, <1>7, <2>1, <2>2
<1> HIDE DEF ran, L, S, D, C
<1>9. IsInjective(ran)
  <2> SUFFICES ASSUME NEW r \in D, NEW q \in D, ran[r] = ran[q] PROVE r = q
    BY <1>8 DEF IsInjective
  <2>1. runs[b][r].state = runs[b][q].state
    BY <1>3, <1>4, <1>7, <1>8 DEF Lists
  <2>2. QED
    BY <1>5, <2>1
<1>10. ToSet(ran) = C
  <2>1. ToSet(ran) = {ran[r] : r \in D}
    BY <1>8 DEF ToSet
  <2>2. \A r \in D : ran[r] \in C
    BY <1>3, <1>4, <1>7, <1>8 DEF Lists
  <2>3. ASSUME NEW c \in C PROVE \E r \in D : ran[r] = c
    <3>1. PICK i \in 1 .. Len(S) : L[i] = c
      BY <1>3, <1>7 DEF Lists
    <3>2. PICK r \in D : runs[b][r].state = i
      BY <1>6
    <3>3. QED
      BY <1>8, <3>1, <3>2
  <2>4. QED
    BY <2>1, <2>2, <2>3
<1>11. Expected(bench) = C
  BY <1>1, ExpectedIs DEF C
<1>12. QED
  BY <1>9, <1>10, <1>11 DEF ran, D

\* After a benchmark has run, its generator has been called for every
\* configuration its axes, masks and devices call for, and for each of them once.
THEOREM BenchmarksCovered == Spec => []FinishedBenchmarkCovered
BY CoveredWhenFinished, RunnerInvHolds, CoverInvHolds, PTL

-----------------------------------------------------------------------------
(* The count of the states                                                 *)

\* There are as many tuples below the sizes as the odometer has turns.
LEMMA BelowCount ==
  ASSUME NEW sizes \in Seq(Nat)
  PROVE  /\ IsFiniteSet(Below(sizes, Len(sizes)))
         /\ Cardinality(Below(sizes, Len(sizes))) = get_number_of_states(sizes)
         /\ get_number_of_states(sizes) \in Nat
<1>1. Lists(Enumeration(sizes), Below(sizes, Len(sizes)))
  BY EnumerationLists
<1>2. get_number_of_states(sizes) \in Nat /\ Len(Enumeration(sizes)) = get_number_of_states(sizes)
  BY EnumerationIs
<1>3. QED
  BY <1>1, <1>2, ListLength

Active(mask) == {i \in DOMAIN mask : mask[i]}

ActiveCounts(bench) == [a \in DOMAIN bench.types |-> Cardinality(Active(bench.types[a]))]

LEMMA ActiveCountsAre ==
  ASSUME NEW bench \in Benchmark
  PROVE  /\ ActiveCounts(bench) \in Seq(Nat) /\ Len(ActiveCounts(bench)) = Wheels(bench)
         /\ \A a \in 1 .. Wheels(bench) :
              /\ ActiveCounts(bench)[a] = Cardinality(Active(bench.types[a]))
              /\ IsFiniteSet(Active(bench.types[a]))
              /\ Active(bench.types[a]) \subseteq 1 .. Len(bench.types[a])
              /\ Len(bench.types[a]) \in Nat
<1> DEFINE t == bench.types
           n == Wheels(bench)
           B == Seq(BOOLEAN)
<1>1. \A mask \in B : /\ IsFiniteSet(Active(mask)) /\ Cardinality(Active(mask)) \in Nat
                      /\ Active(mask) \subseteq 1 .. Len(mask) /\ Len(mask) \in Nat
  <2> SUFFICES ASSUME NEW mask \in Seq(BOOLEAN)
               PROVE  /\ IsFiniteSet(Active(mask)) /\ Cardinality(Active(mask)) \in Nat
                      /\ Active(mask) \subseteq 1 .. Len(mask) /\ Len(mask) \in Nat
    OBVIOUS
  <2>1. Len(mask) \in Nat /\ DOMAIN mask = 1 .. Len(mask)
    BY LenProperties
  <2>2. IsFiniteSet(1 .. Len(mask))
    BY <2>1, FS_Interval
  <2>3. Active(mask) \subseteq 1 .. Len(mask)
    BY <2>1 DEF Active
  <2>4. IsFiniteSet(Active(mask))
    BY <2>2, <2>3, FS_Subset
  <2>5. QED
    BY <2>1, <2>3, <2>4, FS_CardinalityType
<1>2. n \in Nat /\ DOMAIN t = 1 .. n /\ \A a \in 1 .. n : t[a] \in B
  BY LenProperties, ElementOfSeq DEF Wheels, Benchmark
<1> HIDE DEF t, n, B
<1>3. ActiveCounts(bench) = [a \in 1 .. n |-> Cardinality(Active(t[a]))]
  BY <1>2 DEF ActiveCounts, t
<1>4. \A a \in 1 .. n : Cardinality(Active(t[a])) \in Nat
  BY <1>1, <1>2
<1>5. ActiveCounts(bench) \in Seq(Nat) /\ Len(ActiveCounts(bench)) = n
  BY <1>2, <1>3, <1>4
<1>6. QED
  BY <1>1, <1>2, <1>3, <1>5 DEF t, n

\* The type configurations that no mask excludes: one for each choice among the
\* active values of each axis.
LEMMA UsableCount ==
  ASSUME NEW bench \in Benchmark
  PROVE  /\ IsFiniteSet(Usable(bench))
         /\ Cardinality(Usable(bench)) = get_number_of_states(ActiveCounts(bench))
         /\ get_number_of_states(ActiveCounts(bench)) \in Nat
<1> DEFINE t == bench.types
           n == Wheels(bench)
           c == ActiveCounts(bench)
           A(a) == Active(t[a])
           pick == [a \in 1 .. n |-> CHOOSE g : g \in Bijection(1 .. c[a], A(a))]
           X == Below(c, n)
           Y == Usable(bench)
           to == [u \in X |-> [a \in 1 .. n |-> pick[a][u[a] + 1] - 1]]
<1>1. /\ n \in Nat /\ c \in Seq(Nat) /\ Len(c) = n
      /\ \A a \in 1 .. n : c[a] \in Nat
      /\ \A a \in 1 .. n : c[a] = Cardinality(A(a)) /\ IsFiniteSet(A(a))
      /\ \A a \in 1 .. n : A(a) \subseteq 1 .. Len(t[a]) /\ Len(t[a]) \in Nat
  <2>1. n \in Nat
    BY TypeSizesIs
  <2>2. QED
    BY <2>1, ActiveCountsAre, ElementOfSeq
<1>2. \A u : u \in Y <=> u \in Tuples(n) /\ \A a \in 1 .. n : u[a] < Len(t[a]) /\ t[a][u[a] + 1]
  BY TypeSizesIs DEF Usable, Below
<1>3. \A a \in 1 .. n : \A i : i \in A(a) <=> i \in 1 .. Len(t[a]) /\ t[a][i]
  <2>1. \A a \in 1 .. n : DOMAIN t[a] = 1 .. Len(t[a])
    BY LenProperties, ElementOfSeq DEF Benchmark, Wheels
  <2>2. QED
    BY <2>1 DEF Active
<1> HIDE DEF t, n, c, A, Y
<1>4. \A a \in 1 .. n : pick[a] \in Bijection(1 .. c[a], A(a))
  <2> TAKE a \in 1 .. n
  <2>1. ExistsBijection(1 .. c[a], A(a))
    BY <1>1, FS_CardinalityType
  <2>2. QED
    BY <2>1 DEF ExistsBijection
<1>5. \A a \in 1 .. n : /\ \A i \in 1 .. c[a] : pick[a][i] \in A(a)
                        /\ \A i, j \in 1 .. c[a] : pick[a][i] = pick[a][j] => i = j
                        /\ \A x \in A(a) : \E i \in 1 .. c[a] : pick[a][i] = x
  <2> TAKE a \in 1 .. n
  <2> DEFINE g == pick[a]
             m == c[a]
             Z == A(a)
  <2>1. g \in Bijection(1 .. m, Z)
    BY <1>4
  <2> HIDE DEF g, m, Z
  <2>2. /\ \A i \in 1 .. m : g[i] \in Z
        /\ \A i, j \in 1 .. m : g[i] = g[j] => i = j
        /\ \A x \in Z : \E i \in 1 .. m : g[i] = x
    BY <2>1 DEF Bijection, Injection, Surjection, IsInjective
  <2>3. QED
    BY <2>2 DEF g, m, Z
<1> HIDE DEF pick
<1>6. \A u : u \in X <=> u \in Tuples(n) /\ \A a \in 1 .. n : u[a] < c[a]
  BY DEF Below
<1>7. \A u \in X, a \in 1 .. n : u[a] + 1 \in 1 .. c[a]
  BY <1>1, <1>6 DEF Tuples
<1>8. \A u \in X, a \in 1 .. n : pick[a][u[a] + 1] \in A(a) /\ pick[a][u[a] + 1] \in 1 .. Len(t[a])
  BY <1>1, <1>5, <1>7
<1>9. \A u \in X, a \in 1 .. n : to[u][a] = pick[a][u[a] + 1] - 1
  OBVIOUS
<1>10. \A u \in X : to[u] = [a \in 1 .. n |-> pick[a][u[a] + 1] - 1]
  OBVIOUS
<1> HIDE DEF X
<1>11. to \in [X -> Y]
  <2> SUFFICES ASSUME NEW u \in X PROVE to[u] \in Y
    OBVIOUS
  <2>1. \A a \in 1 .. n : /\ to[u][a] \in Nat /\ to[u][a] < Len(t[a])
                          /\ to[u][a] + 1 = pick[a][u[a] + 1]
    <3> TAKE a \in 1 .. n
    <3> DEFINE x == pick[a][u[a] + 1]
               y == to[u][a]
               m == Len(t[a])
    <3>1. x \in 1 .. m /\ m \in Nat /\ y = x - 1
      BY <1>1, <1>8, <1>9
    <3> HIDE DEF x, y, m
    <3>2. y \in Nat /\ y < m /\ y + 1 = x
      BY <3>1
    <3>3. QED
      BY <3>2 DEF x, y, m
  <2>2. to[u] \in Tuples(n)
    BY <1>10, <2>1 DEF Tuples
  <2> HIDE DEF to
  <2>3. \A a \in 1 .. n : t[a][to[u][a] + 1]
    BY <1>3, <1>8, <2>1
  <2>4. QED
    BY <1>2, <2>1, <2>2, <2>3
<1> HIDE DEF to
<1>12. ASSUME NEW u \in X, NEW v \in X, to[u] = to[v] PROVE u = v
  <2>1. u \in Tuples(n) /\ v \in Tuples(n)
    BY <1>6
  <2>2. ASSUME NEW a \in 1 .. n PROVE u[a] = v[a]
    <3>1. pick[a][u[a] + 1] - 1 = pick[a][v[a] + 1] - 1
      BY <1>9, <1>12
    <3>2. pick[a][u[a] + 1] \in Nat /\ pick[a][v[a] + 1] \in Nat
      BY <1>1, <1>8
    <3>3. pick[a][u[a] + 1] = pick[a][v[a] + 1]
      BY <3>1, <3>2
    <3>4. u[a] + 1 = v[a] + 1
      BY <1>5, <1>7, <3>3
    <3>5. u[a] \in Nat /\ v[a] \in Nat
      BY <2>1 DEF Tuples
    <3>6. QED
      BY <3>4, <3>5
  <2>3. QED
    BY <1>1, <2>1, <2>2, EqualTuples
<1>13. ASSUME NEW y \in Y PROVE \E u \in X : to[u] = y
  <2>1. y \in Tuples(n) /\ \A a \in 1 .. n : y[a] \in Nat /\ y[a] + 1 \in A(a)
    <3>1. y \in Tuples(n) /\ \A a \in 1 .. n : y[a] < Len(t[a]) /\ t[a][y[a] + 1]
      BY <1>2
    <3>2. \A a \in 1 .. n : y[a] \in Nat /\ y[a] + 1 \in 1 .. Len(t[a])
      BY <1>1, <3>1 DEF Tuples
    <3>3. QED
      BY <1>3, <3>1, <3>2
  <2> DEFINE at(a) == CHOOSE i \in 1 .. c[a] : pick[a][i] = y[a] + 1
             u == [a \in 1 .. n |-> at(a) - 1]
  <2>2. \A a \in 1 .. n : at(a) \in 1 .. c[a] /\ pick[a][at(a)] = y[a] + 1
    BY <1>5, <2>1
  <2> HIDE DEF at
  <2>3. \A a \in 1 .. n : at(a) - 1 \in Nat /\ at(a) - 1 < c[a] /\ (at(a) - 1) + 1 = at(a)
    BY <1>1, <2>2
  <2>4. u \in Tuples(n) /\ \A a \in 1 .. n : u[a] = at(a) - 1
    BY <2>3 DEF Tuples
  <2> HIDE DEF u
  <2>5. u \in X
    BY <1>6, <2>3, <2>4
  <2>6. \A a \in 1 .. n : to[u][a] = y[a]
    <3> TAKE a \in 1 .. n
    <3>1. to[u][a] = pick[a][at(a)] - 1
      BY <1>9, <2>3, <2>4, <2>5
    <3>2. QED
      BY <2>1, <2>2, <3>1
  <2>7. to[u] \in Tuples(n)
    BY <1>2, <1>11, <2>5
  <2>8. to[u] = y
    BY <1>1, <2>1, <2>6, <2>7, EqualTuples
  <2>9. QED
    BY <2>5, <2>8
<1>14. ExistsBijection(X, Y)
  <2>1. to \in Bijection(X, Y)
    BY <1>11, <1>12, <1>13 DEF Bijection, Injection, Surjection, IsInjective
  <2>2. QED
    BY <2>1 DEF ExistsBijection
<1>15. IsFiniteSet(X) /\ Cardinality(X) = get_number_of_states(c) /\ get_number_of_states(c) \in Nat
  BY <1>1, BelowCount DEF X
<1>16. QED
  BY <1>14, <1>15, FS_Bijection DEF Y, c

LEMMA ConfigurationsCount ==
  ASSUME NEW bench \in Benchmark, DevicesAreCounted(bench)
  PROVE  /\ IsFiniteSet(Configurations(bench))
         /\ Cardinality(Configurations(bench)) = get_config_count(bench)
         /\ get_config_count(bench) \in Nat
<1> DEFINE U == Usable(bench)
           O == OthersBelow(bench)
           D == ToSet(Passes(bench))
           u == get_number_of_states(ActiveCounts(bench))
           o == get_number_of_states(bench.others)
           d == Len(bench.devices)
<1>1. IsFiniteSet(U) /\ Cardinality(U) = u /\ u \in Nat
  BY UsableCount
<1>2. IsFiniteSet(O) /\ Cardinality(O) = o /\ o \in Nat
  <2>1. bench.others \in Seq(Nat)
    BY DEF Benchmark
  <2>2. QED
    BY <2>1, BelowCount DEF OthersBelow
<1>3. IsFiniteSet(D) /\ Cardinality(D) = d /\ d \in Nat
  <2>1. Passes(bench) = bench.devices /\ IsInjective(bench.devices)
    BY DEF DevicesAreCounted, Passes
  <2>2. d \in Nat /\ DOMAIN bench.devices = 1 .. d
    BY LenProperties DEF Benchmark
  <2>3. Lists(bench.devices, D)
    BY <2>1, <2>2 DEF Lists, ToSet, IsInjective
  <2>4. QED
    BY <2>2, <2>3, ListLength
<1>4. get_config_count(bench) = u * o * d
  BY DEF get_config_count, ActiveCounts, Active
<1>5. Configurations(bench) = [types : U, others : O, device : D]
  BY DEF Configurations, On
<1> HIDE DEF U, O, D, u, o, d
<1> DEFINE C == [types : U, others : O, device : D]
           UO == U \X O
           X == UO \X D
           to == [x \in X |-> [types |-> x[1][1], others |-> x[1][2], device |-> x[2]]]
<1>6. IsFiniteSet(UO) /\ Cardinality(UO) = u * o
  BY <1>1, <1>2, FS_Product
<1>7. IsFiniteSet(X) /\ Cardinality(X) = (u * o) * d
  <2> HIDE DEF UO
  <2>1. QED
    BY <1>3, <1>6, FS_Product
<1>8. to \in Bijection(X, C)
  <2>1. to \in [X -> C]
    OBVIOUS
  <2>2. ASSUME NEW x \in X, NEW y \in X, to[x] = to[y] PROVE x = y
    BY <2>2
  <2>3. ASSUME NEW c \in C PROVE \E x \in X : to[x] = c
    <3>1. <<<<c.types, c.others>>, c.device>> \in X
      OBVIOUS
    <3>2. to[<<<<c.types, c.others>>, c.device>>] = c
      OBVIOUS
    <3>3. QED
      BY <3>1, <3>2
  <2> HIDE DEF to, X, C
  <2>4. QED
    BY <2>1, <2>2, <2>3 DEF Bijection, Injection, Surjection, IsInjective
<1> HIDE DEF to, X, C
<1>9. IsFiniteSet(C) /\ Cardinality(C) = (u * o) * d
  BY <1>7, <1>8, FS_Bijection DEF ExistsBijection
<1>10. (u * o) * d \in Nat
  BY <1>1, <1>2, <1>3
<1>11. QED
  BY <1>4, <1>5, <1>9, <1>10 DEF C

\* The sums of the counts of the first b benchmarks.
IsSum(w, program) ==
  /\ w \in [0 .. Len(program) -> Nat] /\ w[0] = 0
  /\ TotalConfigs(program) = w[Len(program)]
  /\ \A b \in 1 .. Len(program) : w[b] = w[b - 1] + get_config_count(program[b])

Sums(program) == CHOOSE w : IsSum(w, program)

LEMMA SumsAre ==
  ASSUME NEW program \in Seq(Benchmark)
  PROVE  /\ IsSum(Sums(program), program)
         /\ \A b \in 0 .. Len(program) : Sums(program)[b] <= TotalConfigs(program)
<1> DEFINE w == Sums(program)
           n == Len(program)
<1>1. IsSum(w, program)
  <2>1. \E x : IsSum(x, program)
    BY TotalIs DEF IsSum
  <2>2. QED
    BY <2>1 DEF Sums
<1>2. n \in Nat /\ \A b \in 1 .. n : get_config_count(program[b]) \in Nat
  BY LenProperties, ElementOfSeq, ConfigCountIs
<1> HIDE DEF w, n
<1>3. /\ w \in [0 .. n -> Nat] /\ TotalConfigs(program) = w[n]
      /\ \A b \in 1 .. n : w[b] = w[b - 1] + get_config_count(program[b])
  BY <1>1 DEF IsSum, n
<1> DEFINE T == {k \in 0 .. n : w[n - k] <= w[n]}
<1>4. 0 \in T
  <2>1. n - 0 = n /\ n \in 0 .. n /\ 0 \in 0 .. n
    BY <1>2
  <2>2. w[n] \in Nat
    BY <1>3, <2>1
  <2>3. QED
    BY <2>1, <2>2
<1>5. ASSUME NEW k \in 0 .. n - 1, k \in T PROVE k + 1 \in T
  <2>1. n - k \in 1 .. n /\ (n - k) - 1 = n - (k + 1) /\ k + 1 \in 0 .. n
        /\ n - (k + 1) \in 0 .. n /\ n - k \in 0 .. n /\ n \in 0 .. n
    BY <1>2
  <2>2. w[n - k] = w[n - (k + 1)] + get_config_count(program[n - k])
    BY <1>3, <2>1
  <2>3. w[n - k] \in Nat /\ w[n - (k + 1)] \in Nat /\ w[n] \in Nat
        /\ get_config_count(program[n - k]) \in Nat
    BY <1>2, <1>3, <2>1
  <2>4. w[n - k] <= w[n]
    BY <1>5
  <2>5. w[n - (k + 1)] <= w[n]
    BY <2>2, <2>3, <2>4
  <2>6. QED
    BY <2>1, <2>5
<1>6. \A k \in 0 .. n : k \in T
  <2> HIDE DEF T
  <2>1. QED
    BY <1>2, <1>4, <1>5, FromZero
<1>7. \A b \in 0 .. n : w[b] <= w[n]
  <2> TAKE b \in 0 .. n
  <2>1. n - b \in 0 .. n /\ n - (n - b) = b
    BY <1>2
  <2>2. QED
    BY <1>6, <2>1
<1>8. QED
  BY <1>1, <1>3, <1>7 DEF w, n

-----------------------------------------------------------------------------
(* The progress counts                                                     *)

\* The calls of the generator of a benchmark are at most its configurations,
\* and all of them once it has run.
RunsCounted ==
  \A b \in Generated : DevicesAreCounted(benchmarks[b]) =>
    /\ Len(runs[b]) \in Nat
    /\ Len(runs[b]) <= get_config_count(benchmarks[b])
    /\ b < current => Len(runs[b]) = get_config_count(benchmarks[b])

LEMMA RunsAreCounted == RunnerInv /\ CoverInv => RunsCounted
<1> SUFFICES ASSUME RunnerInv, CoverInv, NEW b \in Generated, DevicesAreCounted(benchmarks[b])
             PROVE  /\ Len(runs[b]) \in Nat
                    /\ Len(runs[b]) <= get_config_count(benchmarks[b])
                    /\ b < current => Len(runs[b]) = get_config_count(benchmarks[b])
  BY DEF RunsCounted
<1> DEFINE bench == benchmarks[b]
           S == states[b]
           n == Len(runs[b])
           m == get_config_count(bench)
           L == Labels(S, Keys(bench))
           to == [r \in 1 .. n |-> runs[b][r].state]
<1>1. b \in DOMAIN benchmarks /\ bench \in Benchmark
  BY ProgramIs DEF RunnerInv, Generated
<1>2. IsInjective(bench.devices)
  BY DEF DevicesAreCounted
<1>3. S \in Seq(StateOf(bench)) /\ Len(S) \in Nat /\ DOMAIN S = 1 .. Len(S)
  BY <1>1, LenProperties DEF RunnerInv, Listed
<1>4. Len(S) = m
  <2>1. Lists(L, Configurations(bench))
    BY <1>2 DEF CoverInv, Made
  <2>2. Len(L) = Len(S)
    BY <1>3, LabelsLength
  <2> HIDE DEF L, S
  <2>3. QED
    BY <1>1, <1>3, <2>1, <2>2, ListLength, ConfigurationsCount
<1>5. n \in Nat /\ DOMAIN runs[b] = 1 .. n
  BY <1>1, LenProperties DEF RunnerInv, Called
<1>6. /\ \A r \in 1 .. n : runs[b][r].state \in 1 .. m
      /\ \A r, q \in 1 .. n : runs[b][r].state = runs[b][q].state => r = q
  <2>1. \A r \in 1 .. n : runs[b][r].state \in 1 .. m
    BY <1>1, <1>3, <1>4, <1>5 DEF RunnerInv, Called
  <2>2. \A r, q \in 1 .. n : runs[b][r].state = runs[b][q].state => r = q
    BY <1>1, <1>2, <1>5 DEF CoverInv, Once
  <2>3. QED
    BY <2>1, <2>2
<1>7. b < current => \A i \in 1 .. m : \E r \in 1 .. n : runs[b][r].state = i
  BY <1>1, <1>2, <1>3, <1>4, <1>5 DEF CoverInv, Whole, Ran
<1>8. m \in Nat
  BY <1>3, <1>4
<1> HIDE DEF n, m
<1>9. \A r \in 1 .. n : to[r] = runs[b][r].state
  OBVIOUS
<1>10. to \in [1 .. n -> 1 .. m]
  BY <1>6
<1> HIDE DEF to
<1>11. to \in Injection(1 .. n, 1 .. m)
  BY <1>6, <1>9, <1>10 DEF Injection, IsInjective
<1>12. /\ IsFiniteSet(1 .. n) /\ IsFiniteSet(1 .. m)
       /\ Cardinality(1 .. n) = n /\ Cardinality(1 .. m) = m
  BY <1>5, <1>8, FS_Interval
<1>13. n <= m
  BY <1>11, <1>12, FS_Injection
<1>14. b < current => n = m
  <2> HAVE b < current
  <2>1. to \in Surjection(1 .. n, 1 .. m)
    BY <1>7, <1>9, <1>10 DEF Surjection
  <2>2. QED
    BY <1>11, <1>12, <2>1, FS_Injection
<1>15. QED
  BY <1>5, <1>13, <1>14 DEF n, m

AllCounted == \A b \in DOMAIN benchmarks : DevicesAreCounted(benchmarks[b])

Counted ==
  /\ point # "main" => total = TotalConfigs(benchmarks)
  /\ AllCounted =>
       /\ point = "benchmark" => completed = Sums(benchmarks)[current - 1]
       /\ point \in {"device", "scan"} =>
            completed = Sums(benchmarks)[current - 1] + Len(runs[current])
       /\ point = "running" =>
            completed + 1 = Sums(benchmarks)[current - 1] + Len(runs[current])
       /\ point = "finished" => completed = TotalConfigs(benchmarks)

LEMMA CountedKeeps ==
  RunnerInv /\ RunsCounted' /\ Counted /\ [Next]_vars => Counted'
<1> SUFFICES ASSUME RunnerInv, RunsCounted', Counted, [Next]_vars PROVE Counted'
  OBVIOUS
<1> DEFINE W == Sums(benchmarks)
<1>1. /\ benchmarks \in Seq(Benchmark) /\ DOMAIN benchmarks = 1 .. Len(benchmarks)
      /\ Len(benchmarks) \in Nat
  BY ProgramIs DEF RunnerInv
<1>2. W[0] = 0 /\ TotalConfigs(benchmarks) = W[Len(benchmarks)]
      /\ \A b \in 1 .. Len(benchmarks) : W[b] = W[b - 1] + get_config_count(benchmarks[b])
  BY <1>1, SumsAre DEF IsSum
<1>3. completed \in Nat /\ current \in 0 .. Len(benchmarks) + 1
  BY DEF RunnerInv, TypeOK
<1>4. AllCounted' <=> AllCounted
  <2>1. benchmarks' = benchmarks
    BY DEF Next, CountConfigs, GenerateStates, StartDevice, PassOver, RunState, StateCompletes,
           GeneratorAborts, NextTypeConfig, FinishDevice, FinishBenchmark, FinishAll, vars
  <2>2. QED
    BY <2>1 DEF AllCounted
<1> HIDE DEF W
<1>5. CASE CountConfigs
  <2>1. 1 - 1 = 0
    OBVIOUS
  <2>2. QED
    BY <1>2, <1>5, <2>1 DEF Counted, CountConfigs, W
<1>6. CASE GenerateStates
  <2>1. current \in DOMAIN benchmarks
    BY <1>1, <1>6 DEF RunnerInv, TypeOK, Placed, GenerateStates
  <2>2. runs[current] = << >> /\ Len(<< >>) = 0
    BY <1>6, <2>1, EmptySeq DEF RunnerInv, Called, GenerateStates
  <2>3. AllCounted => completed = W[current - 1] + Len(runs[current])
    <3> HAVE AllCounted
    <3>1. completed = W[current - 1]
      BY <1>6 DEF Counted, GenerateStates, W
    <3>2. QED
      BY <1>3, <2>2, <3>1
  <2>4. QED
    BY <1>4, <1>6, <2>3 DEF Counted, GenerateStates, W, progress
<1>7. CASE StartDevice
  BY <1>4, <1>7 DEF Counted, StartDevice, progress
<1>8. CASE PassOver
  BY <1>4, <1>8 DEF Counted, PassOver, InTypeConfig, progress
<1>9. CASE RunState
  <2>1. current \in DOMAIN benchmarks /\ point = "scan"
    BY <1>9 DEF RunnerInv, Placed, RunState, InTypeConfig
  <2>2. runs[current] \in Seq(Calls(benchmarks[current])) /\ Len(runs[current]) \in Nat
    BY <2>1, LenProperties DEF RunnerInv, Called
  <2>3. Len(runs'[current]) = Len(runs[current]) + 1
    <3> DEFINE call == [state |-> cursor, types |-> type_configs(Bench)[typeConfig + 1]]
               old == runs[current]
               E == Calls(benchmarks[current]) \cup {call}
    <3>1. runs'[current] = Append(old, call)
      BY <1>9, <2>1 DEF RunnerInv, Called, RunState
    <3>2. call \in E /\ Calls(benchmarks[current]) \subseteq E
      OBVIOUS
    <3> HIDE DEF call, E, old
    <3>3. old \in Seq(E)
      BY <2>2, <3>2, SeqMonotonic DEF old
    <3>4. Len(Append(old, call)) = Len(old) + 1
      BY <3>2, <3>3, AppendProperties
    <3>5. QED
      BY <3>1, <3>4 DEF old
  <2>4. AllCounted => completed = W[current - 1] + Len(runs[current])
    BY <2>1 DEF Counted, W
  <2>5. AllCounted => completed + 1 = W[current - 1] + Len(runs'[current])
    <3> HAVE AllCounted
    <3>1. current - 1 \in 0 .. Len(benchmarks)
      BY <1>1, <2>1
    <3>2. W[current - 1] \in Nat
      BY <1>1, <3>1, SumsAre DEF IsSum, W
    <3>3. QED
      BY <2>2, <2>3, <2>4, <3>2
  <2>6. QED
    BY <1>4, <1>9, <2>1, <2>5 DEF Counted, RunState, W, progress
<1>10. CASE StateCompletes
  BY <1>4, <1>10 DEF Counted, StateCompletes
<1>11. CASE GeneratorAborts
  BY <1>4, <1>11 DEF Counted, GeneratorAborts, progress
<1>12. CASE NextTypeConfig
  BY <1>4, <1>12 DEF Counted, NextTypeConfig, InTypeConfig, progress
<1>13. CASE FinishDevice
  BY <1>4, <1>13 DEF Counted, FinishDevice, progress
<1>14. CASE FinishBenchmark
  <2>1. current \in DOMAIN benchmarks /\ point = "device"
    BY <1>14 DEF RunnerInv, Placed, FinishBenchmark
  <2>2. AllCounted => Len(runs[current]) = get_config_count(benchmarks[current])
    <3> HAVE AllCounted
    <3>1. /\ benchmarks' = benchmarks /\ runs' = runs /\ current' = current + 1
          /\ point' = "benchmark" /\ current < current + 1
      BY <1>1, <1>14, <2>1 DEF FinishBenchmark
    <3>2. current \in Generated'
      BY <2>1, <3>1 DEF Generated
    <3>3. DevicesAreCounted(benchmarks[current])
      BY <2>1 DEF AllCounted
    <3>4. QED
      BY <3>1, <3>2, <3>3 DEF RunsCounted
  <2>3. AllCounted => completed = W[current - 1] + Len(runs[current])
    BY <2>1 DEF Counted, W
  <2>4. W[current] = W[current - 1] + get_config_count(benchmarks[current])
    BY <1>1, <1>2, <2>1
  <2>5. (current + 1) - 1 = current
    BY <1>1, <2>1
  <2>6. AllCounted => completed = W[(current + 1) - 1]
    BY <2>2, <2>3, <2>4, <2>5
  <2>7. QED
    BY <1>4, <1>14, <2>6 DEF Counted, FinishBenchmark, W, progress
<1>15. CASE FinishAll
  <2>1. current - 1 = Len(benchmarks)
    BY <1>1, <1>3, <1>15 DEF FinishAll
  <2>2. AllCounted => completed = W[current - 1]
    BY <1>15 DEF Counted, FinishAll, W
  <2>3. QED
    BY <1>2, <1>4, <1>15, <2>1, <2>2 DEF Counted, FinishAll, progress
<1>16. CASE UNCHANGED vars
  BY <1>4, <1>16 DEF Counted, vars, progress
<1>17. QED
  BY <1>5, <1>6, <1>7, <1>8, <1>9, <1>10, <1>11, <1>12, <1>13, <1>14, <1>15, <1>16 DEF Next

LEMMA ExactWhenCounted == RunnerInv /\ RunsCounted /\ Counted => ProgressIsExact
<1> SUFFICES ASSUME RunnerInv, RunsCounted, Counted, AllCounted
             PROVE  /\ point = "running" => completed + 1 <= total
                    /\ point = "finished" => completed = total
  BY DEF ProgressIsExact, AllCounted
<1>1. point = "finished" => completed = total
  BY DEF Counted
<1>2. ASSUME point = "running" PROVE completed + 1 <= total
  <2> DEFINE W == Sums(benchmarks)
             n == Len(benchmarks)
             count == get_config_count(benchmarks[current])
             k == Len(runs[current])
  <2>1. benchmarks \in Seq(Benchmark) /\ n \in Nat /\ current \in 1 .. n
    BY <1>2, ProgramIs DEF RunnerInv, Placed
  <2>2. current \in Generated /\ DevicesAreCounted(benchmarks[current])
    BY <1>2 DEF Generated, AllCounted, RunnerInv, Placed
  <2>3. k \in Nat /\ k <= count
    BY <2>2 DEF RunsCounted
  <2>4. W[current] = W[current - 1] + count /\ W[current] <= total
        /\ W[current] \in Nat /\ W[current - 1] \in Nat
    <3>1. IsSum(W, benchmarks) /\ \A b \in 0 .. n : W[b] <= TotalConfigs(benchmarks)
      BY <2>1, SumsAre
    <3>2. current \in 0 .. n /\ current - 1 \in 0 .. n
      BY <2>1
    <3>3. total = TotalConfigs(benchmarks)
      BY <1>2 DEF Counted
    <3> HIDE DEF W, count
    <3>4. W[current] \in Nat /\ W[current - 1] \in Nat
      BY <3>1, <3>2 DEF IsSum
    <3>5. W[current] <= total
      BY <3>1, <3>2, <3>3
    <3>6. W[current] = W[current - 1] + count
      BY <2>1, <3>1 DEF IsSum, count
    <3>7. QED
      BY <3>4, <3>5, <3>6
  <2>5. completed + 1 = W[current - 1] + k
    BY <1>2 DEF Counted
  <2>6. count \in Nat /\ total \in Nat
    BY <2>1, ElementOfSeq, ConfigCountIs DEF RunnerInv, TypeOK
  <2> HIDE DEF W, count, k
  <2>7. QED
    BY <2>3, <2>4, <2>5, <2>6
<1>3. QED
  BY <1>1, <1>2

\* The progress line never passes its total, and reaches it when every state
\* has run, if the devices of the benchmarks are counted.
THEOREM ProgressExact == Spec => []ProgressIsExact
<1>1. Spec => []RunsCounted
  BY RunnerInvHolds, CoverInvHolds, RunsAreCounted, PTL
<1>2. Init => Counted
  BY DEF Init, Counted
<1>3. QED
  BY <1>1, <1>2, RunnerInvHolds, CountedKeeps, ExactWhenCounted, PTL DEF Spec
=============================================================================
