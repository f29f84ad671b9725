----------------------------- MODULE ResultsProofs ----------------------------
(***************************************************************************)
(* Proofs about Results: what the printers print and write.                *)
(*                                                                         *)
(* First the tables, which do not depend on the steps: a selection, a      *)
(* column, a table as add_cell fills it cell by cell, and the rows the     *)
(* printers give it.  Then the inductive invariant,                        *)
(*                                                                         *)
(*   Structure     the states are the generated ones, main is at one of    *)
(*                 them, and the logs are lists,                           *)
(*   Documents     what was printed is what the benchmarks collected,      *)
(*   Counts        what is counted and numbered has happened,              *)
(*   SummariesOwn  the paths that states name are theirs.                  *)
(***************************************************************************)
EXTENDS Results, SequenceLemmas, TLAPS

-----------------------------------------------------------------------------
(* Selections                                                              *)

\* What is kept of the first i elements.
Kept(F, S, s, places) ==
  /\ F \in [0 .. Len(s) -> Seq(S)] /\ F[0] = <<>>
  /\ \A i \in 1 .. Len(s) :
       /\ i \in places => F[i] = Append(F[i - 1], s[i])
       /\ i \notin places => F[i] = F[i - 1]

\* A loop over the places of a sequence that continues at some of them, as the
\* printers loop over states and summaries: what it has kept after each place.
LEMMA SelectionSteps ==
  ASSUME NEW S, NEW s \in Seq(S), NEW places
  PROVE  \E F : Kept(F, S, s, places) /\ Selection(s, places) = F[Len(s)]
<1> DEFINE n == Len(s)
           Q == Seq(S)
           all == [i \in DOMAIN s |-> i]
           op(kept, i) == IF i \in places THEN Append(kept, s[i]) ELSE kept
           step == [i \in 1 .. n |-> [kept \in Q |-> op(kept, i)]]
           none == <<>>
           Is(h) == h = [P \in SUBSET (1 .. n) |->
                          IF P = {} THEN none ELSE op(h[P \ {Max(P)}], all[Max(P)])]
           g == CHOOSE h : Is(h)
<1>1. n \in Nat /\ DOMAIN s = 1 .. n /\ DOMAIN all = 1 .. n /\ none \in Q
      /\ \A i \in 1 .. n : s[i] \in S /\ all[i] = i
  BY LenProperties, ElementOfSeq, EmptySeq
<1>2. Selection(s, places) = g[1 .. n]
  BY <1>1 DEF Selection, FoldLeft, MapThenFoldSet
<1>3. \A i \in 1 .. n, kept \in Q : op(kept, i) \in Q
  BY <1>1, AppendProperties
<1>4. step \in Recursions(n, Q) /\ \A i \in 1 .. n, kept \in Q : step[i][kept] = op(kept, i)
  BY <1>3 DEF Recursions
<1> HIDE DEF n, Q, all, step, op, none
<1>5. PICK G : FoldTable(G, n, Q, none, step)
  BY <1>1, <1>4, FoldTableExists
<1>6. \A P \in SUBSET (1 .. n) : P # {} => Max(P) \in 1 .. n /\ all[Max(P)] = Max(P)
  <2> TAKE P \in SUBSET (1 .. n)
  <2> HAVE P # {}
  <2>1. P \in SUBSET (0 .. n)
    OBVIOUS
  <2>2. Max(P) \in P
    BY <1>1, <2>1, MaxIsGreatest
  <2>3. QED
    BY <1>1, <2>2
<1>7. Is(G)
  <2>1. \A P \in SUBSET (1 .. n) :
          G[P] = IF P = {} THEN none ELSE op(G[P \ {Max(P)}], all[Max(P)])
    <3> TAKE P \in SUBSET (1 .. n)
    <3>1. CASE P = {}
      BY <1>5, <3>1 DEF FoldTable
    <3>2. CASE P # {}
      <4>1. G[P \ {Max(P)}] \in Q
        BY <1>5 DEF FoldTable
      <4>2. QED
        BY <1>4, <1>5, <1>6, <3>2, <4>1 DEF FoldTable
    <3>3. QED
      BY <3>1, <3>2
  <2>2. G = [P \in SUBSET (1 .. n) |-> G[P]]
    BY <1>5 DEF FoldTable
  <2>3. QED
    BY <2>1, <2>2
<1>8. Is(g)
  <2> HIDE DEF Is
  <2>1. QED
    BY <1>7
<1> HIDE DEF g
<1>9. g[{}] = none /\ \A P \in SUBSET (1 .. n) :
         P # {} => g[P] = op(g[P \ {Max(P)}], Max(P))
  BY <1>6, <1>8
<1> HIDE DEF Is
<1>10. PICK F \in [0 .. n -> Q] : Follows(F, n, none, step) /\ F[n] = g[1 .. n]
  <2>1. Agrees(g, n, Q, none, step)
    BY <1>4, <1>6, <1>9 DEF Agrees
  <2>2. QED
    BY <1>1, <1>4, <1>9, <2>1, FoldPrefixes
<1>11. \A i \in 1 .. n : F[i] = op(F[i - 1], i)
  <2> TAKE i \in 1 .. n
  <2>1. F[i - 1] \in Q
    BY <1>1
  <2>2. QED
    BY <1>4, <1>10, <2>1 DEF Follows
<1>12. QED
  BY <1>2, <1>10, <1>11 DEF Follows, Kept, n, Q, op, none

\* The places the elements of a selection come from.
Selects(kept, from, s, places) ==
  /\ from \in [1 .. Len(kept) -> 1 .. Len(s)]
  /\ \A k \in 1 .. Len(kept) : kept[k] = s[from[k]] /\ from[k] \in places
  /\ \A k, l \in 1 .. Len(kept) : from[k] = from[l] => k = l
  /\ \A i \in 1 .. Len(s) : i \in places => \E k \in 1 .. Len(kept) : from[k] = i

\* The elements of a selection are the selected ones, from places of their own.
LEMMA SelectionIs ==
  ASSUME NEW S, NEW s \in Seq(S), NEW places
  PROVE  /\ Selection(s, places) \in Seq(S)
         /\ \E from : Selects(Selection(s, places), from, s, places)
<1>1. PICK F : Kept(F, S, s, places) /\ Selection(s, places) = F[Len(s)]
  BY SelectionSteps
<1> DEFINE n == Len(s)
           From(from, i) ==
             /\ from \in [1 .. Len(F[i]) -> 1 .. i]
             /\ \A k \in 1 .. Len(F[i]) : F[i][k] = s[from[k]] /\ from[k] \in places
             /\ \A k, l \in 1 .. Len(F[i]) : from[k] = from[l] => k = l
             /\ \A j \in 1 .. i : j \in places => \E k \in 1 .. Len(F[i]) : from[k] = j
           T == {i \in 0 .. n : \E from : From(from, i)}
<1>2. n \in Nat /\ \A i \in 0 .. n : F[i] \in Seq(S) /\ Len(F[i]) \in Nat
  BY <1>1, LenProperties DEF Kept
<1>3. 0 \in T
  <2>1. Len(F[0]) = 0
    BY <1>1, EmptySeq DEF Kept
  <2>2. From(<<>>, 0)
    BY <2>1
  <2> HIDE DEF From
  <2>3. QED
    BY <1>2, <2>2
<1>4. ASSUME NEW i \in 0 .. n - 1, i \in T PROVE i + 1 \in T
  <2>1. PICK from : From(from, i)
    BY <1>4
  <2>2. i + 1 \in 1 .. n /\ (i + 1) - 1 = i /\ i \in 0 .. n /\ s[i + 1] \in S
    BY <1>2, ElementOfSeq
  <2>3. CASE i + 1 \notin places
    <3>1. F[i + 1] = F[i]
      BY <1>1, <2>2, <2>3 DEF Kept
    <3>2. From(from, i + 1)
      BY <1>2, <2>1, <2>2, <2>3, <3>1
    <3> HIDE DEF From
    <3>3. QED
      BY <1>2, <2>2, <3>2
  <2>4. CASE i + 1 \in places
    <3> DEFINE m == Len(F[i])
               more == [k \in 1 .. m + 1 |-> IF k <= m THEN from[k] ELSE i + 1]
    <3>1. F[i + 1] = Append(F[i], s[i + 1])
      BY <1>1, <2>2, <2>4 DEF Kept
    <3>2. m \in Nat /\ Len(F[i + 1]) = m + 1 /\ F[i + 1][m + 1] = s[i + 1]
          /\ \A k \in 1 .. m : F[i + 1][k] = F[i][k]
      BY <1>2, <2>2, <3>1, AppendProperties
    <3>3. (\A k \in 1 .. m : more[k] = from[k] /\ from[k] \in 1 .. i) /\ more[m + 1] = i + 1
      <4>1. \A k \in 1 .. m : from[k] \in 1 .. i
        BY <2>1
      <4>2. (\A k \in 1 .. m : k \in 1 .. m + 1 /\ k <= m) /\ m + 1 \in 1 .. m + 1 /\ ~(m + 1 <= m)
        BY <3>2
      <4>3. QED
        BY <4>1, <4>2
    <3>4. more \in [1 .. m + 1 -> 1 .. i + 1]
      <4>1. \A k \in 1 .. m + 1 : (IF k <= m THEN from[k] ELSE i + 1) \in 1 .. i + 1
        <5> TAKE k \in 1 .. m + 1
        <5>1. CASE k <= m
          <6>1. k \in 1 .. m /\ \A e \in 1 .. i : e \in 1 .. i + 1
            BY <3>2, <5>1
          <6>2. from[k] \in 1 .. i
            BY <3>3, <6>1
          <6>3. QED
            BY <5>1, <6>1, <6>2
        <5>2. CASE ~(k <= m)
          BY <5>2
        <5>3. QED
          BY <5>1, <5>2
      <4>2. QED
        BY <4>1
    <3> HIDE DEF more
    <3>5. \A k \in 1 .. m + 1 : k \in 1 .. m \/ k = m + 1
      BY <3>2
    <3> HIDE DEF m
    <3>6. \A k \in 1 .. m + 1 : F[i + 1][k] = s[more[k]] /\ more[k] \in places
      BY <2>1, <2>4, <3>2, <3>3, <3>5 DEF m
    <3>7. \A k, l \in 1 .. m + 1 : more[k] = more[l] => k = l
      <4>1. \A k, l \in 1 .. m : more[k] = more[l] => k = l
        BY <2>1, <3>3 DEF m
      <4>2. \A k \in 1 .. m : more[k] # more[m + 1]
        BY <3>3
      <4>3. QED
        BY <3>5, <4>1, <4>2
    <3>8. \A j \in 1 .. i + 1 : j \in places => \E k \in 1 .. m + 1 : more[k] = j
      <4> TAKE j \in 1 .. i + 1
      <4>1. CASE j = i + 1
        BY <3>2, <3>3, <4>1
      <4>2. CASE j # i + 1
        <5>1. j \in 1 .. i
          BY <4>2
        <5>2. j \in places => \E k \in 1 .. m : from[k] = j
          BY <2>1, <5>1 DEF m
        <5>3. \A k \in 1 .. m : k \in 1 .. m + 1
          BY <3>2
        <5>4. QED
          BY <3>3, <5>2, <5>3
      <4>3. QED
        BY <4>1, <4>2
    <3>9. From(more, i + 1)
      BY <3>2, <3>4, <3>6, <3>7, <3>8
    <3> HIDE DEF From
    <3>10. QED
      BY <1>2, <2>2, <3>9
  <2>5. QED
    BY <2>3, <2>4
<1> HIDE DEF T
<1>5. n \in T
  <2>1. \A i \in 0 .. n : i \in T
    BY <1>2, <1>3, <1>4, FromZero
  <2>2. QED
    BY <1>2, <2>1
<1>6. PICK from : From(from, n)
  BY <1>5 DEF T
<1>7. F[n] \in Seq(S) /\ Selection(s, places) = F[n]
  BY <1>1, <1>2
<1>8. Selects(F[n], from, s, places)
  BY <1>6 DEF Selects
<1>9. QED
  BY <1>7, <1>8

-----------------------------------------------------------------------------
(* Columns                                                                 *)

\* The cells, and the columns, of some keys, headers and values.
Cells(K, H, V) == [key : K, header : H, value : V]

Columns(K, H, V) == [key : K, header : H, rows : Seq(V \cup {Blank})]

\* What a column has in row k, blank beyond its end.
At(rows, k) == IF k \in 1 .. Len(rows) THEN rows[k] ELSE Blank

\* Resizing adds blanks only.
LEMMA ResizedIs ==
  ASSUME NEW W, Blank \in W, NEW rows \in Seq(W), NEW n \in Nat
  PROVE  /\ Resized(rows, n) \in Seq(W)
         /\ Len(Resized(rows, n)) = IF Len(rows) >= n THEN Len(rows) ELSE n
         /\ \A k \in Nat : At(Resized(rows, n), k) = At(rows, k)
<1> DEFINE m == n - Len(rows)
           pad == [k \in 1 .. m |-> Blank]
           new == Resized(rows, n)
<1>1. Len(rows) \in Nat /\ m \in Int
  BY LenProperties
<1>2. new = rows \o pad
  BY DEF Resized
<1>3. pad \in Seq(W) /\ Len(pad) = (IF m >= 0 THEN m ELSE 0) /\ \A k \in 1 .. m : pad[k] = Blank
  <2>1. CASE m >= 0
    <3>1. m \in Nat /\ pad \in [1 .. m -> W]
      BY <1>1, <2>1
    <3>2. pad \in Seq(W) /\ Len(pad) = m
      BY <3>1, SeqDef, LenProperties
    <3>3. QED
      BY <2>1, <3>2
  <2>2. CASE ~(m >= 0)
    <3>1. pad \in [1 .. 0 -> W] /\ 1 .. m = 1 .. 0 /\ DOMAIN pad = 1 .. 0
      BY <1>1, <2>2
    <3> HIDE DEF pad
    <3>2. pad \in Seq(W)
      BY <3>1, SeqDef
    <3>3. DOMAIN pad = 1 .. Len(pad) /\ Len(pad) \in Nat
      BY <3>2, LenProperties
    <3>4. Len(pad) = 0
      BY <3>1, <3>3
    <3>5. QED
      BY <2>2, <3>1, <3>2, <3>4
  <2>3. QED
    BY <2>1, <2>2
<1> HIDE DEF pad
<1>4. /\ new \in Seq(W) /\ Len(new) = Len(rows) + Len(pad)
      /\ \A k \in 1 .. Len(rows) + Len(pad) :
           new[k] = IF k <= Len(rows) THEN rows[k] ELSE pad[k - Len(rows)]
  <2> DEFINE c == rows \o pad
  <2>1. /\ c \in Seq(W) /\ Len(c) = Len(rows) + Len(pad)
        /\ \A k \in 1 .. Len(rows) + Len(pad) :
             c[k] = IF k <= Len(rows) THEN rows[k] ELSE pad[k - Len(rows)]
    BY <1>3, ConcatProperties
  <2>2. new = c
    BY <1>2
  <2> HIDE DEF c, new
  <2>3. QED
    BY <2>1, <2>2
<1> HIDE DEF new
<1>5. Len(new) = IF Len(rows) >= n THEN Len(rows) ELSE n
  BY <1>1, <1>3, <1>4
<1>6. ASSUME NEW k \in Nat PROVE At(new, k) = At(rows, k)
  <2>1. CASE k \in 1 .. Len(rows)
    <3>1. k \in 1 .. Len(new) /\ k \in 1 .. Len(rows) + Len(pad) /\ k <= Len(rows)
      BY <1>1, <1>3, <1>4, <2>1
    <3>2. QED
      BY <1>4, <2>1, <3>1 DEF At
  <2>2. CASE k \notin 1 .. Len(rows) /\ k \in 1 .. Len(new)
    <3>1. k \in 1 .. Len(rows) + Len(pad) /\ ~(k <= Len(rows)) /\ k - Len(rows) \in 1 .. m
      BY <1>1, <1>3, <1>4, <2>2
    <3>2. QED
      BY <1>3, <1>4, <2>2, <3>1 DEF At
  <2>3. CASE k \notin 1 .. Len(rows) /\ k \notin 1 .. Len(new)
    BY <2>3 DEF At
  <2>4. QED
    BY <2>1, <2>2, <2>3
<1>7. QED
  BY <1>4, <1>5, <1>6 DEF new

\* A column after add_cell has resized it and appended a value for row r.
Placed(rows, r, v) == Append(Resized(rows, r - 1), v)

\* A value placed in a later row leaves the ones before it as they are.
LEMMA PlacedIs ==
  ASSUME NEW W, Blank \in W, NEW rows \in Seq(W), NEW r \in Nat \ {0}, Len(rows) < r, NEW v \in W
  PROVE  /\ Placed(rows, r, v) \in Seq(W) /\ Len(Placed(rows, r, v)) = r
         /\ Placed(rows, r, v)[r] = v
         /\ \A k \in 1 .. r - 1 : At(Placed(rows, r, v), k) = At(rows, k)
<1> DEFINE pad == Resized(rows, r - 1)
           new == Append(pad, v)
<1>1. r - 1 \in Nat /\ Len(rows) \in Nat
  BY LenProperties
<1>2. pad \in Seq(W) /\ Len(pad) = r - 1 /\ \A k \in Nat : At(pad, k) = At(rows, k)
  <2>1. /\ pad \in Seq(W) /\ Len(pad) = IF Len(rows) >= r - 1 THEN Len(rows) ELSE r - 1
        /\ \A k \in Nat : At(pad, k) = At(rows, k)
    BY <1>1, ResizedIs
  <2> HIDE DEF pad
  <2>2. QED
    BY <1>1, <2>1
<1> HIDE DEF pad
<1>3. new \in Seq(W) /\ Len(new) = r /\ new[r] = v /\ \A k \in 1 .. r - 1 : new[k] = pad[k]
  BY <1>2, AppendProperties
<1> HIDE DEF new
<1>4. \A k \in 1 .. r - 1 : At(new, k) = At(rows, k)
  <2> TAKE k \in 1 .. r - 1
  <2>1. k \in Nat /\ k \in 1 .. Len(new) /\ k \in 1 .. Len(pad)
    BY <1>2, <1>3
  <2>2. At(new, k) = At(pad, k)
    BY <1>3, <2>1 DEF At
  <2>3. QED
    BY <1>2, <2>1, <2>2
<1>5. QED
  BY <1>3, <1>4 DEF new, pad, Placed

\* The column a key is found in: the first with it, or none.
Found(t, key) == SelectInSeq(t, LAMBDA column : column.key = key)

\* The search of add_cell finds the first column with the key, if any has it.
LEMMA FoundIs ==
  ASSUME NEW C, NEW t \in Seq(C), NEW key
  PROVE  \/ Found(t, key) = 0 /\ \A c \in 1 .. Len(t) : t[c].key # key
         \/ /\ Found(t, key) \in 1 .. Len(t) /\ t[Found(t, key)].key = key
            /\ \A c \in 1 .. Found(t, key) - 1 : t[c].key # key
<1> DEFINE I == {c \in 1 .. Len(t) : t[c].key = key}
<1>1. Found(t, key) = IF I # {} THEN Min(I) ELSE 0
  BY DEF Found, SelectInSeq
<1>2. CASE I = {}
  BY <1>1, <1>2
<1>3. CASE I # {}
  <2>1. I \in SUBSET Nat /\ Len(t) \in Nat
    BY LenProperties
  <2>2. Min(I) \in I /\ \A c \in I : Min(I) <= c
    <3> HIDE DEF I
    <3>1. QED
      BY <1>3, <2>1, MinIsLeast
  <2>3. Found(t, key) = Min(I)
    BY <1>1, <1>3
  <2> DEFINE m == Found(t, key)
  <2>4. m \in 1 .. Len(t) /\ t[m].key = key /\ \A c \in I : m <= c
    BY <2>2, <2>3
  <2> HIDE DEF m
  <2>5. \A c \in 1 .. m - 1 : t[c].key # key
    <3> TAKE c \in 1 .. m - 1
    <3>1. c \in 1 .. Len(t) /\ ~(m <= c)
      BY <2>1, <2>4
    <3>2. c \notin I
      BY <2>4, <3>1
    <3>3. QED
      BY <3>1, <3>2
  <2>6. QED
    BY <2>4, <2>5 DEF m
<1>4. QED
  BY <1>2, <1>3

\* The three outcomes of add_cell.
AddCell(t, r, cell) == add_cell(t, r, cell.key, cell.header, cell.value)

\* A column add_cell makes, and one it adds to.
NewColumn(r, cell) ==
  [key |-> cell.key, header |-> cell.header, rows |-> Placed(<<>>, r, cell.value)]

Grown(column, r, cell) == [column EXCEPT !.rows = Placed(column.rows, r, cell.value)]

\* add_cell makes a column for a new key, adds to a column that ends before the
\* row, and drops a value if the column has one in this row already.
LEMMA AddCellIs ==
  ASSUME NEW K, NEW H, NEW V, NEW t \in Seq(Columns(K, H, V)), NEW r \in Nat \ {0}, NEW cell
  PROVE  /\ Found(t, cell.key) = 0 => AddCell(t, r, cell) = Append(t, NewColumn(r, cell))
         /\ Found(t, cell.key) # 0 /\ Len(t[Found(t, cell.key)].rows) < r =>
              AddCell(t, r, cell) = [t EXCEPT ![Found(t, cell.key)] = Grown(@, r, cell)]
         /\ Found(t, cell.key) # 0 /\ ~(Len(t[Found(t, cell.key)].rows) < r) =>
              AddCell(t, r, cell) = t
<1>1. Found(t, cell.key) = 0 \/ Found(t, cell.key) \in 1 .. Len(t)
  BY FoundIs
<1>2. QED
  BY <1>1 DEF add_cell, Found, AddCell, NewColumn, Grown, Placed

-----------------------------------------------------------------------------
(* Filling a table                                                         *)

\* None of the first k cells has the key.
Without(cells, k, key) == \A j \in 1 .. k : cells[j].key # key

\* v is the first value that the first k cells have for the key.
IsFirst(cells, k, key, v) ==
  \E j \in 1 .. k : cells[j].key = key /\ v = cells[j].value /\ Without(cells, j - 1, key)

\* A column has in row q what the first k cells say.
Fits(column, q, cells, k) ==
  \/ q <= Len(column.rows) /\ IsFirst(cells, k, column.key, column.rows[q])
  \/ Without(cells, k, column.key) /\ At(column.rows, q) = Blank

\* The cells of the rows before r are placed, and the first k of row r.
IsPlaced(R, r, k, q, j) == (q \in 1 .. r - 1 /\ j \in 1 .. Len(R[q])) \/ (q = r /\ j \in 1 .. k)

\* A column when the rows before r are filled, and k cells of row r: it has their
\* values where they belong, ends at a value, and has a value at all.
ColumnOK(column, R, r, k) ==
  /\ Len(column.rows) \in 0 .. r
  /\ \A q \in 1 .. r - 1 : Fits(column, q, R[q], Len(R[q]))
  /\ Len(column.rows) = r => IsFirst(R[r], k, column.key, column.rows[r])
  /\ Len(column.rows) < r => Without(R[r], k, column.key)
  /\ \E q, j : IsPlaced(R, r, k, q, j) /\ R[q][j].key = column.key

\* A table when the rows before r are filled, and k cells of row r.
Filled(t, R, r, k) ==
  /\ \A c, d \in 1 .. Len(t) : t[c].key = t[d].key => c = d
  /\ \A c \in 1 .. Len(t) : ColumnOK(t[c], R, r, k)
  /\ \A q, j : IsPlaced(R, r, k, q, j) => \E c \in 1 .. Len(t) : t[c].key = R[q][j].key

\* A column of another key is as right after the next cell as before.
LEMMA OtherColumn ==
  ASSUME NEW column, NEW R, NEW r \in Nat \ {0}, NEW k \in Nat, ColumnOK(column, R, r, k),
         R[r][k + 1].key # column.key
  PROVE  ColumnOK(column, R, r, k + 1)
<1>1. \A j \in 1 .. k + 1 : j \in 1 .. k \/ j = k + 1
  OBVIOUS
<1>2. Without(R[r], k, column.key) => Without(R[r], k + 1, column.key)
  BY <1>1 DEF Without
<1>3. \A v : IsFirst(R[r], k, column.key, v) => IsFirst(R[r], k + 1, column.key, v)
  <2>1. \A j \in 1 .. k : j \in 1 .. k + 1
    OBVIOUS
  <2>2. QED
    BY <2>1 DEF IsFirst
<1>4. \A q, j : IsPlaced(R, r, k, q, j) => IsPlaced(R, r, k + 1, q, j)
  BY DEF IsPlaced
<1>5. QED
  BY <1>2, <1>3, <1>4 DEF ColumnOK

\* So is the column of the cell if it has a value in this row already.
LEMMA SameColumn ==
  ASSUME NEW column, NEW R, NEW r \in Nat \ {0}, NEW k \in Nat, ColumnOK(column, R, r, k),
         ~(Len(column.rows) < r)
  PROVE  ColumnOK(column, R, r, k + 1)
<1>1. Len(column.rows) = r
  BY DEF ColumnOK
<1>2. \A v : IsFirst(R[r], k, column.key, v) => IsFirst(R[r], k + 1, column.key, v)
  <2>1. \A j \in 1 .. k : j \in 1 .. k + 1
    OBVIOUS
  <2>2. QED
    BY <2>1 DEF IsFirst
<1>3. \A q, j : IsPlaced(R, r, k, q, j) => IsPlaced(R, r, k + 1, q, j)
  BY DEF IsPlaced
<1>4. QED
  BY <1>1, <1>2, <1>3 DEF ColumnOK

\* A column that gets its value of this row.
LEMMA GrownColumn ==
  ASSUME NEW W, Blank \in W, NEW R, NEW r \in Nat \ {0}, NEW k \in Nat,
         NEW column, NEW rows \in Seq(W), Len(rows) < r,
         column.rows = Placed(rows, r, R[r][k + 1].value),
         column.key = R[r][k + 1].key, R[r][k + 1].value \in W,
         \A q \in 1 .. r - 1 : Fits([key |-> column.key, rows |-> rows], q, R[q], Len(R[q])),
         Without(R[r], k, column.key)
  PROVE  ColumnOK(column, R, r, k + 1)
<1> DEFINE v == R[r][k + 1].value
           new == Placed(rows, r, v)
           old == [key |-> column.key, rows |-> rows]
<1>1. /\ new \in Seq(W) /\ Len(new) = r /\ new[r] = v
      /\ \A q \in 1 .. r - 1 : At(new, q) = At(rows, q)
  BY PlacedIs
<1>2. column.rows = new
  OBVIOUS
<1> HIDE DEF new
<1>3. IsFirst(R[r], k + 1, column.key, v)
  <2>1. k + 1 \in 1 .. k + 1 /\ (k + 1) - 1 = k
    OBVIOUS
  <2>2. QED
    BY <2>1 DEF IsFirst
<1>4. ASSUME NEW q \in 1 .. r - 1 PROVE Fits(column, q, R[q], Len(R[q]))
  <2>1. At(new, q) = At(rows, q) /\ q \in 1 .. Len(new) /\ q <= Len(new) /\ q \in Nat
    BY <1>1
  <2>2. At(new, q) = new[q]
    BY <2>1 DEF At
  <2>3. Fits(old, q, R[q], Len(R[q]))
    OBVIOUS
  <2>4. old.key = column.key /\ old.rows = rows
    OBVIOUS
  <2>5. CASE q <= Len(rows) /\ IsFirst(R[q], Len(R[q]), column.key, rows[q])
    <3>1. Len(rows) \in Nat
      BY LenProperties
    <3>2. q \in 1 .. Len(rows)
      BY <2>5, <3>1
    <3>3. new[q] = rows[q]
      BY <2>1, <2>2, <3>2 DEF At
    <3>4. QED
      BY <1>2, <2>1, <2>5, <3>3 DEF Fits
  <2>6. CASE Without(R[q], Len(R[q]), column.key) /\ At(rows, q) = Blank
    BY <1>2, <2>1, <2>6 DEF Fits
  <2>7. QED
    BY <2>3, <2>4, <2>5, <2>6 DEF Fits
<1>5. IsPlaced(R, r, k + 1, r, k + 1) /\ R[r][k + 1].key = column.key
  BY DEF IsPlaced
<1>6. QED
  BY <1>1, <1>2, <1>3, <1>4, <1>5 DEF ColumnOK

\* add_cell fills the table by one cell.
LEMMA AddCellFills ==
  ASSUME NEW K, NEW H, NEW V, NEW t \in Seq(Columns(K, H, V)), NEW R,
         NEW r \in Nat \ {0}, NEW k \in Nat, Filled(t, R, r, k),
         R[r][k + 1] \in Cells(K, H, V)
  PROVE  /\ AddCell(t, r, R[r][k + 1]) \in Seq(Columns(K, H, V))
         /\ Filled(AddCell(t, r, R[r][k + 1]), R, r, k + 1)
<1> DEFINE cell == R[r][k + 1]
           new == AddCell(t, r, cell)
           i == Found(t, cell.key)
           W == V \cup {Blank}
           C == Columns(K, H, V)
           placed(rows) == Placed(rows, r, cell.value)
<1>1. cell \in Cells(K, H, V) /\ cell.key \in K /\ cell.header \in H /\ cell.value \in W
      /\ Blank \in W
  BY DEF Cells
<1>2. Len(t) \in Nat /\ \A c \in 1 .. Len(t) : t[c] \in C
  BY LenProperties, ElementOfSeq
<1>3. \A q, j : IsPlaced(R, r, k + 1, q, j) =>
        IsPlaced(R, r, k, q, j) \/ (q = r /\ j = k + 1)
  BY DEF IsPlaced
<1>4. CASE i = 0
  <2> DEFINE column == [key |-> cell.key, header |-> cell.header, rows |-> placed(<<>>)]
  <2>1. \A c \in 1 .. Len(t) : t[c].key # cell.key
    <3>1. ~(i \in 1 .. Len(t))
      BY <1>2, <1>4
    <3> HIDE DEF cell
    <3>2. QED
      BY <3>1, FoundIs
  <2>2. new = Append(t, column)
    <3>1. column = NewColumn(r, cell)
      BY DEF NewColumn
    <3> HIDE DEF cell, column
    <3>2. QED
      BY <1>1, <1>4, <3>1, AddCellIs
  <2>3. <<>> \in Seq(W) /\ Len(<<>>) = 0 /\ 0 < r
    OBVIOUS
  <2>4. placed(<<>>) \in Seq(W)
    <3> DEFINE e == <<>>
    <3>1. e \in Seq(W) /\ Len(e) < r
      BY <2>3
    <3> HIDE DEF e, cell, W
    <3>2. Placed(e, r, cell.value) \in Seq(W)
      BY <1>1, <3>1, PlacedIs
    <3>3. QED
      BY <3>2 DEF e
  <2>5. column \in C
    BY <1>1, <2>4 DEF Columns
  <2>6. \A q \in 1 .. r - 1 : Without(R[q], Len(R[q]), cell.key)
    <3> SUFFICES ASSUME NEW q \in 1 .. r - 1, NEW j \in 1 .. Len(R[q]), R[q][j].key = cell.key
                 PROVE  FALSE
      BY DEF Without
    <3>1. IsPlaced(R, r, k, q, j)
      BY DEF IsPlaced
    <3>2. QED
      BY <2>1, <3>1 DEF Filled
  <2>7. Without(R[r], k, cell.key)
    <3> SUFFICES ASSUME NEW j \in 1 .. k, R[r][j].key = cell.key PROVE FALSE
      BY DEF Without
    <3>1. IsPlaced(R, r, k, r, j)
      BY DEF IsPlaced
    <3>2. QED
      BY <2>1, <3>1 DEF Filled
  <2>8. ColumnOK(column, R, r, k + 1)
    <3> DEFINE e == <<>>
    <3>1. e \in Seq(W) /\ Len(e) < r /\ Len(e) = 0
      BY <2>3
    <3>2. /\ column.key = R[r][k + 1].key
          /\ column.rows = Placed(e, r, R[r][k + 1].value)
      OBVIOUS
    <3>3. \A q \in 1 .. r - 1 : Fits([key |-> column.key, rows |-> e], q, R[q], Len(R[q]))
      <4> TAKE q \in 1 .. r - 1
      <4>1. At(e, q) = Blank
        BY <3>1 DEF At
      <4>2. QED
        BY <2>6, <4>1 DEF Fits
    <3> HIDE DEF column, e, W
    <3>4. Without(R[r], k, column.key) /\ R[r][k + 1].value \in W
      BY <1>1, <2>7, <3>2
    <3>5. QED
      BY <1>1, <3>1, <3>2, <3>3, <3>4, GrownColumn
  <2>9. column.key = cell.key
    OBVIOUS
  <2> HIDE DEF column, cell
  <2>10. /\ new \in Seq(C) /\ Len(new) = Len(t) + 1 /\ new[Len(t) + 1] = column
         /\ \A c \in 1 .. Len(t) : new[c] = t[c]
    <3> DEFINE a == Append(t, column)
    <3>1. /\ a \in Seq(C) /\ Len(a) = Len(t) + 1 /\ a[Len(t) + 1] = column
          /\ \A c \in 1 .. Len(t) : a[c] = t[c]
      BY <2>5, AppendProperties
    <3> HIDE DEF a, C, new
    <3>2. new = a
      BY <2>2 DEF a
    <3>3. QED
      BY <3>1, <3>2
  <2> HIDE DEF new, C
  <2>11. \A c \in 1 .. Len(new) : c \in 1 .. Len(t) \/ c = Len(t) + 1
    BY <1>2, <2>10
  <2>12. \A c \in 1 .. Len(t) : c \in 1 .. Len(new)
    BY <1>2, <2>10
  <2>13. \A c \in 1 .. Len(t) : ColumnOK(t[c], R, r, k + 1)
    <3> TAKE c \in 1 .. Len(t)
    <3>1. ColumnOK(t[c], R, r, k) /\ R[r][k + 1].key # t[c].key
      BY <2>1 DEF Filled, cell
    <3>2. QED
      BY <3>1, OtherColumn
  <2>14. \A c, d \in 1 .. Len(new) : new[c].key = new[d].key => c = d
    <3>1. \A c, d \in 1 .. Len(t) : t[c].key = t[d].key => c = d
      BY DEF Filled
    <3>2. \A c \in 1 .. Len(t) : new[c].key # new[Len(t) + 1].key
      BY <2>1, <2>9, <2>10
    <3>3. QED
      BY <2>10, <2>11, <3>1, <3>2
  <2>15. \A q, j : IsPlaced(R, r, k + 1, q, j) => \E c \in 1 .. Len(new) : new[c].key = R[q][j].key
    <3> TAKE q, j
    <3> HAVE IsPlaced(R, r, k + 1, q, j)
    <3>1. CASE IsPlaced(R, r, k, q, j)
      <4>1. PICK c \in 1 .. Len(t) : t[c].key = R[q][j].key
        BY <3>1 DEF Filled
      <4>2. QED
        BY <2>10, <2>12, <4>1
    <3>2. CASE q = r /\ j = k + 1
      <4>1. Len(t) + 1 \in 1 .. Len(new) /\ new[Len(t) + 1].key = R[r][k + 1].key
        BY <1>2, <2>9, <2>10 DEF cell
      <4>2. QED
        BY <3>2, <4>1
    <3>3. QED
      BY <1>3, <3>1, <3>2
  <2>16. Filled(new, R, r, k + 1)
    BY <2>8, <2>10, <2>11, <2>13, <2>14, <2>15 DEF Filled
  <2>17. QED
    BY <2>10, <2>16 DEF new, C, cell
<1>5. CASE i # 0
  <2>1. i \in 1 .. Len(t) /\ t[i].key = cell.key
    <3> HIDE DEF cell
    <3>1. QED
      BY <1>5, FoundIs
  <2>2. \A c \in 1 .. Len(t) : c # i => R[r][k + 1].key # t[c].key
    BY <2>1 DEF Filled
  <2>3. \A c \in 1 .. Len(t) : c # i => ColumnOK(t[c], R, r, k + 1)
    <3> TAKE c \in 1 .. Len(t)
    <3> HAVE c # i
    <3>1. ColumnOK(t[c], R, r, k) /\ R[r][k + 1].key # t[c].key
      BY <2>2 DEF Filled
    <3>2. QED
      BY <3>1, OtherColumn
  <2>4. ColumnOK(t[i], R, r, k)
    BY <2>1 DEF Filled
  <2>5. CASE ~(Len(t[i].rows) < r)
    <3>1. new = t
      <4> HIDE DEF cell
      <4>1. QED
        BY <1>1, <1>5, <2>5, AddCellIs
    <3>2. ColumnOK(t[i], R, r, k + 1)
      BY <2>4, <2>5, SameColumn
    <3>3. \A q, j : IsPlaced(R, r, k + 1, q, j) => \E c \in 1 .. Len(t) : t[c].key = R[q][j].key
      <4> TAKE q, j
      <4> HAVE IsPlaced(R, r, k + 1, q, j)
      <4>1. CASE IsPlaced(R, r, k, q, j)
        BY <4>1 DEF Filled
      <4>2. CASE q = r /\ j = k + 1
        BY <2>1, <4>2
      <4>3. QED
        BY <1>3, <4>1, <4>2
    <3> HIDE DEF new, cell, i
    <3>4. Filled(t, R, r, k + 1)
      <4>1. \A c \in 1 .. Len(t) : ColumnOK(t[c], R, r, k + 1)
        BY <2>3, <3>2
      <4>2. QED
        BY <3>3, <4>1 DEF Filled
    <3>5. QED
      BY <3>1, <3>4 DEF new, cell
  <2>6. CASE Len(t[i].rows) < r
    <3> DEFINE column == Grown(t[i], r, cell)
    <3>1. t[i] \in C /\ t[i].rows \in Seq(W) /\ t[i].key \in K /\ t[i].header \in H
          /\ t[i] = [key |-> t[i].key, header |-> t[i].header, rows |-> t[i].rows]
      BY <1>2, <2>1 DEF Columns
    <3>2. placed(t[i].rows) \in Seq(W)
      <4> HIDE DEF cell, W, i
      <4>1. QED
        BY <1>1, <2>6, <3>1, PlacedIs
    <3>3. column = [key |-> t[i].key, header |-> t[i].header, rows |-> placed(t[i].rows)]
      <4> DEFINE e == t[i]
      <4>1. e = [key |-> e.key, header |-> e.header, rows |-> e.rows]
        BY <3>1
      <4> HIDE DEF e, cell
      <4>2. Grown(e, r, cell) = [key |-> e.key, header |-> e.header, rows |-> placed(e.rows)]
        BY <4>1 DEF Grown
      <4>3. QED
        BY <4>2 DEF e
    <3>4. column \in C /\ column.key = cell.key /\ column.rows = placed(t[i].rows)
      <4> DEFINE p == placed(t[i].rows)
      <4>1. p \in Seq(W) /\ column = [key |-> t[i].key, header |-> t[i].header, rows |-> p]
        BY <3>2, <3>3
      <4> HIDE DEF p, column, i, cell
      <4>2. QED
        BY <2>1, <3>1, <4>1 DEF Columns, p
    <3>5. new = [t EXCEPT ![i] = column]
      <4> HIDE DEF cell
      <4>1. QED
        BY <1>1, <1>5, <2>6, AddCellIs
    <3>6. ColumnOK(column, R, r, k + 1)
      <4> DEFINE rows == t[i].rows
      <4>1. /\ rows \in Seq(W) /\ Len(rows) < r /\ column.key = R[r][k + 1].key
            /\ column.rows = Placed(rows, r, R[r][k + 1].value)
        BY <2>6, <3>1, <3>4
      <4>2. \A q \in 1 .. r - 1 : Fits([key |-> column.key, rows |-> rows], q, R[q], Len(R[q]))
        <5> TAKE q \in 1 .. r - 1
        <5>1. Fits(t[i], q, R[q], Len(R[q]))
          BY <2>4 DEF ColumnOK
        <5>2. t[i].key = column.key
          BY <2>1, <3>4
        <5> HIDE DEF i, column
        <5>3. QED
          BY <5>1, <5>2 DEF Fits
      <4>3. Without(R[r], k, column.key)
        BY <2>1, <2>4, <2>6, <3>4 DEF ColumnOK
      <4>4. R[r][k + 1].value \in W
        BY <1>1
      <4> HIDE DEF column, rows, W, i
      <4>5. QED
        BY <1>1, <4>1, <4>2, <4>3, <4>4, GrownColumn
    <3> HIDE DEF column, C, cell
    <3>7. /\ new \in Seq(C) /\ Len(new) = Len(t) /\ new[i] = column
          /\ \A c \in 1 .. Len(t) : c # i => new[c] = t[c]
      <4> HIDE DEF i, new
      <4>1. t \in Seq(C)
        BY DEF C
      <4>2. QED
        BY <2>1, <3>4, <3>5, <4>1, ExceptSeq
    <3> HIDE DEF new
    <3>8. \A c \in 1 .. Len(t) : new[c].key = t[c].key
      BY <2>1, <3>4, <3>7
    <3>9. \A q, j : IsPlaced(R, r, k + 1, q, j) => \E c \in 1 .. Len(t) : t[c].key = R[q][j].key
      <4> TAKE q, j
      <4> HAVE IsPlaced(R, r, k + 1, q, j)
      <4>1. CASE IsPlaced(R, r, k, q, j)
        BY <4>1 DEF Filled
      <4>2. CASE q = r /\ j = k + 1
        BY <2>1, <4>2 DEF cell
      <4>3. QED
        BY <1>3, <4>1, <4>2
    <3> HIDE DEF i
    <3>10. Filled(new, R, r, k + 1)
      <4>1. \A c \in 1 .. Len(t) : ColumnOK(new[c], R, r, k + 1)
        BY <2>3, <3>6, <3>7
      <4>2. QED
        BY <3>7, <3>8, <3>9, <4>1 DEF Filled
    <3>11. QED
      BY <3>7, <3>10 DEF new, C, cell
  <2>7. QED
    BY <2>5, <2>6
<1>6. QED
  BY <1>4, <1>5

-----------------------------------------------------------------------------
(* The table of a list of rows                                             *)

\* The tables of some keys, headers and values.
Tables(K, H, V) == Seq(Columns(K, H, V))

\* The table after each cell of a row.
RowSteps(F, T, t, r, cells) ==
  /\ F \in [0 .. Len(cells) -> T] /\ F[0] = t
  /\ \A k \in 1 .. Len(cells) : F[k] = AddCell(F[k - 1], r, cells[k])

\* add_row adds the cells of a row one by one.
LEMMA AddRowSteps ==
  ASSUME NEW T, NEW t \in T, NEW r, NEW C, NEW cells \in Seq(C),
         \A u \in T, cell \in C : AddCell(u, r, cell) \in T
  PROVE  \E F : RowSteps(F, T, t, r, cells) /\ add_row(t, r, cells) = F[Len(cells)]
<1> DEFINE n == Len(cells)
           op(u, cell) == AddCell(u, r, cell)
           step == [k \in 1 .. n |-> [u \in T |-> op(u, cells[k])]]
           Is(h) == h = [P \in SUBSET (1 .. n) |->
                          IF P = {} THEN t ELSE op(h[P \ {Max(P)}], cells[Max(P)])]
           g == CHOOSE h : Is(h)
<1>1. n \in Nat /\ DOMAIN cells = 1 .. n /\ \A k \in 1 .. n : cells[k] \in C
  BY LenProperties, ElementOfSeq
<1>2. add_row(t, r, cells) = g[1 .. n]
  BY <1>1 DEF add_row, FoldLeft, MapThenFoldSet, AddCell
<1>3. \A k \in 1 .. n, u \in T : op(u, cells[k]) \in T
  BY <1>1
<1>4. step \in Recursions(n, T) /\ \A k \in 1 .. n, u \in T : step[k][u] = op(u, cells[k])
  BY <1>3 DEF Recursions
<1> HIDE DEF n, step, op
<1>5. PICK G : FoldTable(G, n, T, t, step)
  BY <1>1, <1>4, FoldTableExists
<1>6. \A P \in SUBSET (1 .. n) : P # {} => Max(P) \in 1 .. n
  <2> TAKE P \in SUBSET (1 .. n)
  <2> HAVE P # {}
  <2>1. P \in SUBSET (0 .. n)
    OBVIOUS
  <2>2. Max(P) \in P
    BY <1>1, <2>1, MaxIsGreatest
  <2>3. QED
    BY <1>1, <2>2
<1>7. Is(G)
  <2>1. \A P \in SUBSET (1 .. n) :
          G[P] = IF P = {} THEN t ELSE op(G[P \ {Max(P)}], cells[Max(P)])
    <3> TAKE P \in SUBSET (1 .. n)
    <3>1. CASE P = {}
      BY <1>5, <3>1 DEF FoldTable
    <3>2. CASE P # {}
      <4>1. G[P \ {Max(P)}] \in T
        BY <1>5 DEF FoldTable
      <4>2. QED
        BY <1>4, <1>5, <1>6, <3>2, <4>1 DEF FoldTable
    <3>3. QED
      BY <3>1, <3>2
  <2>2. G = [P \in SUBSET (1 .. n) |-> G[P]]
    BY <1>5 DEF FoldTable
  <2>3. QED
    BY <2>1, <2>2
<1>8. Is(g)
  <2> HIDE DEF Is
  <2>1. QED
    BY <1>7
<1> HIDE DEF g
<1>9. g[{}] = t /\ \A P \in SUBSET (1 .. n) :
         P # {} => g[P] = op(g[P \ {Max(P)}], cells[Max(P)])
  BY <1>8
<1> HIDE DEF Is
<1>10. PICK F \in [0 .. n -> T] : Follows(F, n, t, step) /\ F[n] = g[1 .. n]
  <2>1. Agrees(g, n, T, t, step)
    BY <1>4, <1>6, <1>9 DEF Agrees
  <2>2. QED
    BY <1>1, <1>4, <2>1, FoldPrefixes
<1>11. \A k \in 1 .. n : F[k] = op(F[k - 1], cells[k])
  <2> TAKE k \in 1 .. n
  <2>1. F[k - 1] \in T
    BY <1>1
  <2>2. QED
    BY <1>4, <1>10, <2>1 DEF Follows
<1>12. QED
  BY <1>2, <1>10, <1>11 DEF Follows, RowSteps, n, op

\* The table after each row.
TableSteps(F, T, R, n) ==
  /\ F \in [0 .. n -> T] /\ F[0] = <<>>
  /\ \A r \in 1 .. n : F[r] = add_row(F[r - 1], r, R[r])

\* The rows of a table are added one by one, and then their lengths are fixed.
LEMMA AllRowSteps ==
  ASSUME NEW T, <<>> \in T, NEW n \in Nat, NEW R, DOMAIN R = 1 .. n,
         \A u \in T, r \in 1 .. n : add_row(u, r, R[r]) \in T
  PROVE  \E F : TableSteps(F, T, R, n) /\ Table(R) = fix_row_lengths(F[n])
<1> DEFINE all == [row \in DOMAIN R |-> row]
           op(u, r) == add_row(u, r, R[r])
           step == [r \in 1 .. n |-> [u \in T |-> op(u, r)]]
           none == <<>>
           Is(h) == h = [P \in SUBSET (1 .. n) |->
                          IF P = {} THEN none ELSE op(h[P \ {Max(P)}], all[Max(P)])]
           g == CHOOSE h : Is(h)
<1>1. DOMAIN all = 1 .. n /\ none \in T /\ \A r \in 1 .. n : all[r] = r
  OBVIOUS
<1>2. Table(R) = fix_row_lengths(g[1 .. n])
  BY <1>1 DEF Table, FoldLeft, MapThenFoldSet
<1>3. \A r \in 1 .. n, u \in T : op(u, r) \in T
  OBVIOUS
<1>4. step \in Recursions(n, T) /\ \A r \in 1 .. n, u \in T : step[r][u] = op(u, r)
  BY <1>3 DEF Recursions
<1> HIDE DEF step, op, all, none
<1>5. PICK G : FoldTable(G, n, T, none, step)
  BY <1>1, <1>4, FoldTableExists
<1>6. \A P \in SUBSET (1 .. n) : P # {} => Max(P) \in 1 .. n /\ all[Max(P)] = Max(P)
  <2> TAKE P \in SUBSET (1 .. n)
  <2> HAVE P # {}
  <2>1. P \in SUBSET (0 .. n)
    OBVIOUS
  <2>2. Max(P) \in P
    BY <2>1, MaxIsGreatest
  <2>3. QED
    BY <1>1, <2>2
<1>7. Is(G)
  <2>1. \A P \in SUBSET (1 .. n) :
          G[P] = IF P = {} THEN none ELSE op(G[P \ {Max(P)}], all[Max(P)])
    <3> TAKE P \in SUBSET (1 .. n)
    <3>1. CASE P = {}
      BY <1>5, <3>1 DEF FoldTable
    <3>2. CASE P # {}
      <4>1. G[P \ {Max(P)}] \in T
        BY <1>5 DEF FoldTable
      <4>2. QED
        BY <1>4, <1>5, <1>6, <3>2, <4>1 DEF FoldTable
    <3>3. QED
      BY <3>1, <3>2
  <2>2. G = [P \in SUBSET (1 .. n) |-> G[P]]
    BY <1>5 DEF FoldTable
  <2>3. QED
    BY <2>1, <2>2
<1>8. Is(g)
  <2> HIDE DEF Is
  <2>1. QED
    BY <1>7
<1> HIDE DEF g
<1>9. g[{}] = none /\ \A P \in SUBSET (1 .. n) : P # {} => g[P] = op(g[P \ {Max(P)}], Max(P))
  BY <1>6, <1>8
<1> HIDE DEF Is
<1>10. PICK F \in [0 .. n -> T] : Follows(F, n, none, step) /\ F[n] = g[1 .. n]
  <2>1. Agrees(g, n, T, none, step)
    BY <1>4, <1>6, <1>9 DEF Agrees
  <2>2. QED
    BY <1>1, <1>4, <2>1, FoldPrefixes
<1>11. \A r \in 1 .. n : F[r] = op(F[r - 1], r)
  <2> TAKE r \in 1 .. n
  <2>1. F[r - 1] \in T
    OBVIOUS
  <2>2. QED
    BY <1>4, <1>10, <2>1 DEF Follows
<1>12. QED
  BY <1>2, <1>10, <1>11 DEF Follows, TableSteps, none, op

\* add_cell keeps tables tables.
LEMMA AddCellType ==
  ASSUME NEW K, NEW H, NEW V, NEW t \in Tables(K, H, V), NEW r \in Nat \ {0},
         NEW cell \in Cells(K, H, V)
  PROVE  AddCell(t, r, cell) \in Tables(K, H, V)
<1> DEFINE C == Columns(K, H, V)
           W == V \cup {Blank}
           i == Found(t, cell.key)
<1>1. t \in Seq(C) /\ cell.key \in K /\ cell.header \in H /\ cell.value \in W /\ Blank \in W
  BY DEF Tables, Cells
<1>2. CASE i = 0
  <2> DEFINE e == <<>>
  <2>1. e \in Seq(W) /\ Len(e) < r
    OBVIOUS
  <2> HIDE DEF W
  <2>2. NewColumn(r, cell) = [key |-> cell.key, header |-> cell.header,
                             rows |-> Placed(e, r, cell.value)]
    BY DEF NewColumn
  <2> HIDE DEF e
  <2>3. Placed(e, r, cell.value) \in Seq(W)
    BY <1>1, <2>1, PlacedIs
  <2>4. NewColumn(r, cell) \in C
    BY <1>1, <2>2, <2>3 DEF Columns, W
  <2>5. AddCell(t, r, cell) = Append(t, NewColumn(r, cell))
    BY <1>1, <1>2, AddCellIs
  <2> HIDE DEF C
  <2>6. QED
    BY <1>1, <2>4, <2>5, AppendProperties DEF Tables, C
<1>3. CASE i # 0
  <2>1. i \in 1 .. Len(t)
    BY <1>1, <1>3, FoundIs
  <2>2. CASE ~(Len(t[i].rows) < r)
    BY <1>1, <1>3, <2>2, AddCellIs
  <2>3. CASE Len(t[i].rows) < r
    <3> DEFINE e == t[i]
    <3>0. e \in C
      <4> HIDE DEF i, C
      <4>1. QED
        BY <1>1, <2>1, ElementOfSeq
    <3>1. e.rows \in Seq(W) /\ e.key \in K /\ e.header \in H
          /\ e = [key |-> e.key, header |-> e.header, rows |-> e.rows]
      <4> HIDE DEF e
      <4>1. QED
        BY <3>0 DEF Columns
    <3>2. Len(e.rows) < r
      BY <2>3
    <3>3. AddCell(t, r, cell) = [t EXCEPT ![i] = Grown(e, r, cell)]
      BY <1>1, <1>3, <2>3, AddCellIs
    <3> HIDE DEF e, W
    <3>4. Placed(e.rows, r, cell.value) \in Seq(W)
      BY <1>1, <3>1, <3>2, PlacedIs
    <3>5. Grown(e, r, cell) \in C
      BY <3>1, <3>4 DEF Grown, Columns, W
    <3> HIDE DEF C, i
    <3>6. QED
      BY <1>1, <2>1, <3>3, <3>5, ExceptSeq DEF Tables, C
  <2>4. QED
    BY <2>2, <2>3
<1>4. QED
  BY <1>2, <1>3

\* A row more: what the table has then is complete up to it.
LEMMA RowFills ==
  ASSUME NEW K, NEW H, NEW V, NEW t \in Tables(K, H, V), NEW R, NEW r \in Nat \ {0},
         R[r] \in Seq(Cells(K, H, V)), Filled(t, R, r, 0)
  PROVE  add_row(t, r, R[r]) \in Tables(K, H, V) /\ Filled(add_row(t, r, R[r]), R, r + 1, 0)
<1> DEFINE cells == R[r]
           n == Len(cells)
           T == {u \in Tables(K, H, V) : \E k \in 0 .. n : Filled(u, R, r, k)}
<1>1. n \in Nat /\ \A k \in 1 .. n : cells[k] \in Cells(K, H, V)
  BY LenProperties, ElementOfSeq
<1>2. \A u \in Tables(K, H, V), cell \in Cells(K, H, V) : AddCell(u, r, cell) \in Tables(K, H, V)
  BY AddCellType DEF Tables
<1>3. PICK F : RowSteps(F, Tables(K, H, V), t, r, cells) /\ add_row(t, r, cells) = F[n]
  BY <1>2, AddRowSteps
<1> DEFINE D == {k \in 0 .. n : Filled(F[k], R, r, k)}
<1>4. 0 \in D
  BY <1>1, <1>3 DEF RowSteps
<1>5. ASSUME NEW k \in 0 .. n - 1, k \in D PROVE k + 1 \in D
  <2>1. k + 1 \in 1 .. n /\ k + 1 \in 0 .. n /\ (k + 1) - 1 = k /\ k \in Nat /\ k \in 0 .. n
    BY <1>1
  <2>2. F[k + 1] = AddCell(F[k], r, R[r][k + 1]) /\ F[k] \in Seq(Columns(K, H, V))
    BY <1>3, <2>1 DEF RowSteps, Tables
  <2>3. R[r][k + 1] \in Cells(K, H, V) /\ Filled(F[k], R, r, k)
    BY <1>1, <1>5, <2>1
  <2>4. Filled(AddCell(F[k], r, R[r][k + 1]), R, r, k + 1)
    BY <2>1, <2>2, <2>3, AddCellFills
  <2>5. QED
    BY <2>1, <2>2, <2>4
<1> HIDE DEF D
<1>6. n \in D /\ F[n] \in Tables(K, H, V)
  <2>1. \A k \in 0 .. n : k \in D
    BY <1>1, <1>4, <1>5, FromZero
  <2>2. n \in 0 .. n
    BY <1>1
  <2>3. QED
    BY <1>3, <2>1, <2>2 DEF RowSteps
<1> DEFINE u == F[n]
<1>7. Filled(u, R, r, n) /\ u \in Tables(K, H, V)
  BY <1>6 DEF D
<1> HIDE DEF u
<1>8. \A q, j : IsPlaced(R, r + 1, 0, q, j) <=> IsPlaced(R, r, n, q, j)
  <2> TAKE q, j
  <2>1. 1 .. 0 = {} /\ (q \in 1 .. (r + 1) - 1 <=> q \in 1 .. r - 1 \/ q = r)
    OBVIOUS
  <2>2. q = r => (j \in 1 .. Len(R[q]) <=> j \in 1 .. n)
    OBVIOUS
  <2> HIDE DEF n
  <2>3. ~(q = r /\ q \in 1 .. r - 1)
    OBVIOUS
  <2>4. QED
    BY <2>1, <2>2, <2>3 DEF IsPlaced
<1>9. ASSUME NEW c \in 1 .. Len(u) PROVE ColumnOK(u[c], R, r + 1, 0)
  <2> DEFINE column == u[c]
  <2>1. ColumnOK(column, R, r, n)
    BY <1>7 DEF Filled
  <2> HIDE DEF column
  <2>2. Len(column.rows) \in 0 .. r + 1 /\ Len(column.rows) < r + 1
    BY <2>1 DEF ColumnOK
  <2>3. Without(R[r + 1], 0, column.key)
    BY DEF Without
  <2>4. Fits(column, r, R[r], n)
    <3>1. CASE Len(column.rows) = r
      <4>1. IsFirst(R[r], n, column.key, column.rows[r]) /\ r <= Len(column.rows)
        BY <2>1, <3>1 DEF ColumnOK
      <4>2. QED
        BY <4>1 DEF Fits
    <3>2. CASE Len(column.rows) # r
      <4>1. Len(column.rows) < r /\ r \notin 1 .. Len(column.rows)
        BY <2>1, <3>2 DEF ColumnOK
      <4>2. Without(R[r], n, column.key) /\ At(column.rows, r) = Blank
        BY <2>1, <4>1 DEF ColumnOK, At
      <4>3. QED
        BY <4>2 DEF Fits
    <3>3. QED
      BY <3>1, <3>2
  <2>5. \A q \in 1 .. (r + 1) - 1 : Fits(column, q, R[q], Len(R[q]))
    <3> TAKE q \in 1 .. (r + 1) - 1
    <3>1. q \in 1 .. r - 1 \/ q = r
      OBVIOUS
    <3>2. QED
      BY <2>1, <2>4, <3>1 DEF ColumnOK
  <2>6. \E q, j : IsPlaced(R, r + 1, 0, q, j) /\ R[q][j].key = column.key
    BY <1>8, <2>1 DEF ColumnOK
  <2>7. QED
    BY <2>2, <2>3, <2>5, <2>6 DEF ColumnOK, column
<1>10. Filled(u, R, r + 1, 0)
  BY <1>7, <1>8, <1>9 DEF Filled
<1>11. QED
  BY <1>3, <1>7, <1>10 DEF u

\* add_row keeps tables tables.
LEMMA AddRowType ==
  ASSUME NEW K, NEW H, NEW V, NEW t \in Tables(K, H, V), NEW r \in Nat \ {0},
         NEW cells \in Seq(Cells(K, H, V))
  PROVE  add_row(t, r, cells) \in Tables(K, H, V)
<1>1. \A u \in Tables(K, H, V), cell \in Cells(K, H, V) : AddCell(u, r, cell) \in Tables(K, H, V)
  BY AddCellType
<1>2. PICK F : RowSteps(F, Tables(K, H, V), t, r, cells) /\ add_row(t, r, cells) = F[Len(cells)]
  BY <1>1, AddRowSteps
<1>3. Len(cells) \in 0 .. Len(cells)
  BY LenProperties
<1>4. QED
  BY <1>2, <1>3 DEF RowSteps

\* The first value a row has for a key is the one its cells have first, and blank
\* if none of them has the key.
LEMMA FirstCellIs ==
  ASSUME NEW C, NEW cells \in Seq(C), NEW key
  PROVE  /\ \A v : IsFirst(cells, Len(cells), key, v) => FirstCell(cells, key) = v
         /\ Without(cells, Len(cells), key) => FirstCell(cells, key) = Blank
<1> DEFINE i == Found(cells, key)
<1>1. FirstCell(cells, key) = IF i = 0 THEN Blank ELSE cells[i].value
  BY DEF FirstCell, Found
<1>2. \/ i = 0 /\ Without(cells, Len(cells), key)
      \/ i \in 1 .. Len(cells) /\ cells[i].key = key /\ Without(cells, i - 1, key)
  BY FoundIs DEF Without
<1> HIDE DEF i
<1>3. Len(cells) \in Nat
  BY LenProperties
<1>4. ASSUME NEW v, IsFirst(cells, Len(cells), key, v) PROVE FirstCell(cells, key) = v
  <2>1. PICK j \in 1 .. Len(cells) : cells[j].key = key /\ v = cells[j].value /\ Without(cells, j - 1, key)
    BY <1>4 DEF IsFirst
  <2>2. i \in 1 .. Len(cells) /\ cells[i].key = key /\ Without(cells, i - 1, key)
    BY <1>2, <2>1 DEF Without
  <2>3. ~(j \in 1 .. i - 1) /\ ~(i \in 1 .. j - 1)
    BY <2>1, <2>2 DEF Without
  <2>4. i = j
    BY <1>3, <2>1, <2>2, <2>3
  <2>5. QED
    BY <1>1, <1>3, <2>1, <2>4
<1>5. ASSUME Without(cells, Len(cells), key) PROVE FirstCell(cells, key) = Blank
  <2>1. i = 0
    BY <1>2, <1>5 DEF Without
  <2>2. QED
    BY <1>1, <2>1
<1>6. QED
  BY <1>4, <1>5

\* The columns of t, filled up with blanks to n rows.
IsFixed(fixed, t, n, W) ==
  /\ DOMAIN fixed = 1 .. Len(t)
  /\ \A c \in 1 .. Len(t) :
       /\ fixed[c].key = t[c].key /\ fixed[c].rows \in Seq(W) /\ Len(fixed[c].rows) = n
       /\ \A k \in 1 .. n : fixed[c].rows[k] = At(t[c].rows, k)

\* fix_row_lengths makes the columns as long as the longest.
LEMMA FixedIs ==
  ASSUME NEW K, NEW H, NEW V, NEW t \in Tables(K, H, V), NEW n \in Nat,
         \A c \in 1 .. Len(t) : Len(t[c].rows) <= n,
         Len(t) # 0 => \E c \in 1 .. Len(t) : Len(t[c].rows) = n
  PROVE  IsFixed(fix_row_lengths(t), t, n, V \cup {Blank})
<1> DEFINE lengths == {0} \cup {Len(t[c].rows) : c \in DOMAIN t}
           m == Max(lengths)
           W == V \cup {Blank}
           fixed == fix_row_lengths(t)
<1>1. Len(t) \in Nat /\ DOMAIN t = 1 .. Len(t) /\ Blank \in W
      /\ \A c \in 1 .. Len(t) : t[c] \in Columns(K, H, V)
  BY LenProperties, ElementOfSeq DEF Tables
<1>2. \A c \in 1 .. Len(t) : /\ t[c].rows \in Seq(W) /\ Len(t[c].rows) \in Nat
                              /\ t[c] = [key |-> t[c].key, header |-> t[c].header, rows |-> t[c].rows]
  <2> TAKE c \in 1 .. Len(t)
  <2> DEFINE e == t[c]
  <2>1. e \in Columns(K, H, V)
    BY <1>1
  <2> HIDE DEF e
  <2>2. e.rows \in Seq(W) /\ e = [key |-> e.key, header |-> e.header, rows |-> e.rows]
    BY <2>1 DEF Columns
  <2>3. Len(e.rows) \in Nat
    BY <2>2, LenProperties
  <2>4. QED
    BY <2>2, <2>3 DEF e
<1>3. m \in lengths /\ \A k \in lengths : m >= k
  <2>1. lengths \in SUBSET (0 .. n) /\ lengths # {}
    BY <1>1, <1>2
  <2> HIDE DEF lengths
  <2>2. QED
    BY <2>1, MaxIsGreatest
<1>4. Len(t) # 0 => m = n
  <2>1. \A k \in lengths : k \in Nat /\ k <= n
    BY <1>1, <1>2
  <2>2. Len(t) # 0 => n \in lengths
    BY <1>1
  <2> HIDE DEF lengths, m
  <2>3. QED
    BY <1>3, <2>1, <2>2
<1>5. fixed = [c \in DOMAIN t |-> [t[c] EXCEPT !.rows = Resized(@, m)]]
  BY DEF fix_row_lengths
<1> HIDE DEF fixed, m, lengths
<1>6. ASSUME NEW c \in 1 .. Len(t)
      PROVE  /\ fixed[c].key = t[c].key /\ fixed[c].rows \in Seq(W) /\ Len(fixed[c].rows) = n
             /\ \A k \in 1 .. n : fixed[c].rows[k] = At(t[c].rows, k)
  <2> DEFINE e == t[c]
             new == Resized(e.rows, n)
  <2>1. m = n
    BY <1>1, <1>4
  <2>2. fixed[c] = [e EXCEPT !.rows = new]
    BY <1>1, <1>5, <2>1
  <2>3. e.rows \in Seq(W) /\ Len(e.rows) \in Nat /\ Len(e.rows) <= n
        /\ e = [key |-> e.key, header |-> e.header, rows |-> e.rows]
    BY <1>2
  <2> HIDE DEF e, W
  <2>4. /\ new \in Seq(W) /\ Len(new) = IF Len(e.rows) >= n THEN Len(e.rows) ELSE n
        /\ \A k \in Nat : At(new, k) = At(e.rows, k)
    BY <1>1, <2>3, ResizedIs
  <2> HIDE DEF new
  <2>5. Len(new) = n
    BY <2>3, <2>4
  <2>6. \A k \in 1 .. n : new[k] = At(e.rows, k)
    BY <2>4, <2>5 DEF At
  <2>7. fixed[c].key = e.key /\ fixed[c].rows = new
    BY <2>2, <2>3
  <2>8. QED
    BY <2>4, <2>5, <2>6, <2>7 DEF e
<1>7. DOMAIN fixed = 1 .. Len(t)
  BY <1>1, <1>5
<1>8. QED
  BY <1>6, <1>7 DEF fixed, IsFixed, W

\* The table of a list of rows has these rows, if not two of them are empty:
\* a table is as long as its longest column.
LEMMA TableIs ==
  ASSUME NEW K, NEW H, NEW V, NEW R \in Seq(Seq(Cells(K, H, V))),
         Len(R) <= 1 \/ \A r \in 1 .. Len(R) : Len(R[r]) # 0
  PROVE  TableOf(Table(R), R)
<1> DEFINE n == Len(R)
           T == Tables(K, H, V)
<1>1. n \in Nat /\ DOMAIN R = 1 .. n
  BY LenProperties
<1>2. \A r \in 1 .. n : R[r] \in Seq(Cells(K, H, V))
  BY <1>1, ElementOfSeq
<1>3. \A u \in T, r \in 1 .. n : add_row(u, r, R[r]) \in T
  BY <1>2, AddRowType
<1> HIDE DEF n
<1>4. <<>> \in T
  BY DEF Tables
<1>5. PICK F : TableSteps(F, T, R, n) /\ Table(R) = fix_row_lengths(F[n])
  BY <1>1, <1>3, <1>4, AllRowSteps
<1> DEFINE D == {r \in 0 .. n : Filled(F[r], R, r + 1, 0)}
<1>6. 0 \in D
  <2>1. F[0] = <<>> /\ 0 \in 0 .. n
    BY <1>1, <1>5 DEF TableSteps
  <2>2. \A q, j : ~IsPlaced(R, 0 + 1, 0, q, j)
    BY DEF IsPlaced
  <2>3. Len(<<>>) = 0
    OBVIOUS
  <2>4. Filled(<<>>, R, 0 + 1, 0)
    BY <2>2, <2>3 DEF Filled
  <2>5. QED
    BY <2>1, <2>4
<1>7. ASSUME NEW r \in 0 .. n - 1, r \in D PROVE r + 1 \in D
  <2>1. r + 1 \in 1 .. n /\ r + 1 \in 0 .. n /\ (r + 1) - 1 = r /\ r \in 0 .. n /\ r + 1 \in Nat \ {0}
    BY <1>1
  <2>2. F[r] \in Tables(K, H, V) /\ F[r + 1] = add_row(F[r], r + 1, R[r + 1])
    BY <1>5, <2>1 DEF TableSteps
  <2>3. Filled(F[r], R, r + 1, 0)
    BY <1>7
  <2>4. Filled(add_row(F[r], r + 1, R[r + 1]), R, (r + 1) + 1, 0)
    BY <1>2, <2>1, <2>2, <2>3, RowFills
  <2>5. QED
    BY <2>1, <2>2, <2>4
<1> HIDE DEF D
<1> DEFINE t == F[n]
<1>8. Filled(t, R, n + 1, 0) /\ t \in Tables(K, H, V)
  <2>1. \A r \in 0 .. n : r \in D
    BY <1>1, <1>6, <1>7, FromZero
  <2>2. n \in 0 .. n
    BY <1>1
  <2>3. QED
    BY <1>5, <2>1, <2>2 DEF D, TableSteps
<1> HIDE DEF t
<1>9. \A c \in 1 .. Len(t) : ColumnOK(t[c], R, n + 1, 0)
  BY <1>8 DEF Filled
<1>10. \A q, j : IsPlaced(R, n + 1, 0, q, j) <=> q \in 1 .. n /\ j \in 1 .. Len(R[q])
  BY <1>1 DEF IsPlaced
<1>11. \A c \in 1 .. Len(t), q \in 1 .. n : Fits(t[c], q, R[q], Len(R[q]))
  <2> TAKE c \in 1 .. Len(t), q \in 1 .. n
  <2>1. q \in 1 .. (n + 1) - 1
    BY <1>1
  <2>2. QED
    BY <1>9, <2>1 DEF ColumnOK
<1>12. \A c \in 1 .. Len(t) : Len(t[c].rows) <= n
  <2> TAKE c \in 1 .. Len(t)
  <2>1. Len(t[c].rows) \in 0 .. n + 1 /\ Len(t[c].rows) # n + 1
    <3>1. ~IsFirst(R[n + 1], 0, t[c].key, t[c].rows[n + 1])
      BY DEF IsFirst
    <3>2. QED
      BY <1>9, <3>1 DEF ColumnOK
  <2>2. QED
    BY <1>1, <2>1
<1>13. Len(t) # 0 => \E c \in 1 .. Len(t) : Len(t[c].rows) = n
  <2> HAVE Len(t) # 0
  <2>1. 1 \in 1 .. Len(t)
    BY <1>8, LenProperties DEF Tables
  <2>2. PICK q, j : q \in 1 .. n /\ j \in 1 .. Len(R[q])
    BY <1>9, <1>10, <2>1 DEF ColumnOK
  <2>3. n \in 1 .. n /\ Len(R[n]) \in Nat
    <3>1. n \in 1 .. n
      BY <1>1, <2>2
    <3>2. QED
      BY <1>2, <3>1, LenProperties
  <2>4. 1 \in 1 .. Len(R[n])
    <3>1. CASE n <= 1
      <4>1. q = n /\ Len(R[n]) # 0
        BY <1>1, <2>2, <2>3, <3>1
      <4>2. QED
        BY <2>3, <4>1
    <3>2. CASE ~(n <= 1)
      BY <2>3, <3>2 DEF n
    <3>3. QED
      BY <3>1, <3>2
  <2>5. PICK c \in 1 .. Len(t) : t[c].key = R[n][1].key
    BY <1>8, <1>10, <2>3, <2>4 DEF Filled
  <2>6. ~Without(R[n], Len(R[n]), t[c].key)
    BY <2>4, <2>5 DEF Without
  <2>7. n <= Len(t[c].rows)
    BY <1>11, <2>3, <2>6 DEF Fits
  <2>8. Len(t[c].rows) \in 0 .. n + 1 /\ Len(t[c].rows) <= n
    BY <1>9, <1>12 DEF ColumnOK
  <2>9. QED
    BY <1>1, <2>7, <2>8
<1> DEFINE fixed == fix_row_lengths(t)
<1>14. IsFixed(fixed, t, n, V \cup {Blank})
  BY <1>1, <1>8, <1>12, <1>13, FixedIs
<1> HIDE DEF fixed
<1>15. \A c \in 1 .. Len(t) : fixed[c].rows = [r \in DOMAIN R |-> FirstCell(R[r], fixed[c].key)]
  <2> TAKE c \in 1 .. Len(t)
  <2> DEFINE rows == fixed[c].rows
  <2>1. rows = [r \in 1 .. n |-> rows[r]]
    <3>1. rows \in [1 .. n -> V \cup {Blank}]
      <4>1. rows \in [1 .. Len(rows) -> V \cup {Blank}]
        BY <1>14, LenProperties DEF IsFixed
      <4>2. QED
        BY <1>14, <4>1 DEF IsFixed
    <3>2. QED
      BY <3>1
  <2>2. \A r \in 1 .. n : rows[r] = FirstCell(R[r], fixed[c].key)
    <3> TAKE r \in 1 .. n
    <3>1. rows[r] = At(t[c].rows, r) /\ fixed[c].key = t[c].key
      BY <1>14 DEF IsFixed
    <3>2. CASE r <= Len(t[c].rows) /\ IsFirst(R[r], Len(R[r]), t[c].key, t[c].rows[r])
      <4>1. r \in 1 .. Len(t[c].rows)
        BY <1>1, <1>9, <3>2 DEF ColumnOK
      <4>2. rows[r] = t[c].rows[r]
        BY <3>1, <4>1 DEF At
      <4>3. QED
        BY <1>2, <3>1, <3>2, <4>2, FirstCellIs
    <3>3. CASE Without(R[r], Len(R[r]), t[c].key) /\ At(t[c].rows, r) = Blank
      BY <1>2, <3>1, <3>3, FirstCellIs
    <3>4. QED
      BY <1>11, <3>2, <3>3 DEF Fits
  <2> HIDE DEF rows
  <2>3. rows = [r \in 1 .. n |-> FirstCell(R[r], fixed[c].key)]
    BY <2>1, <2>2
  <2>4. QED
    BY <1>1, <2>3 DEF rows
<1>16. \A r \in DOMAIN R : \A k \in DOMAIN R[r] : \E c \in DOMAIN fixed : fixed[c].key = R[r][k].key
  <2> TAKE r \in DOMAIN R
  <2> TAKE k \in DOMAIN R[r]
  <2>1. r \in 1 .. n /\ k \in 1 .. Len(R[r])
    BY <1>1, <1>2, LenProperties
  <2>2. PICK c \in 1 .. Len(t) : t[c].key = R[r][k].key
    BY <1>8, <1>10, <2>1 DEF Filled
  <2>3. QED
    BY <1>14, <2>2 DEF IsFixed
<1>17. Table(R) = fixed
  BY <1>5 DEF fixed, t
<1>18. TableOf(fixed, R)
  <2>1. DOMAIN fixed = 1 .. Len(t)
    BY <1>14 DEF IsFixed
  <2>2. \A c \in DOMAIN fixed :
          fixed[c].rows = [r \in DOMAIN R |-> FirstCell(R[r], fixed[c].key)]
    BY <1>15, <2>1
  <2>3. QED
    BY <1>16, <2>2, Zenon DEF TableOf
<1>19. QED
  BY <1>17, <1>18

-----------------------------------------------------------------------------
(* The cells of a row                                                      *)

\* Cells as the printers make them, and lists of them.
IsCell(c) == c = Cell(c.key, c.header, c.value)

AreCells(cells) == IsSeq(cells) /\ \A k \in 1 .. Len(cells) : IsCell(cells[k])

\* Cell makes cells.
LEMMA CellIs ==
  ASSUME NEW key, NEW header, NEW value
  PROVE  IsCell(Cell(key, header, value))
BY DEF IsCell, Cell

\* A list is a sequence.
LEMMA ListIs ==
  ASSUME NEW s, IsList(s)
  PROVE  IsSeq(s) /\ Len(s) \in Nat /\ DOMAIN s = 1 .. Len(s) /\ (s # <<>> => Len(s) # 0)
<1> DEFINE S == {s[i] : i \in 1 .. Len(s)}
           t == [i \in 1 .. Len(s) |-> s[i]]
<1>1. Len(s) \in Nat /\ s = t
  BY DEF IsList
<1>2. t \in [1 .. Len(s) -> S]
  OBVIOUS
<1>3. s \in Seq(S)
  <2>1. s \in [1 .. Len(s) -> S]
    BY <1>1, <1>2
  <2> HIDE DEF S
  <2>2. QED
    BY <1>1, <2>1, SeqDef
<1>4. DOMAIN s = 1 .. Len(s)
  <2> HIDE DEF S
  <2>1. QED
    BY <1>3, LenProperties
<1>5. s # <<>> => Len(s) # 0
  <2> HIDE DEF S
  <2>1. QED
    BY <1>3, EmptySeq
<1>6. QED
  BY <1>1, <1>3, <1>4, <1>5 DEF IsSeq

\* A list of an element for each number is a sequence of that length.
LEMMA MappedSeq ==
  ASSUME NEW n \in Nat, NEW s, s = [k \in 1 .. n |-> s[k]]
  PROVE  IsSeq(s) /\ Len(s) = n
<1> DEFINE S == {s[i] : i \in 1 .. n}
           t == [k \in 1 .. n |-> s[k]]
<1>1. t \in [1 .. n -> S]
  OBVIOUS
<1>2. s \in [1 .. n -> S]
  BY <1>1
<1> HIDE DEF S
<1>3. s \in Seq(S)
  BY <1>2, SeqDef
<1>4. Len(s) \in Nat /\ 1 .. n = 1 .. Len(s)
  BY <1>2, <1>3, LenProperties
<1>5. Len(s) = n
  BY <1>4
<1>6. QED
  BY <1>3, <1>5 DEF IsSeq

\* So is a list of cells.
LEMMA MappedCells ==
  ASSUME NEW n \in Nat, NEW cells, cells = [k \in 1 .. n |-> cells[k]],
         \A k \in 1 .. n : IsCell(cells[k])
  PROVE  AreCells(cells) /\ Len(cells) = n
BY MappedSeq DEF AreCells

\* A sequence is a list.
LEMMA SeqIsList ==
  ASSUME NEW s, IsSeq(s)
  PROVE  IsList(s)
<1>1. PICK S : s \in Seq(S)
  BY DEF IsSeq
<1>2. Len(s) \in Nat /\ s \in [1 .. Len(s) -> S]
  BY <1>1, LenProperties
<1>3. QED
  BY <1>2 DEF IsList

\* Two lists of cells, one after the other, are one.
LEMMA JoinedCells ==
  ASSUME NEW x, AreCells(x), NEW y, AreCells(y)
  PROVE  AreCells(x \o y) /\ Len(x \o y) = Len(x) + Len(y) /\ Len(x) \in Nat /\ Len(y) \in Nat
<1> DEFINE c == x \o y
<1>1. Joined(c, x, y) /\ IsSeq(x) /\ IsSeq(y)
  BY DEF Joined, AreCells
<1> HIDE DEF c
<1>2. /\ IsSeq(c) /\ Len(x) \in Nat /\ Len(y) \in Nat
      /\ DOMAIN x = 1 .. Len(x) /\ DOMAIN y = 1 .. Len(y)
      /\ DOMAIN c = 1 .. Len(x) + Len(y)
      /\ \A i \in DOMAIN x : c[i] = x[i]
      /\ \A i \in DOMAIN y : c[Len(x) + i] = y[i]
  BY <1>1, PrefixStays
<1>3. Len(c) = Len(x) + Len(y)
  <2>1. PICK S : c \in Seq(S)
    BY <1>2 DEF IsSeq
  <2>2. Len(c) \in Nat /\ DOMAIN c = 1 .. Len(c)
    BY <2>1, LenProperties
  <2>3. QED
    BY <1>2, <2>2
<1>4. \A k \in 1 .. Len(c) : IsCell(c[k])
  <2> TAKE k \in 1 .. Len(c)
  <2>1. CASE k <= Len(x)
    <3>1. k \in DOMAIN x /\ k \in 1 .. Len(x)
      BY <1>2, <2>1
    <3>2. QED
      BY <1>2, <3>1 DEF AreCells
  <2>2. CASE ~(k <= Len(x))
    <3> DEFINE j == k - Len(x)
    <3>1. j \in DOMAIN y /\ j \in 1 .. Len(y) /\ k = Len(x) + j
      BY <1>2, <1>3, <2>2
    <3> HIDE DEF j
    <3>2. QED
      BY <1>2, <3>1 DEF AreCells
  <2>3. QED
    BY <2>1, <2>2
<1>5. AreCells(c)
  BY <1>2, <1>4 DEF AreCells
<1>6. QED
  BY <1>2, <1>3, <1>5 DEF c

\* The summaries that are not hidden are a sequence.
LEMMA VisibleIs ==
  ASSUME NEW s, IsList(s.summaries)
  PROVE  IsSeq(Visible(s)) /\ Len(Visible(s)) \in Nat /\ DOMAIN Visible(s) = 1 .. Len(Visible(s))
<1> DEFINE places == {i \in DOMAIN s.summaries : s.summaries[i].hide = ""}
<1>1. PICK S : s.summaries \in Seq(S)
  BY ListIs DEF IsSeq
<1> HIDE DEF places
<1>2. Selection(s.summaries, places) \in Seq(S)
  BY <1>1, SelectionIs
<1>3. Visible(s) \in Seq(S)
  BY <1>2 DEF Visible, places
<1>4. QED
  BY <1>3, LenProperties DEF IsSeq

\* A row of the markdown tables has cells, and some if the state has axes.
LEMMA MarkdownCellsAre ==
  ASSUME NEW s, IsList(s.axes), IsList(s.summaries)
  PROVE  AreCells(MarkdownCells(s)) /\ (s.axes # <<>> => Len(MarkdownCells(s)) # 0)
<1> DEFINE v == Visible(s)
           n == Len(v)
           m == Len(s.axes)
           axes == [i \in DOMAIN s.axes |-> MarkdownAxis(s.axes[i])]
           columns == [i \in DOMAIN v |-> LET x == v[i] IN Cell(x.tag, Header(x), Formatted(x))]
<1>1. DOMAIN v = 1 .. n /\ n \in Nat /\ DOMAIN s.axes = 1 .. m /\ m \in Nat
  BY VisibleIs, ListIs
<1>2. AreCells(axes) /\ Len(axes) = m
  <2>1. \A i \in 1 .. m : IsCell(MarkdownAxis(s.axes[i]))
    BY CellIs DEF MarkdownAxis
  <2>2. axes = [i \in 1 .. m |-> axes[i]] /\ \A i \in 1 .. m : IsCell(axes[i])
    BY <1>1, <2>1
  <2> HIDE DEF axes, m
  <2>3. QED
    BY <1>1, <2>2, MappedCells
<1>3. AreCells(columns)
  <2>1. \A i \in 1 .. n : columns[i] = Cell(v[i].tag, Header(v[i]), Formatted(v[i]))
    BY <1>1
  <2>2. columns = [i \in 1 .. n |-> columns[i]] /\ \A i \in 1 .. n : IsCell(columns[i])
    BY <1>1, <2>1, CellIs
  <2> HIDE DEF columns, n
  <2>3. QED
    BY <1>1, <2>2, MappedCells
<1>4. MarkdownCells(s) = axes \o columns
  BY DEF MarkdownCells
<1> HIDE DEF axes, columns
<1>5. AreCells(MarkdownCells(s)) /\ Len(MarkdownCells(s)) = m + Len(columns) /\ Len(columns) \in Nat
  BY <1>2, <1>3, <1>4, JoinedCells
<1>6. s.axes # <<>> => m # 0
  BY ListIs
<1>7. QED
  BY <1>1, <1>5, <1>6

\* The cells before the summaries, and the ones of the summaries.
CsvStart(row) ==
  <<Cell("_bench_name", "Benchmark", <<row.bench>>),
    Cell("_device_id", "Device", row.state.device),
    Cell("_device_name", "Device Name", row.state.device)>>
  \o FlattenSeq([i \in DOMAIN row.state.axes |-> CsvAxis(row.state.axes[i])])
  \o <<Cell("_skip_reason", "Skipped", IF row.state.skipped THEN <<"Yes">> ELSE <<"No">>)>>

\* The header of a summary's column in the CSV table, with its unit.
CsvHeader(x) == Header(x) \o (IF x.hint \in DOMAIN CsvUnits THEN CsvUnits[x.hint] ELSE "")

\* The cells of the summaries.
CsvColumns(s) ==
  [i \in DOMAIN Visible(s) |->
     LET x == Visible(s)[i] IN Cell(x.tag, CsvHeader(x), <<x.value>>)]

\* A row of the CSV table always has cells.
LEMMA CsvCellsAre ==
  ASSUME NEW row, IsList(row.state.axes), IsList(row.state.summaries)
  PROVE  AreCells(CsvCells(row)) /\ Len(CsvCells(row)) # 0
<1> DEFINE s == row.state
           m == Len(s.axes)
           of == [i \in DOMAIN s.axes |-> CsvAxis(s.axes[i])]
           c1 == Cell("_bench_name", "Benchmark", <<row.bench>>)
           c2 == Cell("_device_id", "Device", s.device)
           c3 == Cell("_device_name", "Device Name", s.device)
           c4 == Cell("_skip_reason", "Skipped", IF s.skipped THEN <<"Yes">> ELSE <<"No">>)
           first == <<c1, c2, c3>>
           last == <<c4>>
<1>1. DOMAIN s.axes = 1 .. m /\ m \in Nat
  BY ListIs
<1>2. AreCells(first) /\ Len(first) = 3
  <2>1. IsCell(c1) /\ IsCell(c2) /\ IsCell(c3)
    BY CellIs
  <2> HIDE DEF c1, c2, c3
  <2>2. first = [k \in 1 .. 3 |-> first[k]] /\ \A k \in 1 .. 3 : IsCell(first[k])
    BY <2>1
  <2> HIDE DEF first
  <2>3. QED
    BY <2>2, MappedCells
<1>3. AreCells(last) /\ Len(last) = 1
  <2>1. IsCell(c4)
    BY CellIs
  <2> HIDE DEF c4
  <2>2. last = [k \in 1 .. 1 |-> last[k]] /\ \A k \in 1 .. 1 : IsCell(last[k])
    BY <2>1
  <2> HIDE DEF last
  <2>3. QED
    BY <2>2, MappedCells
<1>4. AreCells(FlattenSeq(of))
  <2>1. \A i \in 1 .. m : AreCells(of[i])
    <3> TAKE i \in 1 .. m
    <3> DEFINE a == s.axes[i]
               d1 == Cell(a.name \o "_axis_pow2_pretty", a.name \o " (pow2)", <<"2^", a.value>>)
               d2 == Cell(a.name \o "_axis_plain", a.name, <<"2 to the", a.value>>)
               d3 == Cell(a.name \o "_axis", a.name, <<a.value>>)
               pair == <<d1, d2>>
               single == <<d3>>
    <3>1. of[i] = IF a.pow2 THEN pair ELSE single
      BY <1>1 DEF CsvAxis
    <3>2. IsCell(d1) /\ IsCell(d2) /\ IsCell(d3)
      BY CellIs
    <3> HIDE DEF d1, d2, d3
    <3>3. pair = [k \in 1 .. 2 |-> pair[k]] /\ \A k \in 1 .. 2 : IsCell(pair[k])
      BY <3>2
    <3>4. single = [k \in 1 .. 1 |-> single[k]] /\ \A k \in 1 .. 1 : IsCell(single[k])
      BY <3>2
    <3> HIDE DEF pair, single
    <3>5. AreCells(pair) /\ AreCells(single)
      BY <3>3, <3>4, MappedCells
    <3>6. QED
      BY <3>1, <3>5
  <2> DEFINE S == UNION {{of[i][k] : k \in 1 .. Len(of[i])} : i \in 1 .. m}
             C == {c \in S : IsCell(c)}
  <2>2. \A i \in 1 .. m : of[i] \in Seq(C)
    <3> HIDE DEF of
    <3> TAKE i \in 1 .. m
    <3>1. IsSeq(of[i]) /\ \A k \in 1 .. Len(of[i]) : IsCell(of[i][k])
      BY <2>1 DEF AreCells
    <3>2. \A k \in 1 .. Len(of[i]) : of[i][k] \in C
      BY <3>1
    <3> HIDE DEF C
    <3>3. QED
      BY <3>1, <3>2, SequenceOver DEF IsSeq
  <2>3. of \in Seq(Seq(C))
    <3>1. of = [i \in 1 .. m |-> of[i]]
      BY <1>1
    <3> HIDE DEF of, C
    <3>2. of \in [1 .. m -> Seq(C)]
      BY <2>2, <3>1
    <3>3. QED
      BY <1>1, <3>2, SeqDef
  <2> HIDE DEF C
  <2>4. FlattenSeq(of) \in Seq(C)
    BY <2>3, FlattenType
  <2>5. \A k \in 1 .. Len(FlattenSeq(of)) : FlattenSeq(of)[k] \in C
    BY <2>4, ElementOfSeq
  <2>6. QED
    BY <2>4, <2>5 DEF AreCells, IsSeq, C
<1> DEFINE flat == FlattenSeq(of)
           start == (first \o flat) \o last
<1>5. AreCells(start) /\ Len(start) # 0
  <2> HIDE DEF first, flat, last
  <2> DEFINE fore == first \o flat
  <2>1. AreCells(fore) /\ Len(fore) = 3 + Len(flat) /\ Len(flat) \in Nat
    BY <1>2, <1>4, JoinedCells DEF flat
  <2> HIDE DEF fore
  <2>2. AreCells(fore \o last) /\ Len(fore \o last) = Len(fore) + 1
    BY <1>3, <2>1, JoinedCells
  <2>3. QED
    BY <2>1, <2>2 DEF fore
<1>6. CsvStart(row) = start
  BY DEF CsvStart
<1>7. CsvCells(row) = IF s.skipped THEN CsvStart(row) ELSE CsvStart(row) \o CsvColumns(s)
  BY DEF CsvCells, CsvStart, CsvColumns, CsvHeader
<1> HIDE DEF start
<1>8. AreCells(CsvColumns(s))
  <2> DEFINE v == Visible(s)
             n == Len(v)
             columns == CsvColumns(s)
  <2>1. DOMAIN v = 1 .. n /\ n \in Nat
    BY VisibleIs
  <2>2. columns = [i \in 1 .. n |-> Cell(v[i].tag, CsvHeader(v[i]), <<v[i].value>>)]
    BY <2>1 DEF CsvColumns
  <2>3. columns = [i \in 1 .. n |-> columns[i]] /\ \A i \in 1 .. n : IsCell(columns[i])
    BY <2>1, <2>2, CellIs
  <2> HIDE DEF columns, n
  <2>4. AreCells(columns)
    BY <2>1, <2>3, MappedCells
  <2>5. QED
    BY <2>4 DEF columns
<1>9. QED
  <2>1. CASE s.skipped
    BY <1>5, <1>6, <1>7, <2>1
  <2>2. CASE ~s.skipped
    <3> DEFINE columns == CsvColumns(s)
    <3> HIDE DEF columns
    <3>1. AreCells(start \o columns) /\ Len(start \o columns) = Len(start) + Len(columns)
          /\ Len(start) \in Nat /\ Len(columns) \in Nat
      BY <1>5, <1>8, JoinedCells DEF columns
    <3>2. CsvCells(row) = start \o columns
      BY <1>6, <1>7, <2>2 DEF columns
    <3>3. QED
      BY <1>5, <3>1, <3>2
  <2>3. QED
    BY <2>1, <2>2

\* A list of rows, at most one of them empty if it is the only one.
LEMMA RowsTable ==
  ASSUME NEW n \in Nat, NEW R, R = [r \in 1 .. n |-> R[r]],
         \A r \in 1 .. n : AreCells(R[r]),
         n <= 1 \/ \A r \in 1 .. n : Len(R[r]) # 0
  PROVE  TableOf(Table(R), R)
<1> DEFINE E == UNION {{R[r][k] : k \in 1 .. Len(R[r])} : r \in 1 .. n}
           K == {e.key : e \in E}
           H == {e.header : e \in E}
           V == {e.value : e \in E}
           C == Cells(K, H, V)
<1>1. \A r \in 1 .. n : \A k \in 1 .. Len(R[r]) : R[r][k] \in C
  <2> TAKE r \in 1 .. n
  <2> TAKE k \in 1 .. Len(R[r])
  <2> DEFINE e == R[r][k]
  <2>1. e \in E
    OBVIOUS
  <2>2. IsCell(e)
    BY DEF AreCells
  <2> HIDE DEF e, E
  <2>3. e.key \in K /\ e.header \in H /\ e.value \in V
    BY <2>1
  <2> HIDE DEF K, H, V
  <2>4. e \in C
    BY <2>2, <2>3 DEF IsCell, Cell, Cells
  <2>5. QED
    BY <2>4 DEF e
<1> HIDE DEF K, H, V, E
<1>2. \A r \in 1 .. n : R[r] \in Seq(C)
  <2> TAKE r \in 1 .. n
  <2>1. \A k \in 1 .. Len(R[r]) : R[r][k] \in C
    BY <1>1
  <2> HIDE DEF C
  <2>2. QED
    BY <2>1, SequenceOver DEF AreCells, IsSeq
<1>3. R \in Seq(Seq(C)) /\ Len(R) = n
  <2> HIDE DEF C
  <2>1. R \in [1 .. n -> Seq(C)]
    BY <1>2
  <2>2. R \in Seq(Seq(C))
    BY <2>1, SeqDef
  <2>3. Len(R) \in Nat /\ 1 .. n = 1 .. Len(R)
    BY <2>1, <2>2, LenProperties
  <2>4. QED
    BY <2>2, <2>3
<1>4. QED
  BY <1>3, TableIs

-----------------------------------------------------------------------------
(* The printed tables                                                      *)

\* Running changes of a state what it collected, and whether it is skipped.
LikeGenerated(s, g) ==
  /\ DOMAIN s = {"device", "axes", "skipped", "summaries"}
  /\ s.device = g.device /\ s.axes = g.axes /\ IsList(s.summaries)

\* The benchmarks, and the states of each, are the ones that were generated.
Shaped ==
  /\ DOMAIN benches = DOMAIN Benches
  /\ \A b \in DOMAIN Benches :
       /\ DOMAIN benches[b] = {"name", "devices", "states"}
       /\ benches[b].devices = Benches[b].devices
       /\ benches[b].states = [i \in 1 .. Len(Benches[b].states) |-> benches[b].states[i]]
       /\ \A i \in 1 .. Len(Benches[b].states) :
            LikeGenerated(benches[b].states[i], Benches[b].states[i])

\* A state as the generator makes it, on one of the devices passed over.
GeneratedOn(g, passes) ==
  /\ DOMAIN g = {"device", "axes", "skipped", "summaries"}
  /\ g.device \in ToSet(passes) /\ IsList(g.axes) /\ ~g.skipped /\ g.summaries = <<>>

\* There is one state for each device if there are no axes.
OneEach(states) ==
  \A i, j \in 1 .. Len(states) :
    states[i].device = states[j].device /\ states[i].axes = <<>> => i = j

\* The benchmarks that are run are as the assumption on them says.
LEMMA BenchesAre ==
  /\ Len(Benches) \in Nat /\ DOMAIN Benches = 1 .. Len(Benches)
  /\ \A b \in DOMAIN Benches :
       /\ DOMAIN Benches[b] = {"name", "devices", "states"} /\ IsList(Benches[b].devices)
       /\ Benches[b].states = [i \in 1 .. Len(Benches[b].states) |-> Benches[b].states[i]]
       /\ Len(Benches[b].states) \in Nat
       /\ DOMAIN Benches[b].states = 1 .. Len(Benches[b].states)
       /\ \A i \in 1 .. Len(Benches[b].states) :
            GeneratedOn(Benches[b].states[i], Passes(Benches[b]))
       /\ NoneTwice(Benches[b].devices) => OneEach(Benches[b].states)
<1>1. Len(Benches) \in Nat /\ DOMAIN Benches = 1 .. Len(Benches)
  BY ResultsAssumption, ListIs DEF ResultsAssumption
<1>2. ASSUME NEW b \in DOMAIN Benches
      PROVE  /\ DOMAIN Benches[b] = {"name", "devices", "states"} /\ IsList(Benches[b].devices)
             /\ Benches[b].states = [i \in 1 .. Len(Benches[b].states) |-> Benches[b].states[i]]
             /\ Len(Benches[b].states) \in Nat
             /\ DOMAIN Benches[b].states = 1 .. Len(Benches[b].states)
             /\ \A i \in 1 .. Len(Benches[b].states) :
                  GeneratedOn(Benches[b].states[i], Passes(Benches[b]))
             /\ NoneTwice(Benches[b].devices) => OneEach(Benches[b].states)
  <2> DEFINE bench == Benches[b]
             states == bench.states
  <2>1. /\ DOMAIN bench = {"name", "devices", "states"} /\ IsList(bench.devices) /\ IsList(states)
        /\ \A s \in ToSet(states) : GeneratedOn(s, Passes(bench))
        /\ NoneTwice(bench.devices) =>
             \A i, j \in DOMAIN states :
               states[i].device = states[j].device /\ states[i].axes = <<>> => i = j
    BY ResultsAssumption, Zenon DEF ResultsAssumption, GeneratedOn
  <2> HIDE DEF bench
  <2>2. DOMAIN states = 1 .. Len(states) /\ Len(states) \in Nat
        /\ states = [i \in 1 .. Len(states) |-> states[i]]
    BY <2>1, ListIs DEF IsList
  <2>3. \A i \in 1 .. Len(states) : states[i] \in ToSet(states)
    BY <2>2 DEF ToSet
  <2>4. NoneTwice(bench.devices) => OneEach(states)
    BY <2>1, <2>2 DEF OneEach
  <2>5. \A i \in 1 .. Len(states) : GeneratedOn(states[i], Passes(bench))
    BY <2>1, <2>3
  <2>6. QED
    BY <2>1, <2>2, <2>4, <2>5 DEF bench
<1>3. QED
  BY <1>1, <1>2

\* Each device is passed over once, if none is listed twice.
LEMMA PassesAre ==
  ASSUME NEW bench, IsList(bench.devices), NoneTwice(bench.devices)
  PROVE  \A i, j \in DOMAIN Passes(bench) : Passes(bench)[i] = Passes(bench)[j] => i = j
<1> DEFINE d == bench.devices
           p == Passes(bench)
<1>1. CASE d = <<>>
  <2>1. p = <<<<>>>>
    BY <1>1 DEF Passes
  <2>2. DOMAIN p = {1}
    BY <2>1
  <2>3. QED
    BY <2>2
<1>2. CASE d # <<>>
  <2>1. p = [i \in DOMAIN d |-> <<d[i]>>]
    BY <1>2 DEF Passes
  <2>2. \A i, j \in DOMAIN p : p[i] = p[j] => d[i] = d[j] /\ i \in DOMAIN d /\ j \in DOMAIN d
    BY <2>1
  <2>3. QED
    BY <2>2 DEF NoneTwice
<1>3. QED
  BY <1>1, <1>2

\* Whatever has run, each benchmark has the states that were generated for it, on
\* one of its devices each, and each with lists of axis values and summaries.
LEMMA StatesAre ==
  ASSUME Shaped, NEW b \in DOMAIN benches
  PROVE  /\ b \in DOMAIN Benches /\ IsSeq(benches[b].states)
         /\ Len(benches[b].states) = Len(Benches[b].states) /\ Len(Benches[b].states) \in Nat
         /\ DOMAIN benches[b].states = 1 .. Len(benches[b].states)
         /\ Passes(benches[b]) = Passes(Benches[b])
         /\ IsList(benches[b].devices) /\ benches[b].devices = Benches[b].devices
         /\ \A i \in 1 .. Len(benches[b].states) :
              /\ IsList(benches[b].states[i].axes) /\ IsList(benches[b].states[i].summaries)
              /\ benches[b].states[i].device \in ToSet(Passes(benches[b]))
<1> DEFINE bench == benches[b]
           states == bench.states
           n == Len(Benches[b].states)
<1>1. b \in DOMAIN Benches /\ bench.devices = Benches[b].devices
      /\ states = [i \in 1 .. n |-> states[i]]
      /\ \A i \in 1 .. n : LikeGenerated(states[i], Benches[b].states[i])
  BY DEF Shaped
<1>2. n \in Nat /\ IsList(Benches[b].devices)
      /\ \A i \in 1 .. n : GeneratedOn(Benches[b].states[i], Passes(Benches[b]))
  BY <1>1, BenchesAre
<1>3. Passes(bench) = Passes(Benches[b])
  BY <1>1 DEF Passes
<1> HIDE DEF bench, n
<1>4. IsSeq(states) /\ Len(states) = n
  <2> HIDE DEF states
  <2>1. QED
    BY <1>1, <1>2, MappedSeq
<1>5. DOMAIN states = 1 .. n
  BY <1>1
<1>6. ASSUME NEW i \in 1 .. n
      PROVE  /\ IsList(states[i].axes) /\ IsList(states[i].summaries)
             /\ states[i].device \in ToSet(Passes(bench))
  <2>1. LikeGenerated(states[i], Benches[b].states[i])
        /\ GeneratedOn(Benches[b].states[i], Passes(Benches[b]))
    BY <1>1, <1>2
  <2>2. QED
    BY <1>3, <2>1 DEF LikeGenerated, GeneratedOn
<1>7. QED
  BY <1>1, <1>2, <1>3, <1>4, <1>5, <1>6 DEF bench, n

\* The states that the table of a device lists.
PlacesOn(states, device) ==
  {i \in DOMAIN states : ~states[i].skipped /\ states[i].device = device}

\* A markdown table lists the states of its device that were not skipped, each once.
LEMMA OnDeviceIs ==
  ASSUME Shaped, NEW b \in DOMAIN benches, NEW device
  PROVE  /\ IsSeq(OnDevice(benches[b], device))
         /\ \E from : Selects(OnDevice(benches[b], device), from, benches[b].states,
                              PlacesOn(benches[b].states, device))
<1> DEFINE states == benches[b].states
<1>1. PICK S : states \in Seq(S)
  BY StatesAre DEF IsSeq
<1>2. OnDevice(benches[b], device) = Selection(states, PlacesOn(states, device))
  BY DEF OnDevice, PlacesOn
<1> HIDE DEF states
<1>3. /\ Selection(states, PlacesOn(states, device)) \in Seq(S)
      /\ \E from : Selects(Selection(states, PlacesOn(states, device)), from, states,
                           PlacesOn(states, device))
  BY <1>1, SelectionIs
<1>4. QED
  BY <1>2, <1>3 DEF IsSeq, states

\* The rows of a device's table.
MarkdownRows(bench, device) ==
  [r \in DOMAIN OnDevice(bench, device) |-> MarkdownCells(OnDevice(bench, device)[r])]

\* The markdown table of a device has the rows of its states, if no device is
\* listed twice: then at most one row is empty, and only if it is the only one.
LEMMA DeviceTable ==
  ASSUME Shaped, NEW b \in DOMAIN benches, NEW device, NoneTwice(benches[b].devices)
  PROVE  TableOf(MarkdownTable(benches[b], device), MarkdownRows(benches[b], device))
<1> DEFINE states == benches[b].states
           kept == OnDevice(benches[b], device)
           n == Len(kept)
           R == MarkdownRows(benches[b], device)
           places == PlacesOn(states, device)
<1>1. /\ b \in DOMAIN Benches /\ Len(states) = Len(Benches[b].states)
      /\ \A i \in 1 .. Len(states) : IsList(states[i].axes) /\ IsList(states[i].summaries)
  BY StatesAre
<1>2. IsSeq(kept)
  BY OnDeviceIs
<1>3. PICK from : Selects(kept, from, states, places)
  BY OnDeviceIs
<1>4. n \in Nat /\ DOMAIN kept = 1 .. n
  BY <1>2, LenProperties DEF IsSeq
<1>5. R = [r \in 1 .. n |-> MarkdownCells(kept[r])]
  BY <1>4 DEF MarkdownRows
<1>6. OneEach(states)
  <2>1. OneEach(Benches[b].states)
    BY <1>1, BenchesAre, StatesAre
  <2>2. \A i \in 1 .. Len(states) : LikeGenerated(states[i], Benches[b].states[i])
    BY <1>1 DEF Shaped
  <2>3. \A i \in 1 .. Len(states) :
          states[i].device = Benches[b].states[i].device /\ states[i].axes = Benches[b].states[i].axes
    BY <2>2 DEF LikeGenerated
  <2> HIDE DEF states
  <2>4. QED
    BY <1>1, <2>1, <2>3 DEF OneEach
<1>7. MarkdownTable(benches[b], device) = Table(R)
  BY DEF MarkdownTable, MarkdownRows
<1> HIDE DEF kept, R, states
<1>8. \A r \in 1 .. n :
        /\ from[r] \in 1 .. Len(states) /\ kept[r] = states[from[r]]
        /\ states[from[r]].device = device
  BY <1>3 DEF Selects, PlacesOn
<1>9. \A r \in 1 .. n : AreCells(R[r]) /\ (kept[r].axes # <<>> => Len(R[r]) # 0)
  <2> TAKE r \in 1 .. n
  <2>1. IsList(kept[r].axes) /\ IsList(kept[r].summaries)
    BY <1>1, <1>8
  <2>2. R[r] = MarkdownCells(kept[r])
    BY <1>5
  <2>3. QED
    BY <2>1, <2>2, MarkdownCellsAre
<1>10. ASSUME ~(n <= 1), NEW r \in 1 .. n PROVE kept[r].axes # <<>>
  <2>1. PICK q \in 1 .. n : q # r
    <3>1. CASE r = 1
      <4>1. 2 \in 1 .. n /\ 2 # r
        BY <1>4, <1>10, <3>1
      <4>2. QED
        BY <4>1
    <3>2. CASE r # 1
      <4>1. 1 \in 1 .. n
        BY <1>4, <1>10
      <4>2. QED
        BY <3>2, <4>1
    <3>3. QED
      BY <3>1, <3>2
  <2>2. from[q] # from[r]
    BY <1>3, <2>1 DEF Selects
  <2>3. QED
    BY <1>6, <1>8, <2>2 DEF OneEach
<1>11. n <= 1 \/ \A r \in 1 .. n : Len(R[r]) # 0
  BY <1>9, <1>10
<1>12. R = [r \in 1 .. n |-> R[r]]
  BY <1>5
<1> HIDE DEF n
<1>13. TableOf(Table(R), R)
  BY <1>4, <1>9, <1>11, <1>12, RowsTable
<1>14. QED
  BY <1>7, <1>13 DEF R

\* A state that was not skipped is in one of the tables.
LEMMA InOneTable ==
  ASSUME Shaped, NEW b \in DOMAIN benches, NoneTwice(benches[b].devices),
         NEW s \in ToSet(benches[b].states), ~s.skipped
  PROVE  Cardinality({t \in DOMAIN Passes(benches[b]) :
                        s \in ToSet(OnDevice(benches[b], Passes(benches[b])[t]))}) = 1
<1> DEFINE states == benches[b].states
           P == Passes(benches[b])
           in == {t \in DOMAIN P : s \in ToSet(OnDevice(benches[b], P[t]))}
<1>1. /\ DOMAIN states = 1 .. Len(states)
      /\ \A i \in 1 .. Len(states) : states[i].device \in ToSet(P)
      /\ IsList(benches[b].devices)
  BY StatesAre
<1>2. PICK i \in 1 .. Len(states) : s = states[i]
  BY <1>1 DEF ToSet
<1>3. PICK t \in DOMAIN P : P[t] = s.device
  BY <1>1, <1>2 DEF ToSet
<1>4. \A u \in DOMAIN P : P[u] = P[t] => u = t
  BY <1>1, PassesAre
<1> HIDE DEF states, P
<1>5. \A u \in DOMAIN P : s \in ToSet(OnDevice(benches[b], P[u])) => u = t
  <2> TAKE u \in DOMAIN P
  <2> DEFINE kept == OnDevice(benches[b], P[u])
  <2> HAVE s \in ToSet(kept)
  <2>1. PICK from : IsSeq(kept) /\ Selects(kept, from, states, PlacesOn(states, P[u]))
    BY OnDeviceIs DEF states
  <2> HIDE DEF kept
  <2>2. DOMAIN kept = 1 .. Len(kept)
    BY <2>1, LenProperties DEF IsSeq
  <2>3. PICK k \in 1 .. Len(kept) : s = kept[k]
    BY <2>2 DEF ToSet, kept
  <2>4. kept[k] = states[from[k]] /\ from[k] \in PlacesOn(states, P[u])
    BY <2>1 DEF Selects
  <2>5. s.device = P[u]
    BY <2>3, <2>4 DEF PlacesOn
  <2>6. QED
    BY <1>3, <1>4, <2>5
<1>6. s \in ToSet(OnDevice(benches[b], P[t]))
  <2> DEFINE kept == OnDevice(benches[b], P[t])
  <2>1. PICK from : IsSeq(kept) /\ Selects(kept, from, states, PlacesOn(states, P[t]))
    BY OnDeviceIs DEF states
  <2> HIDE DEF kept
  <2>2. DOMAIN kept = 1 .. Len(kept)
    BY <2>1, LenProperties DEF IsSeq
  <2>3. i \in PlacesOn(states, P[t])
    BY <1>1, <1>2, <1>3 DEF PlacesOn
  <2>4. PICK k \in 1 .. Len(kept) : from[k] = i
    BY <2>1, <2>3 DEF Selects
  <2>5. kept[k] = s
    BY <1>2, <2>1, <2>4 DEF Selects
  <2>6. s \in ToSet(kept)
    BY <2>2, <2>5 DEF ToSet
  <2>7. QED
    BY <2>6 DEF kept
<1>7. in = {t}
  BY <1>5, <1>6
<1>8. Cardinality(in) = 1
  BY <1>7, FS_Singleton
<1>9. QED
  BY <1>8 DEF P

\* The markdown printer puts no value in another state's row, and lists each
\* state that was not skipped in one table, if no device is listed twice.
LEMMA MarkdownIsAligned ==
  ASSUME Shaped, \A b \in DOMAIN Benches : NoneTwice(Benches[b].devices)
  PROVE  MarkdownAligned(MarkdownResults(benches))
<1> DEFINE results == MarkdownResults(benches)
<1>1. ASSUME NEW b \in DOMAIN benches
      PROVE  LET tables == results[b].tables
                 listed(t) == OnDevice(benches[b], t.device)
             IN  /\ \A t \in ToSet(tables) :
                      TableOf(t.table, [r \in DOMAIN listed(t) |-> MarkdownCells(listed(t)[r])])
                 /\ \A s \in ToSet(benches[b].states) :
                      ~s.skipped =>
                        Cardinality({t \in DOMAIN tables : s \in ToSet(listed(tables[t]))}) = 1
  <2> DEFINE bench == benches[b]
             P == Passes(bench)
             tables == [i \in DOMAIN P |-> [device |-> P[i], table |-> MarkdownTable(bench, P[i])]]
  <2>1. results[b].tables = tables
    BY DEF MarkdownResults, MarkdownBenchmark
  <2>2. NoneTwice(bench.devices)
    BY StatesAre
  <2> HIDE DEF results
  <2>3. DOMAIN tables = DOMAIN P /\ \A i \in DOMAIN P :
          tables[i].device = P[i] /\ tables[i].table = MarkdownTable(bench, P[i])
    OBVIOUS
  <2> HIDE DEF tables
  <2>4. ASSUME NEW t \in ToSet(tables)
        PROVE  TableOf(t.table, MarkdownRows(bench, t.device))
    <3>1. PICK i \in DOMAIN P : t = tables[i]
      BY <2>3 DEF ToSet
    <3>2. t.device = P[i] /\ t.table = MarkdownTable(bench, P[i])
      BY <2>3, <3>1
    <3>3. TableOf(MarkdownTable(bench, P[i]), MarkdownRows(bench, P[i]))
      BY <2>2, DeviceTable
    <3>4. QED
      BY <3>2, <3>3
  <2>5. ASSUME NEW s \in ToSet(bench.states), ~s.skipped
        PROVE  Cardinality({t \in DOMAIN tables : s \in ToSet(OnDevice(bench, tables[t].device))}) = 1
    <3>1. Cardinality({t \in DOMAIN P : s \in ToSet(OnDevice(bench, P[t]))}) = 1
      BY <2>2, <2>5, InOneTable
    <3>2. {t \in DOMAIN tables : s \in ToSet(OnDevice(bench, tables[t].device))}
            = {t \in DOMAIN P : s \in ToSet(OnDevice(bench, P[t]))}
      BY <2>3
    <3>3. QED
      BY <3>1, <3>2
  <2>6. QED
    BY <2>1, <2>4, <2>5 DEF MarkdownRows
<1>2. QED
  BY <1>1, Zenon DEF MarkdownAligned

\* The CSV printer puts no value in another state's row, whatever the devices.
LEMMA CsvIsAligned ==
  ASSUME Shaped
  PROVE  CsvAligned(CsvResults(benches))
<1> DEFINE N == Len(Benches)
           row(b, i) == [bench |-> benches[b].name, state |-> benches[b].states[i]]
           of == [b \in 1 .. N |-> [i \in 1 .. Len(benches[b].states) |-> row(b, i)]]
           S == UNION {{row(b, i) : i \in 1 .. Len(benches[b].states)} : b \in 1 .. N}
           rows == CsvRows(benches)
           f == [r \in S |-> CsvCells(r)]
           V == {CsvCells(r) : r \in S}
           R == [k \in DOMAIN rows |-> CsvCells(rows[k])]
<1>1. N \in Nat /\ DOMAIN benches = 1 .. N
  BY BenchesAre DEF Shaped
<1>2. \A b \in 1 .. N : /\ DOMAIN benches[b].states = 1 .. Len(benches[b].states)
                         /\ Len(benches[b].states) \in Nat
  BY <1>1, StatesAre
<1>3. rows = FlattenSeq(of)
  BY <1>1, <1>2 DEF CsvRows
<1>4. \A b \in 1 .. N : of[b] \in [1 .. Len(benches[b].states) -> S]
  OBVIOUS
<1>5. of \in Seq(Seq(S)) /\ Len(of) = N
  <2>1. of = [b \in 1 .. N |-> of[b]]
    OBVIOUS
  <2> HIDE DEF of, S
  <2>2. \A b \in 1 .. N : of[b] \in Seq(S)
    <3> TAKE b \in 1 .. N
    <3>1. PICK n \in Nat : n = Len(benches[b].states)
      BY <1>2
    <3>2. of[b] \in [1 .. n -> S]
      BY <1>4, <3>1
    <3>3. QED
      BY <3>2, SeqDef
  <2>3. of \in [1 .. N -> Seq(S)]
    BY <2>1, <2>2
  <2>4. of \in Seq(Seq(S))
    BY <1>1, <2>3, SeqDef
  <2>5. Len(of) \in Nat /\ 1 .. N = 1 .. Len(of)
    BY <2>3, <2>4, LenProperties
  <2>6. QED
    BY <1>1, <2>4, <2>5
<1>6. rows \in Seq(S)
  <2> HIDE DEF of, S, rows
  <2>1. QED
    BY <1>3, <1>5, FlattenType
<1>7. Len(rows) \in Nat /\ DOMAIN rows = 1 .. Len(rows) /\ \A k \in 1 .. Len(rows) : rows[k] \in S
  <2> HIDE DEF S, rows
  <2>1. QED
    BY <1>6, LenProperties, ElementOfSeq
<1>8. \A r \in S : f[r] = CsvCells(r) /\ AreCells(CsvCells(r)) /\ Len(CsvCells(r)) # 0
  <2> TAKE r \in S
  <2>1. PICK b \in 1 .. N : \E i \in 1 .. Len(benches[b].states) : r = row(b, i)
    OBVIOUS
  <2>2. PICK i \in 1 .. Len(benches[b].states) : r = row(b, i)
    BY <2>1
  <2>3. r.state = benches[b].states[i]
    BY <2>2
  <2>4. IsList(r.state.axes) /\ IsList(r.state.summaries)
    BY <1>1, <2>3, StatesAre
  <2>5. AreCells(CsvCells(r)) /\ Len(CsvCells(r)) # 0
    BY <2>4, CsvCellsAre
  <2>6. QED
    BY <2>5
<1>9. f \in [S -> V]
  OBVIOUS
<1> DEFINE csv == FlattenSeq([b \in DOMAIN benches |->
                    [i \in DOMAIN benches[b].states |->
                       CsvCells([bench |-> benches[b].name, state |-> benches[b].states[i]])]])
           labelled == [b \in 1 .. N |-> Labels(of[b], f)]
<1>10. csv = FlattenSeq(labelled)
  <2>1. ASSUME NEW b \in 1 .. N
        PROVE  Labels(of[b], f) = [i \in DOMAIN benches[b].states |-> CsvCells(row(b, i))]
    <3>1. of[b] = [i \in 1 .. Len(benches[b].states) |-> row(b, i)]
          /\ \A i \in 1 .. Len(benches[b].states) : row(b, i) \in S
      OBVIOUS
    <3>2. Len(of[b]) = Len(benches[b].states)
      BY <1>2
    <3> HIDE DEF of, S
    <3>3. Labels(of[b], f) = [i \in 1 .. Len(benches[b].states) |-> f[of[b][i]]]
      BY <3>2 DEF Labels
    <3>4. \A i \in 1 .. Len(benches[b].states) : f[of[b][i]] = CsvCells(row(b, i))
      BY <3>1
    <3> HIDE DEF f, row
    <3>5. QED
      BY <1>2, <3>3, <3>4
  <2> HIDE DEF of, f
  <2>2. labelled = [b \in DOMAIN benches |->
                      [i \in DOMAIN benches[b].states |-> CsvCells(row(b, i))]]
    BY <1>1, <2>1
  <2>3. QED
    BY <2>2
<1>11. R = Labels(rows, f)
  <2> HIDE DEF rows, S
  <2>1. \A k \in 1 .. Len(rows) : f[rows[k]] = CsvCells(rows[k])
    BY <1>7
  <2> HIDE DEF f
  <2>2. QED
    BY <1>7, <2>1 DEF Labels
<1>12. csv = R
  <2> HIDE DEF of, rows, f, V, S
  <2>1. FlattenSeq([i \in 1 .. Len(of) |-> Labels(of[i], f)]) = Labels(FlattenSeq(of), f)
    BY <1>5, <1>9, FlattenLabels
  <2>2. QED
    BY <1>3, <1>5, <1>10, <1>11, <2>1
<1> HIDE DEF S, rows, csv
<1>13. \A k \in 1 .. Len(rows) : AreCells(R[k]) /\ Len(R[k]) # 0
  BY <1>7, <1>8
<1>14. R = [k \in 1 .. Len(rows) |-> R[k]]
  BY <1>7
<1>15. CsvResults(benches) = Table(R)
  BY DEF CsvResults, rows
<1> HIDE DEF R
<1>16. TableOf(Table(R), R)
  BY <1>7, <1>13, <1>14, RowsTable
<1>17. QED
  BY <1>12, <1>15, <1>16 DEF CsvAligned, csv

-----------------------------------------------------------------------------
(* The structure of the state                                              *)

\* A place is that of a state.
InState(place) ==
  place[1] \in 1 .. Len(Benches) /\ place[2] \in 1 .. Len(Benches[place[1]].states)

\* Where main and the runner are.
Placement ==
  /\ phase \in {"parsed", "exited", "run", "measure", "bulk", "results", "done", "failed"}
  /\ at = <<at[1], at[2]>> /\ at[1] \in 1 .. Len(Benches) + 1
  /\ at[1] \in 1 .. Len(Benches) => at[2] \in 1 .. Len(Benches[at[1]].states) + 1
  /\ at[1] \notin 1 .. Len(Benches) => at[2] = 1
  /\ phase \in {"measure", "bulk"} => InState(at)
  /\ to \in 0 .. Len(Printers) + 1 /\ (phase \in {"bulk", "results"} => to # 0)

\* Each printer, and the one of --list, has written a list of entries.
Logs == DOMAIN out = 0 .. Len(Printers) /\ \A p \in 0 .. Len(Printers) : IsList(out[p])

\* The first part of the inductive invariant.
Structure == Placement /\ Shaped /\ Logs

\* The printers are a list.
LEMMA PrintersAre ==
  Len(Printers) \in Nat /\ DOMAIN Printers = 1 .. Len(Printers)
<1>1. Printers \in Seq([format : {"markdown", "csv", "json"}, binary : BOOLEAN])
  BY ResultsAssumption DEF ResultsAssumption
<1>2. QED
  BY <1>1, LenProperties

\* An update changes the state that runs and no other.
LEMMA UpdatedIs ==
  ASSUME Structure, InState(at), NEW s, LikeGenerated(s, Benches[at[1]].states[at[2]]),
         benches' = Updated(s)
  PROVE  /\ Shaped'
         /\ \A b \in DOMAIN Benches : \A i \in 1 .. Len(Benches[b].states) :
              benches'[b].states[i] = IF at = <<b, i>> THEN s ELSE benches[b].states[i]
<1> DEFINE c == at[1]
           j == at[2]
           new == benches'
           bench == [benches[c] EXCEPT !.states = [@ EXCEPT ![j] = s]]
<1>1. Shaped /\ at = <<c, j>> /\ c \in DOMAIN Benches /\ j \in 1 .. Len(Benches[c].states)
  BY BenchesAre DEF Structure, Placement, InState
<1>2. new = [benches EXCEPT ![c] = bench]
  BY DEF Updated
<1> HIDE DEF new, c, j
<1>3. /\ DOMAIN bench = {"name", "devices", "states"} /\ bench.devices = benches[c].devices
      /\ bench.states = [benches[c].states EXCEPT ![j] = s]
  <2>1. DOMAIN benches[c] = {"name", "devices", "states"}
    BY <1>1 DEF Shaped
  <2>2. QED
    BY <2>1
<1> HIDE DEF bench
<1>4. DOMAIN new = DOMAIN Benches /\ new[c] = bench
      /\ \A b \in DOMAIN Benches : b # c => new[b] = benches[b]
  BY <1>1, <1>2 DEF Shaped
<1>5. /\ bench.states = [i \in 1 .. Len(Benches[c].states) |-> bench.states[i]]
      /\ \A i \in 1 .. Len(Benches[c].states) :
           bench.states[i] = IF i = j THEN s ELSE benches[c].states[i]
  <2> DEFINE n == Len(Benches[c].states)
             old == benches[c].states
  <2>1. old = [i \in 1 .. n |-> old[i]]
    BY <1>1 DEF Shaped
  <2> HIDE DEF old, n
  <2>2. DOMAIN old = 1 .. n
    BY <2>1
  <2>3. bench.states = [old EXCEPT ![j] = s]
    BY <1>3 DEF old
  <2>4. QED
    BY <2>2, <2>3 DEF old, n
<1>6. ASSUME NEW b \in DOMAIN Benches
      PROVE  /\ DOMAIN new[b] = {"name", "devices", "states"}
             /\ new[b].devices = Benches[b].devices
             /\ new[b].states = [i \in 1 .. Len(Benches[b].states) |-> new[b].states[i]]
             /\ \A i \in 1 .. Len(Benches[b].states) :
                  LikeGenerated(new[b].states[i], Benches[b].states[i])
             /\ \A i \in 1 .. Len(Benches[b].states) :
                  new[b].states[i] = IF b = c /\ i = j THEN s ELSE benches[b].states[i]
  <2>1. CASE b = c
    <3>1. LikeGenerated(s, Benches[c].states[j])
      BY DEF c, j
    <3>2. \A i \in 1 .. Len(Benches[c].states) :
            LikeGenerated(benches[c].states[i], Benches[c].states[i])
      BY <1>1 DEF Shaped
    <3>3. benches[c].devices = Benches[c].devices
      BY <1>1 DEF Shaped
    <3>4. \A i \in 1 .. Len(Benches[c].states) :
            LikeGenerated(bench.states[i], Benches[c].states[i])
      BY <1>5, <3>1, <3>2
    <3>5. QED
      BY <1>3, <1>4, <1>5, <2>1, <3>3, <3>4
  <2>2. CASE b # c
    BY <1>1, <1>4, <2>2 DEF Shaped
  <2>3. QED
    BY <2>1, <2>2
<1>7. \A b, i : at = <<b, i>> <=> b = c /\ i = j
  BY <1>1
<1>8. Shaped'
  BY <1>4, <1>6 DEF Shaped, new
<1>9. ASSUME NEW b \in DOMAIN Benches, NEW i \in 1 .. Len(Benches[b].states)
      PROVE  new[b].states[i] = IF at = <<b, i>> THEN s ELSE benches[b].states[i]
  <2>1. new[b].states[i] = IF b = c /\ i = j THEN s ELSE benches[b].states[i]
    BY <1>6
  <2>2. at = <<b, i>> <=> b = c /\ i = j
    BY <1>7
  <2>3. QED
    BY <2>1, <2>2
<1>10. QED
  BY <1>8, <1>9 DEF new

\* What a log has after items are added that only some printers write.
Wrote(old, new, items) ==
  /\ \A k \in DOMAIN old : k \in DOMAIN new /\ new[k] = old[k]
  /\ \A k \in DOMAIN new :
       (k \in DOMAIN old /\ new[k] = old[k]) \/ \E l \in 1 .. Len(items) : new[k] = items[l]

\* A log has all of the items.
Holds(new, items) == \A l \in 1 .. Len(items) : \E k \in DOMAIN new : new[k] = items[l]

\* Items added to a log are in it, and what it had stays.
LEMMA JoinedWrote ==
  ASSUME NEW old, IsList(old), NEW items, IsList(items)
  PROVE  IsList(old \o items) /\ Wrote(old, old \o items, items) /\ Holds(old \o items, items)
<1> DEFINE new == old \o items
<1>1. Joined(new, old, items) /\ IsSeq(old) /\ IsSeq(items)
  BY ListIs DEF Joined
<1> HIDE DEF new
<1>2. /\ IsSeq(new) /\ Len(old) \in Nat /\ Len(items) \in Nat
      /\ DOMAIN old = 1 .. Len(old) /\ DOMAIN items = 1 .. Len(items)
      /\ DOMAIN new = 1 .. Len(old) + Len(items)
      /\ \A i \in DOMAIN old : new[i] = old[i]
      /\ \A i \in DOMAIN items : new[Len(old) + i] = items[i]
  BY <1>1, PrefixStays
<1>3. \A k \in DOMAIN new : k \in DOMAIN old \/ \E l \in 1 .. Len(items) : k = Len(old) + l
  <2> TAKE k \in DOMAIN new
  <2>1. CASE k <= Len(old)
    BY <1>2, <2>1
  <2>2. CASE ~(k <= Len(old))
    <3>1. k - Len(old) \in 1 .. Len(items) /\ k = Len(old) + (k - Len(old))
      BY <1>2, <2>2
    <3>2. QED
      BY <3>1
  <2>3. QED
    BY <2>1, <2>2
<1>4. \A k \in DOMAIN old : k \in DOMAIN new
  BY <1>2
<1>5. \A l \in 1 .. Len(items) : Len(old) + l \in DOMAIN new
  BY <1>2
<1>6. IsList(new)
  BY <1>2, SeqIsList
<1>7. QED
  BY <1>2, <1>3, <1>4, <1>5, <1>6 DEF Wrote, Holds, new

\* A call on the multiplexer reaches the markdown printers, in the order of the
\* items, and no other printer.
LEMMA MultiplexIs ==
  ASSUME Logs, NEW items, IsList(items), out' = multiplex(items)
  PROVE  /\ Logs'
         /\ \A p \in DOMAIN Printers : Wrote(out[p], out'[p], items)
         /\ \A p \in DOMAIN Printers :
              Printers[p].format = "markdown" => Holds(out'[p], items)
<1> DEFINE N == Len(Printers)
<1>1. N \in Nat /\ DOMAIN Printers = 1 .. N /\ DOMAIN out = 0 .. N
      /\ \A p \in 0 .. N : IsList(out[p])
  BY PrintersAre DEF Logs
<1>2. DOMAIN out' = 0 .. N /\ \A p \in 0 .. N :
        out'[p] = IF p # 0 /\ Printers[p].format = "markdown" THEN out[p] \o items ELSE out[p]
  BY <1>1 DEF multiplex
<1> HIDE DEF N
<1>3. \A p \in 0 .. N : /\ IsList(out[p] \o items) /\ Wrote(out[p], out[p] \o items, items)
                         /\ Holds(out[p] \o items, items)
  BY <1>1, JoinedWrote
<1>4. \A p \in 0 .. N : Wrote(out[p], out[p], items)
  BY DEF Wrote
<1>5. Logs'
  BY <1>1, <1>2, <1>3 DEF Logs, N
<1>6. \A p \in 1 .. N : p \in 0 .. N /\ p # 0
  BY <1>1
<1>7. QED
  BY <1>1, <1>2, <1>3, <1>4, <1>5, <1>6

\* Lists of up to two elements.
LEMMA ShortLists ==
  ASSUME NEW x, NEW y
  PROVE  /\ IsList(<<>>) /\ IsList(<<x>>) /\ IsList(<<x, y>>)
         /\ Len(<<>>) = 0 /\ Len(<<x>>) = 1 /\ Len(<<x, y>>) = 2
         /\ <<x>>[1] = x /\ <<x, y>>[1] = x /\ <<x, y>>[2] = y
<1>1. <<>> = [i \in 1 .. 0 |-> <<>>[i]] /\ Len(<<>>) = 0
  OBVIOUS
<1>2. <<x>> = [i \in 1 .. 1 |-> <<x>>[i]] /\ Len(<<x>>) = 1 /\ <<x>>[1] = x
  OBVIOUS
<1>3. <<x, y>> = [i \in 1 .. 2 |-> <<x, y>>[i]] /\ Len(<<x, y>>) = 2
      /\ <<x, y>>[1] = x /\ <<x, y>>[2] = y
  OBVIOUS
<1>4. QED
  BY <1>1, <1>2, <1>3 DEF IsList

\* Entries that are no results.
NoDocument(items) ==
  IsList(items) /\ \A l \in 1 .. Len(items) : items[l].kind # "results"

\* A printer writes its results.
WritesDocument ==
  /\ phase = "results" /\ to \in DOMAIN Printers /\ phase' = phase /\ UNCHANGED benches
  /\ \E unset \in Unset :
       out' = [out EXCEPT ![to] = Append(@, Document(Printers[to].format, unset))]

\* Up to two entries that are no results.
LEMMA ShortItems ==
  ASSUME NEW x, NEW y, x.kind # "results", y.kind # "results"
  PROVE  NoDocument(<<>>) /\ NoDocument(<<x>>) /\ NoDocument(<<x, y>>)
<1>1. NoDocument(<<>>)
  <2> DEFINE s == <<>>
  <2>1. IsList(s) /\ Len(s) = 0
    BY ShortLists
  <2> HIDE DEF s
  <2>2. NoDocument(s)
    BY <2>1 DEF NoDocument
  <2>3. QED
    BY <2>2 DEF s
<1>2. NoDocument(<<x>>)
  <2> DEFINE s == <<x>>
  <2>1. IsList(s) /\ Len(s) = 1 /\ s[1] = x
    BY ShortLists
  <2> HIDE DEF s
  <2>2. NoDocument(s)
    BY <2>1 DEF NoDocument
  <2>3. QED
    BY <2>2 DEF s
<1>3. NoDocument(<<x, y>>)
  <2> DEFINE s == <<x, y>>
  <2>1. IsList(s) /\ Len(s) = 2 /\ s[1] = x /\ s[2] = y
    BY ShortLists
  <2> HIDE DEF s
  <2>2. NoDocument(s)
    BY <2>1 DEF NoDocument
  <2>3. QED
    BY <2>2 DEF s
<1>4. QED
  BY <1>1, <1>2, <1>3

\* An entry of the log is no result.
LEMMA LogIs ==
  ASSUME NEW level, NEW what
  PROVE  /\ log(level, what).kind = "log" /\ log(level, what).kind # "results"
         /\ log(level, what).level = level /\ log(level, what).what = what
         /\ NoDocument(<<log(level, what)>>)
<1> DEFINE x == log(level, what)
<1>1. x.kind = "log" /\ x.kind # "results" /\ x.level = level /\ x.what = what
  BY DEF log
<1> HIDE DEF x
<1>2. NoDocument(<<x>>)
  BY <1>1, ShortItems
<1>3. QED
  BY <1>1, <1>2 DEF x

\* What process_bulk_data logs of a file.
BulkItems(result, path) ==
  (IF result \in Throwing THEN <<log("warn", path)>> ELSE <<>>) \o <<log("info", path)>>

\* It logs no results, and a warning when a call of the stream throws.
LEMMA BulkItemsAre ==
  ASSUME NEW result, NEW path
  PROVE  /\ NoDocument(BulkItems(result, path))
         /\ result \in Throwing =>
              Len(BulkItems(result, path)) = 2 /\ BulkItems(result, path)[1] = log("warn", path)
<1> DEFINE x == log("warn", path)
           y == log("info", path)
           one == <<y>>
           two == <<x, y>>
<1>1. x.kind # "results" /\ y.kind # "results"
  BY LogIs
<1> HIDE DEF x, y
<1>2. NoDocument(one) /\ NoDocument(two) /\ Len(two) = 2 /\ two[1] = x
  BY <1>1, ShortItems, ShortLists
<1>3. BulkItems(result, path) = IF result \in Throwing THEN two ELSE one
  <2>1. <<>> \o <<y>> = one /\ <<x>> \o <<y>> = two
    BY ShortConcat
  <2> HIDE DEF one, two
  <2>2. CASE result \in Throwing
    BY <2>1, <2>2 DEF BulkItems, x, y
  <2>3. CASE result \notin Throwing
    BY <2>1, <2>3 DEF BulkItems, x, y
  <2>4. QED
    BY <2>2, <2>3
<1> HIDE DEF one, two
<1>4. QED
  BY <1>2, <1>3 DEF x

\* What a step writes.
Writes ==
  \/ UNCHANGED out
  \/ \E items : NoDocument(items) /\ out' = multiplex(items)
  \/ \E list : IsList(list) /\ out' = [out EXCEPT ![0] = list]
  \/ WritesDocument

\* Every step of main, of the runner and of the printers writes nothing, or passes
\* entries to the multiplexer, or lists, or writes a document.
LEMMA StepWrites ==
  ASSUME [Next]_vars
  PROVE  Writes
<1>1. CASE main_print_preamble
  <2> DEFINE x == [kind |-> "devices", what |-> DeviceSection(UsedDevices, Devices)]
             y == [kind |-> "preamble"]
  <2>1. x.kind # "results" /\ y.kind # "results"
    OBVIOUS
  <2>2. out' = multiplex(<<x, y>>)
    BY <1>1 DEF main_print_preamble
  <2> HIDE DEF x, y
  <2>3. QED
    BY <2>1, <2>2, ShortItems DEF Writes
<1>2. CASE StartState
  BY <1>2, LogIs DEF StartState, log_run_state, Writes
<1>3. CASE NextBenchmark
  BY <1>3 DEF NextBenchmark, Writes
<1>4. CASE SkipState
  BY <1>4, LogIs DEF SkipState, Writes
<1>5. CASE \E summaries \in Timed \cup Untimed : Measured(summaries)
  BY <1>5, LogIs DEF Measured, Writes
<1>6. CASE \E result \in BulkResults : BulkData(result)
  <2>1. PICK result : BulkData(result)
    BY <1>6
  <2> DEFINE path == IF result = "no directory" THEN <<to>> ELSE <<to, bin_files[to]>>
  <2>2. UNCHANGED out \/ out' = multiplex(BulkItems(result, path))
    BY <2>1 DEF BulkData, BulkItems
  <2> HIDE DEF path
  <2>3. QED
    BY <2>2, BulkItemsAre DEF Writes
<1>7. CASE CompleteState \/ GoOn
  BY <1>7 DEF CompleteState, GoOn, Writes
<1>8. CASE Abort
  BY <1>8 DEF Abort, Writes
<1>9. CASE main_print_epilogue
  <2> DEFINE x == [kind |-> "epilogue"]
  <2>1. x.kind # "results" /\ out' = multiplex(<<x>>)
    BY <1>9 DEF main_print_epilogue
  <2> HIDE DEF x
  <2>2. QED
    BY <2>1, ShortItems DEF Writes
<1>10. CASE \E unset \in Unset : main_print_results(unset)
  BY <1>10 DEF main_print_results, Writes, WritesDocument
<1>11. CASE main_finalize
  BY <1>11 DEF main_finalize, Writes
<1>12. CASE \E format \in {"markdown", "json"} : print_list(format)
  <2>1. PICK format : print_list(format)
    BY <1>12
  <2> DEFINE x == [kind |-> "devices", what |-> DeviceSection(UsedDevices, Devices)]
             y == [kind |-> "list", what |-> BenchmarkList(Benches)]
             list == IF Benches = <<>> THEN <<>>
                     ELSE (IF format = "markdown" THEN <<x>> ELSE <<>>) \o <<y>>
  <2>2. out' = [out EXCEPT ![0] = list]
    BY <2>1 DEF print_list
  <2> HIDE DEF x, y
  <2>3. <<>> \o <<y>> = <<y>> /\ <<x>> \o <<y>> = <<x, y>>
    BY ShortConcat
  <2> DEFINE none == <<>>
             one == <<y>>
             two == <<x, y>>
  <2>4. list = none \/ list = one \/ list = two
    BY <2>3
  <2> HIDE DEF list
  <2>5. IsList(list)
    <3>1. IsList(none) /\ IsList(one) /\ IsList(two)
      BY ShortLists
    <3> HIDE DEF none, one, two
    <3>2. QED
      BY <2>4, <3>1
  <2>6. QED
    BY <2>2, <2>5 DEF Writes
<1>13. CASE print_devices_json
  BY <1>13, ShortLists DEF print_devices_json, Writes
<1>14. CASE UNCHANGED vars
  BY <1>14 DEF vars, Writes
<1>15. QED
  BY <1>1, <1>2, <1>3, <1>4, <1>5, <1>6, <1>7, <1>8, <1>9, <1>10, <1>11, <1>12, <1>13, <1>14
  DEF Next, MeasureState, TimeState

\* A list with one element more.
Adds(old, new, x) ==
  /\ \A k \in DOMAIN old : k \in DOMAIN new /\ new[k] = old[k]
  /\ \A k \in DOMAIN new : (k \in DOMAIN old /\ new[k] = old[k]) \/ new[k] = x

\* Append adds an element at the end and changes nothing else.
LEMMA AppendedList ==
  ASSUME NEW s, IsList(s), NEW x
  PROVE  /\ IsList(Append(s, x)) /\ Adds(s, Append(s, x), x)
         /\ ToSet(Append(s, x)) = ToSet(s) \cup {x}
<1> DEFINE new == Append(s, x)
<1>1. PICK S : s \in Seq(S)
  BY ListIs DEF IsSeq
<1> DEFINE T == S \cup {x}
<1>2. s \in Seq(T) /\ Len(s) \in Nat /\ DOMAIN s = 1 .. Len(s)
  <2>1. \A i \in 1 .. Len(s) : s[i] \in T
    BY <1>1, ElementOfSeq
  <2> HIDE DEF T
  <2>2. QED
    BY <1>1, <2>1, SequenceOver, LenProperties
<1>3. /\ new \in Seq(T) /\ Len(new) = Len(s) + 1 /\ new[Len(s) + 1] = x
      /\ \A i \in 1 .. Len(s) : new[i] = s[i]
  <2>1. x \in T
    OBVIOUS
  <2> HIDE DEF T
  <2>2. QED
    BY <1>2, <2>1, AppendProperties
<1> HIDE DEF new, T
<1>4. DOMAIN new = 1 .. Len(s) + 1
  BY <1>3, LenProperties
<1>5. \A k \in DOMAIN new : k \in DOMAIN s \/ k = Len(s) + 1
  BY <1>2, <1>4
<1>6. (\A k \in DOMAIN s : k \in DOMAIN new) /\ Len(s) + 1 \in DOMAIN new
  BY <1>2, <1>4
<1>7. IsList(new)
  BY <1>3, SeqIsList DEF IsSeq
<1>8. Adds(s, new, x)
  BY <1>2, <1>3, <1>5, <1>6 DEF Adds
<1>9. ToSet(new) = ToSet(s) \cup {x}
  BY <1>2, <1>3, <1>5, <1>6 DEF ToSet
<1>10. QED
  BY <1>7, <1>8, <1>9 DEF new

\* Nothing that was written is taken back, and the entries stay lists.
LogGrows(old, new) == \A k \in DOMAIN old : k \in DOMAIN new /\ new[k] = old[k]

\* No step takes back what a printer has written.
LEMMA LogsGrow ==
  ASSUME Logs, Writes
  PROVE  Logs' /\ \A p \in DOMAIN Printers : LogGrows(out[p], out'[p])
<1> DEFINE N == Len(Printers)
<1>1. N \in Nat /\ DOMAIN Printers = 1 .. N /\ DOMAIN out = 0 .. N
      /\ \A p \in 0 .. N : IsList(out[p])
  BY PrintersAre DEF Logs
<1>2. CASE UNCHANGED out
  BY <1>2 DEF Logs, LogGrows
<1>3. CASE \E items : NoDocument(items) /\ out' = multiplex(items)
  <2>1. PICK items : IsList(items) /\ out' = multiplex(items)
    BY <1>3 DEF NoDocument
  <2>2. Logs' /\ \A p \in DOMAIN Printers : Wrote(out[p], out'[p], items)
    BY <2>1, MultiplexIs
  <2>3. QED
    BY <2>2 DEF Wrote, LogGrows
<1>4. CASE \E list : IsList(list) /\ out' = [out EXCEPT ![0] = list]
  <2>1. PICK list : IsList(list) /\ out' = [out EXCEPT ![0] = list]
    BY <1>4
  <2> HIDE DEF N
  <2>2. DOMAIN out' = 0 .. N /\ \A p \in 0 .. N : out'[p] = IF p = 0 THEN list ELSE out[p]
    BY <1>1, <2>1
  <2>3. Logs'
    BY <1>1, <2>1, <2>2 DEF Logs, N
  <2>4. \A p \in 1 .. N : out'[p] = out[p]
    BY <1>1, <2>2
  <2>5. QED
    BY <1>1, <2>3, <2>4 DEF LogGrows
<1>5. CASE WritesDocument
  <2>1. PICK x : out' = [out EXCEPT ![to] = Append(@, x)] /\ to \in 1 .. N
    BY <1>1, <1>5 DEF WritesDocument
  <2> HIDE DEF N
  <2>2. DOMAIN out' = 0 .. N /\ \A p \in 0 .. N : out'[p] = IF p = to THEN Append(out[p], x) ELSE out[p]
    BY <1>1, <2>1
  <2>3. \A p \in 0 .. N : IsList(Append(out[p], x)) /\ Adds(out[p], Append(out[p], x), x)
    BY <1>1, AppendedList
  <2>4. Logs'
    BY <1>1, <2>2, <2>3 DEF Logs, N
  <2>5. \A p \in 0 .. N : LogGrows(out[p], out'[p])
    BY <1>1, <2>2, <2>3 DEF LogGrows, Adds
  <2>6. QED
    BY <1>1, <2>4, <2>5
<1>6. QED
  BY <1>2, <1>3, <1>4, <1>5 DEF Writes

\* What measurements collect names no files of sample times.
LEMMA CollectedAre ==
  ASSUME NEW summaries \in Timed \cup Untimed
  PROVE  IsList(summaries) /\ \A x \in ToSet(summaries) : x.type # "file"
BY ResultsAssumption DEF ResultsAssumption

\* The state that runs, with other summaries, or skipped.
LEMMA CurrentIs ==
  ASSUME Structure, InState(at), NEW summaries, IsList(summaries)
  PROVE  LET s == [Current EXCEPT !.summaries = summaries]
             t == [Current EXCEPT !.skipped = TRUE]
             g == Benches[at[1]].states[at[2]]
         IN  /\ LikeGenerated(s, g) /\ s.summaries = summaries
             /\ LikeGenerated(t, g) /\ t.summaries = Current.summaries
             /\ IsList(Current.summaries)
             /\ Current.summaries = benches[at[1]].states[at[2]].summaries
<1> DEFINE c == Current
           g == Benches[at[1]].states[at[2]]
<1>1. LikeGenerated(c, g) /\ c.summaries = benches[at[1]].states[at[2]].summaries
  BY BenchesAre DEF Structure, Shaped, InState, Current
<1> HIDE DEF c, g
<1>2. DOMAIN c = {"device", "axes", "skipped", "summaries"} /\ c.device = g.device /\ c.axes = g.axes
      /\ IsList(c.summaries)
  BY <1>1 DEF LikeGenerated
<1> DEFINE s == [c EXCEPT !.summaries = summaries]
           t == [c EXCEPT !.skipped = TRUE]
<1>3. /\ DOMAIN s = DOMAIN c /\ DOMAIN t = DOMAIN c
      /\ s.summaries = summaries /\ s.device = c.device /\ s.axes = c.axes
      /\ t.summaries = c.summaries /\ t.device = c.device /\ t.axes = c.axes
  BY <1>2
<1>4. LikeGenerated(s, g) /\ LikeGenerated(t, g)
  <2> HIDE DEF s, t
  <2>1. QED
    BY <1>2, <1>3 DEF LikeGenerated
<1>5. QED
  BY <1>1, <1>2, <1>3, <1>4 DEF c, g

\* What a step does to the benchmarks: nothing, or it gives the state that
\* runs other summaries.
GivesSummaries(summaries) ==
  /\ InState(at) /\ IsList(summaries)
  /\ \E s : /\ LikeGenerated(s, Benches[at[1]].states[at[2]]) /\ s.summaries = summaries
            /\ benches' = Updated(s)

\* Then only the summaries of the state that runs change.
LEMMA GivenSummaries ==
  ASSUME Structure, NEW summaries, GivesSummaries(summaries)
  PROVE  /\ Shaped'
         /\ \A b \in DOMAIN Benches : \A i \in 1 .. Len(Benches[b].states) :
              benches'[b].states[i].summaries
                = IF at = <<b, i>> THEN summaries ELSE benches[b].states[i].summaries
<1>1. PICK s : /\ LikeGenerated(s, Benches[at[1]].states[at[2]]) /\ s.summaries = summaries
               /\ benches' = Updated(s) /\ InState(at)
  BY DEF GivesSummaries
<1>2. /\ Shaped'
      /\ \A b \in DOMAIN Benches : \A i \in 1 .. Len(Benches[b].states) :
           benches'[b].states[i] = IF at = <<b, i>> THEN s ELSE benches[b].states[i]
  BY <1>1, UpdatedIs
<1>3. QED
  BY <1>1, <1>2

\* A skipped state keeps what it had collected.
LEMMA SkipGives ==
  ASSUME Structure, SkipState
  PROVE  /\ GivesSummaries(Current.summaries)
         /\ Current.summaries = benches[at[1]].states[at[2]].summaries
<1> DEFINE t == [Current EXCEPT !.skipped = TRUE]
<1>1. InState(at) /\ IsList(<<>>)
  BY ShortLists DEF SkipState, Structure, Placement
<1>2. LikeGenerated(t, Benches[at[1]].states[at[2]]) /\ t.summaries = Current.summaries
      /\ IsList(Current.summaries)
      /\ Current.summaries = benches[at[1]].states[at[2]].summaries
  BY <1>1, CurrentIs
<1>3. benches' = Updated(t)
  BY DEF SkipState
<1> HIDE DEF t
<1>4. QED
  BY <1>1, <1>2, <1>3 DEF GivesSummaries

\* A measured state has what it had, and what the measurement collects.
LEMMA MeasureGives ==
  ASSUME Structure, NEW summaries \in Timed \cup Untimed, Measured(summaries)
  PROVE  \E more :
           /\ GivesSummaries(more)
           /\ \A x \in ToSet(more) :
                x \in ToSet(benches[at[1]].states[at[2]].summaries) \/ x.type # "file"
<1> DEFINE old == Current.summaries
           more == old \o summaries
           s == [Current EXCEPT !.summaries = more]
<1>1. InState(at) /\ IsList(summaries) /\ \A x \in ToSet(summaries) : x.type # "file"
  BY CollectedAre DEF Measured, Structure, Placement
<1>2. IsList(old) /\ old = benches[at[1]].states[at[2]].summaries
  BY <1>1, CurrentIs
<1>3. IsList(more) /\ Wrote(old, more, summaries)
  BY <1>1, <1>2, JoinedWrote
<1>4. benches' = Updated(s)
  BY DEF Measured
<1>5. \A x \in ToSet(more) : x \in ToSet(old) \/ x \in ToSet(summaries)
  <2>1. DOMAIN summaries = 1 .. Len(summaries)
    BY <1>1, ListIs
  <2> HIDE DEF more, old
  <2>2. QED
    BY <1>3, <2>1 DEF Wrote, ToSet
<1> HIDE DEF more
<1>6. LikeGenerated(s, Benches[at[1]].states[at[2]]) /\ s.summaries = more
  BY <1>1, <1>3, CurrentIs
<1> HIDE DEF s
<1>7. GivesSummaries(more)
  BY <1>1, <1>3, <1>4, <1>6 DEF GivesSummaries
<1>8. QED
  BY <1>1, <1>2, <1>5, <1>7

\* The path of a file, and the summaries with it.
PathOf(result) == IF result = "no directory" THEN <<to>> ELSE <<to, bin_files[to]>>

WithFile(result) == Append(Current.summaries, BinSummary(PathOf(result)))

\* A binary printer adds the path of its file to the state that runs.
LEMMA BulkGives ==
  ASSUME Structure, NEW result, BulkData(result), Printers[to].binary
  PROVE  /\ GivesSummaries(WithFile(result)) /\ IsList(Current.summaries)
         /\ Current.summaries = benches[at[1]].states[at[2]].summaries
<1> DEFINE summaries == WithFile(result)
           s == [Current EXCEPT !.summaries = summaries]
<1>1. InState(at)
  BY DEF BulkData, Structure, Placement
<1>2. IsList(Current.summaries)
  BY <1>1, BenchesAre DEF Structure, Shaped, LikeGenerated, InState, Current
<1>3. IsList(summaries)
  BY <1>2, AppendedList DEF WithFile
<1>4. benches' = Updated(s)
  BY DEF BulkData, WithFile, PathOf
<1> HIDE DEF summaries
<1>5. LikeGenerated(s, Benches[at[1]].states[at[2]]) /\ s.summaries = summaries
  BY <1>1, <1>3, CurrentIs
<1> HIDE DEF s
<1>6. QED
  BY <1>1, <1>2, <1>3, <1>4, <1>5 DEF GivesSummaries, summaries, Current

\* What main starts with has the structure.
LEMMA StructureInit ==
  ASSUME Init
  PROVE  Structure
<1>1. Len(Benches) \in Nat /\ Len(Printers) \in Nat
      /\ \A b \in 1 .. Len(Benches) : Len(Benches[b].states) \in Nat
  BY BenchesAre, PrintersAre
<1>2. Placement
  <2>1. at[1] = 1 /\ at[2] = 1 /\ at = <<at[1], at[2]>> /\ phase = "parsed" /\ to = 0
    BY DEF Init
  <2>2. QED
    BY <1>1, <2>1 DEF Placement
<1>3. Shaped
  <2>1. benches = Benches
    BY DEF Init
  <2>2. ASSUME NEW b \in DOMAIN Benches, NEW i \in 1 .. Len(Benches[b].states)
        PROVE  LikeGenerated(Benches[b].states[i], Benches[b].states[i])
    <3>1. GeneratedOn(Benches[b].states[i], Passes(Benches[b]))
      BY BenchesAre
    <3>2. QED
      BY <3>1, ShortLists DEF GeneratedOn, LikeGenerated
  <2>3. QED
    BY <2>1, <2>2, BenchesAre DEF Shaped
<1>4. Logs
  BY <1>1, ShortLists DEF Init, Logs
<1>5. QED
  BY <1>2, <1>3, <1>4 DEF Structure

\* Every step leaves main and the runner at a place there is: a state to run next, a
\* printer to call next, or the end.
LEMMA PlacementStep ==
  ASSUME Structure, Next
  PROVE  Placement'
<1> DEFINE N == Len(Benches)
           size == [b \in 1 .. N |-> Len(Benches[b].states)]
           M == Len(Printers)
<1>1. N \in Nat /\ M \in Nat /\ DOMAIN Printers = 1 .. M /\ DOMAIN benches = 1 .. N
      /\ \A b \in 1 .. N : size[b] \in Nat /\ DOMAIN benches[b].states = 1 .. size[b]
  BY BenchesAre, PrintersAre, StatesAre DEF Structure, Shaped
<1>2. /\ phase \in {"parsed", "exited", "run", "measure", "bulk", "results", "done", "failed"}
      /\ at = <<at[1], at[2]>> /\ at[1] \in 1 .. N + 1
      /\ at[1] \in 1 .. N => at[2] \in 1 .. size[at[1]] + 1
      /\ at[1] \notin 1 .. N => at[2] = 1
      /\ phase \in {"measure", "bulk"} => at[1] \in 1 .. N /\ at[2] \in 1 .. size[at[1]]
      /\ to \in 0 .. M + 1 /\ (phase \in {"bulk", "results"} => to # 0)
  BY DEF Structure, Placement, InState
<1> DEFINE P == /\ phase' \in {"parsed", "exited", "run", "measure", "bulk", "results", "done", "failed"}
                /\ at' = <<at'[1], at'[2]>> /\ at'[1] \in 1 .. N + 1
                /\ at'[1] \in 1 .. N => at'[2] \in 1 .. size[at'[1]] + 1
                /\ at'[1] \notin 1 .. N => at'[2] = 1
                /\ phase' \in {"measure", "bulk"} => at'[1] \in 1 .. N /\ at'[2] \in 1 .. size[at'[1]]
                /\ to' \in 0 .. M + 1 /\ (phase' \in {"bulk", "results"} => to' # 0)
<1>3. P => Placement'
  BY DEF Placement, InState
<1> HIDE DEF N, M, size
<1>4. CASE main_print_preamble
  BY <1>2, <1>3, <1>4 DEF main_print_preamble
<1>5. CASE StartState
  BY <1>1, <1>2, <1>3, <1>5 DEF StartState, MoreStates
<1>6. CASE NextBenchmark
  <2>1. at'[1] = at[1] + 1 /\ at'[2] = 1 /\ at' = <<at'[1], at'[2]>> /\ at[1] \in 1 .. N
        /\ phase = "run" /\ phase' = phase /\ to' = to
    BY <1>1, <1>6 DEF NextBenchmark
  <2>2. at'[1] \in 1 .. N + 1 /\ (at'[1] \in 1 .. N => 1 \in 1 .. size[at'[1]] + 1)
    BY <1>1, <2>1
  <2>3. QED
    BY <1>2, <1>3, <2>1, <2>2
<1> DEFINE NextPlace == /\ at'[1] = at[1] /\ at'[2] = at[2] + 1 /\ at' = <<at'[1], at'[2]>>
                        /\ phase' = "run" /\ phase \in {"measure", "bulk"}
<1>7. ASSUME NextPlace, to' \in 0 .. M + 1 PROVE P
  <2>1. at[1] \in 1 .. N /\ at[2] \in 1 .. size[at[1]] /\ size[at[1]] \in Nat
    BY <1>1, <1>2, <1>7
  <2>2. at[2] + 1 \in 1 .. size[at[1]] + 1
    BY <2>1
  <2>3. at'[1] \in 1 .. N /\ at'[1] \in 1 .. N + 1 /\ at'[2] \in 1 .. size[at'[1]] + 1
    BY <1>2, <1>7, <2>1, <2>2
  <2>4. at' = <<at'[1], at'[2]>> /\ phase' = "run"
    BY <1>7
  <2>5. QED
    BY <1>7, <2>3, <2>4
<1>8. CASE SkipState \/ CompleteState
  <2>1. NextPlace /\ to' = to
    BY <1>8 DEF SkipState, CompleteState, NextState
  <2>2. QED
    BY <1>2, <1>3, <1>7, <2>1
<1>9. CASE \/ \E summaries \in Untimed : MeasureState(summaries)
           \/ \E summaries \in Timed : TimeState(summaries)
  <2>1. phase = "measure" /\ at' = at
    BY <1>9 DEF MeasureState, TimeState, Measured
  <2>2. (phase' = "bulk" /\ to' = 1) \/ (phase' = "measure" /\ to' = to)
    BY <1>9, <2>1 DEF MeasureState, TimeState
  <2>3. 1 \in 0 .. M + 1
    BY <1>1
  <2>4. QED
    BY <1>2, <1>3, <2>1, <2>2, <2>3
<1>10. CASE \E result \in BulkResults : BulkData(result)
  <2>1. phase = "bulk" /\ phase' = phase /\ at' = at /\ to' = to + 1 /\ to \in 1 .. M
    BY <1>1, <1>10 DEF BulkData
  <2>2. to' \in 0 .. M + 1 /\ to' # 0
    BY <1>1, <2>1
  <2>3. QED
    BY <1>2, <1>3, <2>1, <2>2
<1>11. CASE GoOn
  <2>1. phase = "bulk" /\ phase' = "measure" /\ at' = at /\ to' = 0 /\ 0 \in 0 .. M + 1
    BY <1>1, <1>11 DEF GoOn
  <2>2. QED
    BY <1>2, <1>3, <2>1
<1>12. CASE Abort
  BY <1>2, <1>3, <1>12 DEF Abort
<1>13. CASE main_print_epilogue
  <2>1. phase' = "results" /\ at' = at /\ to' = 1 /\ 1 \in 0 .. M + 1
    BY <1>1, <1>13 DEF main_print_epilogue
  <2>2. QED
    BY <1>2, <1>3, <2>1
<1>14. CASE \E unset \in Unset : main_print_results(unset)
  <2>1. /\ phase' \in {"failed", "results"} /\ at' = at /\ to \in 1 .. M
        /\ to' = to \/ to' = to + 1
    BY <1>1, <1>14 DEF main_print_results
  <2>2. to' \in 0 .. M + 1 /\ to' # 0
    BY <1>1, <2>1
  <2>3. QED
    BY <1>2, <1>3, <2>1, <2>2
<1>15. CASE main_finalize
  BY <1>2, <1>3, <1>15 DEF main_finalize
<1>16. CASE \E format \in {"markdown", "json"} : print_list(format)
  BY <1>2, <1>3, <1>16 DEF print_list
<1>17. CASE print_devices_json
  BY <1>2, <1>3, <1>17 DEF print_devices_json
<1>18. QED
  BY <1>4, <1>5, <1>6, <1>8, <1>9, <1>10, <1>11, <1>12, <1>13, <1>14, <1>15, <1>16, <1>17 DEF Next

\* Running changes what states have collected, and whether they are skipped.
LEMMA ShapedStep ==
  ASSUME Structure, Next
  PROVE  Shaped'
<1>1. UNCHANGED benches => Shaped'
  BY DEF Structure, Shaped
<1>2. CASE SkipState
  BY <1>2, SkipGives, GivenSummaries
<1>3. CASE \E summaries \in Timed \cup Untimed : Measured(summaries)
  BY <1>3, MeasureGives, GivenSummaries
<1>4. CASE \E result \in BulkResults : BulkData(result)
  <2>1. PICK result : BulkData(result)
    BY <1>4
  <2>2. CASE Printers[to].binary
    BY <2>1, <2>2, BulkGives, GivenSummaries
  <2>3. CASE ~Printers[to].binary
    BY <1>1, <2>1, <2>3 DEF BulkData
  <2>4. QED
    BY <2>2, <2>3
<1>5. QED
  BY <1>1, <1>2, <1>3, <1>4
  DEF Next, MeasureState, TimeState, main_print_preamble, StartState, NextBenchmark,
      CompleteState, GoOn, Abort, main_print_epilogue, main_print_results, main_finalize,
      print_list, print_devices_json

\* Every step keeps the structure.
LEMMA StructureStep ==
  ASSUME Structure, [Next]_vars
  PROVE  Structure' /\ \A p \in DOMAIN Printers : LogGrows(out[p], out'[p])
<1>1. Logs' /\ \A p \in DOMAIN Printers : LogGrows(out[p], out'[p])
  BY StepWrites, LogsGrow DEF Structure
<1>2. CASE Next
  BY <1>1, <1>2, PlacementStep, ShapedStep DEF Structure
<1>3. CASE UNCHANGED vars
  BY <1>1, <1>3 DEF vars, Structure, Placement, Shaped, InState
<1>4. QED
  BY <1>1, <1>2, <1>3

\* The states that were generated stay, in their order and on their devices, and
\* only what they have collected changes; main and the runner are at one of them or
\* at the end.
THEOREM Structured == Spec => []Structure
<1>1. Init => Structure
  BY StructureInit
<1>2. Structure /\ [Next]_vars => Structure'
  BY StructureStep
<1>3. QED
  BY <1>1, <1>2, PTL DEF Spec

-----------------------------------------------------------------------------
(* Documents                                                               *)

\* The phases after the last state.
Ran == {"results", "done", "failed"}

\* A document says what the benchmarks have collected now.
IsDocument(entry) ==
  entry.kind = "results" =>
    /\ phase \in Ran
    /\ entry.format = "markdown" => entry.what = MarkdownResults(benches)
    /\ entry.format = "csv" => entry.what = CsvResults(benches)

\* So do all documents: none is written before the last state has run.
Documents == \A p \in DOMAIN Printers : \A k \in DOMAIN out[p] : IsDocument(out[p][k])

\* After the last state nothing changes the benchmarks.
LEMMA AfterRun ==
  ASSUME [Next]_vars, phase \in Ran
  PROVE  phase' \in Ran /\ UNCHANGED benches
BY DEF Next, vars, Ran, main_print_preamble, StartState, NextBenchmark, SkipState, MeasureState,
       TimeState, Measured, BulkData, CompleteState, GoOn, Abort, main_print_epilogue,
       main_print_results, main_finalize, print_list, print_devices_json

\* Each printer writes the document of its format.
LEMMA DocumentIs ==
  ASSUME NEW format, NEW unset
  PROVE  /\ Document(format, unset).format = format
         /\ format = "markdown" => Document(format, unset).what = MarkdownResults(benches)
         /\ format = "csv" => Document(format, unset).what = CsvResults(benches)
<1> DEFINE markdown == MarkdownResults(benches)
           csv == CsvResults(benches)
           json == JsonResults(benches, Devices, unset)
           what == CASE format = "markdown" -> markdown
                     [] format = "csv"      -> csv
                     [] format = "json"     -> json
<1>1. Document(format, unset) = [kind |-> "results", format |-> format, what |-> what]
  BY DEF Document
<1> HIDE DEF markdown, csv, json
<1>2. (format = "markdown" => what = markdown) /\ (format = "csv" => what = csv)
  OBVIOUS
<1>3. QED
  BY <1>1, <1>2 DEF markdown, csv

\* Every step keeps the documents up to date.
LEMMA DocumentsStep ==
  ASSUME Structure, Documents, [Next]_vars
  PROVE  Documents'
<1> DEFINE N == Len(Printers)
<1>1. N \in Nat /\ DOMAIN Printers = 1 .. N /\ DOMAIN out = 0 .. N
      /\ \A p \in 0 .. N : IsList(out[p])
  BY PrintersAre DEF Structure, Logs
<1> HIDE DEF N
<1>2. ASSUME NEW p \in 1 .. N, NEW k \in DOMAIN out[p] PROVE IsDocument(out[p][k])'
      \* An entry that is there stays what it is.
  <2>0. out'[p][k] = out[p][k]
    BY <1>1, StructureStep DEF LogGrows
  <2>1. IsDocument(out[p][k])
    BY <1>1 DEF Documents
  <2>2. CASE out[p][k].kind = "results"
    <3>1. phase \in Ran
      BY <2>1, <2>2 DEF IsDocument
    <3>2. phase' \in Ran /\ benches' = benches
      BY <3>1, AfterRun
    <3>3. QED
      BY <2>0, <2>1, <3>2 DEF IsDocument
  <2>3. CASE out[p][k].kind # "results"
    BY <2>0, <2>3 DEF IsDocument
  <2>4. QED
    BY <2>2, <2>3
<1>3. CASE UNCHANGED out
  BY <1>1, <1>2, <1>3 DEF Documents
<1>4. CASE \E items : NoDocument(items) /\ out' = multiplex(items)
  <2>1. PICK items : NoDocument(items) /\ out' = multiplex(items)
    BY <1>4
  <2>2. \A p \in 1 .. N : Wrote(out[p], out'[p], items)
    BY <1>1, <2>1, MultiplexIs DEF Structure, NoDocument
  <2>3. ASSUME NEW p \in 1 .. N, NEW k \in DOMAIN out'[p] PROVE IsDocument(out[p][k])'
    <3>1. CASE k \in DOMAIN out[p]
      BY <1>2, <3>1
    <3>2. CASE \E l \in 1 .. Len(items) : out'[p][k] = items[l]
      BY <2>1, <3>2 DEF NoDocument, IsDocument
    <3>3. QED
      BY <2>2, <3>1, <3>2 DEF Wrote
  <2>4. QED
    BY <1>1, <2>3 DEF Documents
<1>5. CASE \E list : IsList(list) /\ out' = [out EXCEPT ![0] = list]
  <2>1. \A p \in 1 .. N : out'[p] = out[p]
    BY <1>1, <1>5
  <2>2. ASSUME NEW p \in 1 .. N, NEW k \in DOMAIN out'[p] PROVE IsDocument(out[p][k])'
    BY <1>2, <2>1
  <2>3. QED
    BY <1>1, <2>2 DEF Documents
<1>6. CASE WritesDocument
  <2>1. PICK unset : out' = [out EXCEPT ![to] = Append(@, Document(Printers[to].format, unset))]
    BY <1>6 DEF WritesDocument
  <2>2. to \in 1 .. N /\ phase' \in Ran /\ benches' = benches
    BY <1>1, <1>6 DEF WritesDocument, Ran
  <2>3. PICK x : /\ out' = [out EXCEPT ![to] = Append(@, x)]
                 /\ x.format = "markdown" => x.what = MarkdownResults(benches)
                 /\ x.format = "csv" => x.what = CsvResults(benches)
    <3> DEFINE d == Document(Printers[to].format, unset)
    <3>1. /\ d.format = "markdown" => d.what = MarkdownResults(benches)
          /\ d.format = "csv" => d.what = CsvResults(benches)
      BY DocumentIs
    <3>2. out' = [out EXCEPT ![to] = Append(@, d)]
      BY <2>1
    <3> HIDE DEF d
    <3>3. QED
      BY <3>1, <3>2
  <2>4. \A p \in 1 .. N : out'[p] = IF p = to THEN Append(out[p], x) ELSE out[p]
    BY <1>1, <2>3
  <2>5. \A p \in 1 .. N : Adds(out[p], Append(out[p], x), x)
    BY <1>1, AppendedList
  <2>6. ASSUME NEW p \in 1 .. N, NEW k \in DOMAIN out'[p] PROVE IsDocument(out[p][k])'
    <3>1. CASE k \in DOMAIN out[p]
      BY <1>2, <3>1
    <3>2. CASE k \notin DOMAIN out[p]
      <4>1. out'[p][k] = x
        BY <2>4, <2>5, <3>2 DEF Adds
      <4>2. QED
        BY <2>2, <2>3, <4>1 DEF IsDocument
    <3>3. QED
      BY <3>1, <3>2
  <2>7. QED
    BY <1>1, <2>6 DEF Documents
<1>7. QED
  BY <1>3, <1>4, <1>5, <1>6, StepWrites DEF Writes

\* What was printed stays true of the benchmarks: all the states that have run are
\* in it, with all they collected.
THEOREM DocumentsKept == Spec => []Documents
<1>1. Init => Documents
  BY PrintersAre DEF Init, Documents
<1>2. Structure /\ Documents /\ [Next]_vars => Documents'
  BY DocumentsStep
<1>3. QED
  BY <1>1, <1>2, Structured, PTL DEF Spec

\* In the tables that are printed no value stands in another state's row, and
\* each state is in the table of its device, if no device is listed twice.
THEOREM Aligned ==
  ASSUME \A b \in DOMAIN Benches : NoneTwice(Benches[b].devices)
  PROVE  Spec => []RowsAligned
<1>1. Structure /\ Documents => RowsAligned
  <2> HAVE Structure /\ Documents
  <2>1. MarkdownAligned(MarkdownResults(benches)) /\ CsvAligned(CsvResults(benches))
    BY MarkdownIsAligned, CsvIsAligned DEF Structure
  <2>2. \A i \in DOMAIN Printers : \A k \in DOMAIN out[i] : IsDocument(out[i][k])
    BY DEF Documents
  <2>3. ASSUME NEW i \in DOMAIN Printers, NEW k \in DOMAIN out[i], out[i][k].kind = "results"
        PROVE  /\ out[i][k].format = "markdown" => MarkdownAligned(out[i][k].what)
               /\ out[i][k].format = "csv" => CsvAligned(out[i][k].what)
    <3>1. /\ out[i][k].format = "markdown" => out[i][k].what = MarkdownResults(benches)
          /\ out[i][k].format = "csv" => out[i][k].what = CsvResults(benches)
      BY <2>2, <2>3 DEF IsDocument
    <3>2. QED
      BY <2>1, <3>1
  <2>4. QED
    BY <2>3 DEF RowsAligned, Printed
<1>2. QED
  BY <1>1, Structured, DocumentsKept, PTL

-----------------------------------------------------------------------------
(* Counts                                                                  *)

\* The states of each benchmark.
Sizes == [b \in DOMAIN Benches |-> Len(Benches[b].states)]

\* The states of the benchmarks before the one at place n.
Before(n) == SumFunction(Restrict(Sizes, 1 .. n - 1))

\* The states are counted benchmark by benchmark.
LEMMA SizesAre ==
  /\ Before(1) = 0
  /\ \A n \in 1 .. Len(Benches) : Before(n + 1) = Before(n) + Len(Benches[n].states)
  /\ \A n \in 1 .. Len(Benches) + 1 : Before(n) \in 0 .. AllStates
  /\ AllStates \in Nat
<1> DEFINE N == Len(Benches)
           D == 1 .. N
<1>1. N \in Nat /\ DOMAIN Benches = D /\ \A b \in D : Len(Benches[b].states) \in Nat
  BY BenchesAre
<1>2. IsFiniteSet(D)
  BY <1>1, FS_Interval
<1> HIDE DEF N
<1>3. Sizes \in [D -> Int] /\ \A b \in D : Sizes[b] = Len(Benches[b].states) /\ Sizes[b] \in Nat
  BY <1>1 DEF Sizes
<1>4. /\ SumFunction(Restrict(Sizes, {})) = 0 /\ SumFunction(Sizes) = SumFunction(Restrict(Sizes, D))
      /\ \A s \in SUBSET D : SumFunction(Restrict(Sizes, s)) \in Int
      /\ \A s \in SUBSET D, x \in D : x \notin s =>
           SumFunction(Restrict(Sizes, s \cup {x})) = Sizes[x] + SumFunction(Restrict(Sizes, s))
  <2> DEFINE v == Sizes
  <2> HIDE DEF D, v
  <2>1. v \in [D -> Int]
    BY <1>3 DEF v
  <2>2. /\ SumFunction(Restrict(v, {})) = 0 /\ SumFunction(v) = SumFunction(Restrict(v, D))
        /\ \A s \in SUBSET D : SumFunction(Restrict(v, s)) \in Int
        /\ \A s \in SUBSET D, x \in D : x \notin s =>
             SumFunction(Restrict(v, s \cup {x})) = v[x] + SumFunction(Restrict(v, s))
    BY <1>2, <2>1, SumOver
  <2>3. QED
    BY <2>2 DEF v
<1>5. Before(1) = 0
  <2>1. 1 .. 1 - 1 = {}
    OBVIOUS
  <2>2. QED
    BY <1>4, <2>1 DEF Before
<1>6. \A n \in 1 .. N + 1 : Before(n) \in Int
  <2> TAKE n \in 1 .. N + 1
  <2>1. 1 .. n - 1 \in SUBSET D
    BY <1>1
  <2>2. QED
    BY <1>4, <2>1 DEF Before
<1>7. \A n \in 1 .. N : Before(n + 1) = Before(n) + Len(Benches[n].states)
  <2> TAKE n \in 1 .. N
  <2> DEFINE s == 1 .. n - 1
  <2>1. s \in SUBSET D /\ n \in D /\ n \notin s /\ 1 .. (n + 1) - 1 = s \cup {n}
    BY <1>1
  <2>2. SumFunction(Restrict(Sizes, s \cup {n})) = Sizes[n] + SumFunction(Restrict(Sizes, s))
    BY <1>4, <2>1
  <2>3. Before(n + 1) = Sizes[n] + Before(n)
    BY <2>1, <2>2 DEF Before
  <2>4. n \in 1 .. N + 1
    BY <1>1
  <2>5. QED
    BY <1>3, <1>6, <2>3, <2>4
<1>8. Before(N + 1) = AllStates
  <2>1. 1 .. (N + 1) - 1 = D
    BY <1>1
  <2>2. AllStates = SumFunction(Sizes)
    BY DEF AllStates, Sizes
  <2>3. QED
    BY <1>4, <2>1, <2>2 DEF Before
<1> DEFINE T == {n \in 1 .. N + 1 : \A m \in 1 .. n : 0 <= Before(m) /\ Before(m) <= Before(n)}
<1>9. 1 \in T
  <2>1. \A m \in 1 .. 1 : m = 1
    OBVIOUS
  <2>2. QED
    BY <1>1, <1>5, <2>1
<1>10. ASSUME NEW n \in 1 .. (N + 1) - 1, n \in T PROVE n + 1 \in T
  <2>1. n \in 1 .. N /\ n \in 1 .. N + 1 /\ n + 1 \in 1 .. N + 1 /\ n \in 1 .. n
    BY <1>1
  <2>2. Before(n + 1) = Before(n) + Len(Benches[n].states) /\ Len(Benches[n].states) \in Nat
        /\ Before(n) \in Int /\ Before(n + 1) \in Int
    BY <1>1, <1>6, <1>7, <2>1
  <2>3. \A m \in 1 .. n : 0 <= Before(m) /\ Before(m) <= Before(n)
    BY <1>10
  <2>4. ASSUME NEW m \in 1 .. n + 1 PROVE 0 <= Before(m) /\ Before(m) <= Before(n + 1)
    <3>1. CASE m = n + 1
      <4>1. 0 <= Before(n)
        BY <2>1, <2>3
      <4>2. QED
        BY <2>2, <3>1, <4>1
    <3>2. CASE m # n + 1
      <4>1. m \in 1 .. n /\ m \in 1 .. N + 1
        BY <1>1, <3>2
      <4>2. Before(m) \in Int /\ 0 <= Before(m) /\ Before(m) <= Before(n)
        BY <1>6, <2>3, <4>1
      <4>3. QED
        BY <2>2, <4>2
    <3>3. QED
      BY <3>1, <3>2
  <2>5. QED
    BY <2>1, <2>4
<1>11. N + 1 \in T
  <2>1. N + 1 \in Nat
    BY <1>1
  <2> HIDE DEF T
  <2>2. \A n \in 1 .. N + 1 : n \in T
    BY <1>9, <1>10, <2>1, UpTo
  <2>3. QED
    BY <1>1, <2>2
<1>12. \A n \in 1 .. N + 1 : Before(n) \in 0 .. AllStates
  BY <1>6, <1>8, <1>11
<1>13. AllStates \in Nat
  <2>1. N + 1 \in 1 .. N + 1
    BY <1>1
  <2>2. QED
    BY <1>6, <1>8, <1>12, <2>1
<1>14. QED
  BY <1>5, <1>7, <1>12, <1>13 DEF N

\* The printers have counted the states that have run.
Counted == completed = Before(at[1]) + at[2] - 1

\* A printer has yet to be called for the measurement whose sample times are
\* being passed on.
Waiting(i) == IF phase = "bulk" /\ ~(i < to) THEN 1 ELSE 0

\* A printer has taken at most one number for each measurement it was called for.
Numbered ==
  /\ bin_files = [i \in DOMAIN Printers |-> bin_files[i]] /\ measured \in 0 .. MaxMeasurements
  /\ \A i \in DOMAIN Printers : bin_files[i] \in Nat /\ bin_files[i] + Waiting(i) <= measured

\* What may be left of a file.
Stored == {"written", "tail lost", "cut off"}

\* Every file has the number that was taken for it.
FilesNumbered ==
  \A f \in files :
    /\ f.end \in Stored
    /\ \E p \in DOMAIN Printers : \E m \in 0 .. bin_files[p] - 1 : f.id = <<p, m>>

\* The second part of the inductive invariant.
Counts == Counted /\ Numbered /\ FilesNumbered

\* No more states are counted than there are.
LEMMA CompletedIs ==
  ASSUME Placement, Counted
  PROVE  completed \in 0 .. AllStates
<1> DEFINE N == Len(Benches)
<1>1. /\ at[1] \in 1 .. N + 1 /\ N \in Nat
      /\ at[1] \in 1 .. N => at[2] \in 1 .. Len(Benches[at[1]].states) + 1
      /\ at[1] \notin 1 .. N => at[2] = 1
  BY BenchesAre DEF Placement
<1>2. Before(at[1]) \in 0 .. AllStates /\ AllStates \in Nat
  BY <1>1, SizesAre
<1>3. completed = Before(at[1]) + at[2] - 1
  BY DEF Counted
<1>4. CASE at[1] \in 1 .. N
  <2>1. at[1] + 1 \in 1 .. N + 1 /\ Len(Benches[at[1]].states) \in Nat
    BY <1>1, <1>4, BenchesAre
  <2>2. Before(at[1] + 1) = Before(at[1]) + Len(Benches[at[1]].states)
        /\ Before(at[1] + 1) \in 0 .. AllStates
    BY <1>4, <2>1, SizesAre
  <2> DEFINE a == at[1]
             c == at[2]
             size == Len(Benches[a].states)
             x == Before(a)
             y == Before(a + 1)
  <2>3. /\ c \in 1 .. size + 1 /\ size \in Nat /\ y = x + size /\ y \in 0 .. AllStates
        /\ x \in 0 .. AllStates /\ AllStates \in Nat /\ completed = x + c - 1
    BY <1>1, <1>2, <1>3, <1>4, <2>1, <2>2
  <2> HIDE DEF c, size, x, y
  <2>4. completed \in 0 .. AllStates
    BY <2>3
  <2>5. QED
    BY <2>4
<1>5. CASE at[1] \notin 1 .. N
  BY <1>1, <1>2, <1>3, <1>5
<1>6. QED
  BY <1>4, <1>5

\* Nothing is counted when main starts.
LEMMA CountsInit ==
  ASSUME Init
  PROVE  Counts
<1>1. at[1] = 1 /\ at[2] = 1 /\ completed = 0 /\ files = {} /\ phase = "parsed"
      /\ bin_files = [i \in DOMAIN Printers |-> 0] /\ measured = 0
  BY DEF Init
<1>2. MaxMeasurements \in Nat
  BY ResultsAssumption DEF ResultsAssumption
<1>3. QED
  BY <1>1, <1>2, SizesAre DEF Counts, Counted, Numbered, FilesNumbered, Waiting

\* Every step keeps the count right: a skipped state is counted as well.
LEMMA CountedStep ==
  ASSUME Structure, Counted, Next
  PROVE  Counted'
<1> DEFINE N == Len(Benches)
<1>1. /\ N \in Nat /\ at[1] \in 1 .. N + 1 /\ at[1] \in Int /\ at[2] \in Int
      /\ at[1] \in 1 .. N => at[2] \in 1 .. Len(Benches[at[1]].states) + 1
      /\ at[1] \notin 1 .. N => at[2] = 1
      /\ DOMAIN benches = 1 .. N
      /\ \A b \in 1 .. N : DOMAIN benches[b].states = 1 .. Len(Benches[b].states)
                            /\ Len(Benches[b].states) \in Nat
  <2>1. /\ N \in Nat /\ at[1] \in 1 .. N + 1
        /\ at[1] \in 1 .. N => at[2] \in 1 .. Len(Benches[at[1]].states) + 1
        /\ at[1] \notin 1 .. N => at[2] = 1
    BY BenchesAre DEF Structure, Placement
  <2>2. /\ DOMAIN benches = 1 .. N
        /\ \A b \in 1 .. N : DOMAIN benches[b].states = 1 .. Len(Benches[b].states)
                              /\ Len(Benches[b].states) \in Nat
    BY BenchesAre, StatesAre DEF Structure, Shaped
  <2>3. QED
    BY <2>1, <2>2
<1>2. completed = Before(at[1]) + at[2] - 1 /\ Before(at[1]) \in Int
  BY <1>1, SizesAre DEF Counted
<1> HIDE DEF N
<1>3. CASE NextBenchmark
  <2>1. at' = <<at[1] + 1, 1>> /\ at'[1] = at[1] + 1 /\ at'[2] = 1 /\ completed' = completed
        /\ at[1] \in 1 .. N /\ at[2] \notin 1 .. Len(Benches[at[1]].states)
    <3>1. at' = <<at[1] + 1, 1>> /\ completed' = completed /\ at[1] \in DOMAIN benches /\ ~MoreStates
      BY <1>3 DEF NextBenchmark
    <3>2. at[2] \notin 1 .. Len(Benches[at[1]].states)
      BY <1>1, <3>1 DEF MoreStates
    <3>3. QED
      BY <1>1, <3>1, <3>2
  <2>2. at[2] = Len(Benches[at[1]].states) + 1
    <3> DEFINE c == at[2]
               size == Len(Benches[at[1]].states)
    <3>1. c \in 1 .. size + 1 /\ size \in Nat /\ c \notin 1 .. size
      BY <1>1, <2>1
    <3> HIDE DEF c, size
    <3>2. c = size + 1
      BY <3>1
    <3>3. QED
      BY <3>2 DEF c, size
  <2>3. Before(at[1] + 1) = Before(at[1]) + Len(Benches[at[1]].states)
    BY <2>1, SizesAre DEF N
  <2>4. completed' = Before(at'[1]) + at'[2] - 1
    BY <1>1, <1>2, <2>1, <2>2, <2>3
  <2>5. QED
    BY <2>4 DEF Counted, Before
<1>4. CASE SkipState \/ CompleteState
  <2>1. at' = NextState /\ completed' = completed + 1
    BY <1>4 DEF SkipState, CompleteState, add_completed_state
  <2>2. at'[1] = at[1] /\ at'[2] = at[2] + 1
    BY <2>1 DEF NextState
  <2>3. completed' = Before(at'[1]) + at'[2] - 1
    BY <1>1, <1>2, <2>1, <2>2
  <2>4. Counted'
    BY <2>3 DEF Counted, Before
  <2>5. QED
    BY <2>4
<1>5. UNCHANGED <<at, completed>> => Counted'
  BY DEF Counted, Before
<1>6. QED
  BY <1>3, <1>4, <1>5
  DEF Next, main_print_preamble, StartState, MeasureState, TimeState, Measured, BulkData, GoOn,
      Abort, main_print_epilogue, main_print_results, main_finalize, print_list, print_devices_json

\* What may become of a file.
Nowhere(result) == result = "no directory"

Whole(result) == result \notin Throwing

\* What BulkData does to the numbers.
LEMMA BulkNumbers ==
  ASSUME Numbered, NEW result, BulkData(result)
  PROVE  /\ to \in DOMAIN Printers /\ \A i \in DOMAIN Printers \ {to} : bin_files'[i] = bin_files[i]
         /\ bin_files' = [i \in DOMAIN Printers |-> bin_files'[i]]
         /\ bin_files'[to] = bin_files[to]
              + IF Printers[to].binary /\ ~Nowhere(result) THEN 1 ELSE 0
<1>1. to \in DOMAIN Printers /\ DOMAIN bin_files = DOMAIN Printers
      /\ bin_files = [i \in DOMAIN Printers |-> bin_files[i]] /\ bin_files[to] \in Int
  <2>1. to \in DOMAIN Printers
    BY DEF BulkData
  <2>2. QED
    BY <2>1 DEF Numbered
<1>2. CASE Printers[to].binary
  <2> DEFINE one == IF NumberTaken(result) THEN 1 ELSE 0
  <2>1. bin_files' = [bin_files EXCEPT ![to] = @ + one]
    BY <1>2 DEF BulkData
  <2>2. one = IF ~Nowhere(result) THEN 1 ELSE 0
    BY DEF NumberTaken, Nowhere
  <2> HIDE DEF one
  <2>3. QED
    BY <1>1, <1>2, <2>1, <2>2
<1>3. CASE ~Printers[to].binary
  BY <1>1, <1>3 DEF BulkData
<1>4. QED
  BY <1>2, <1>3

\* No step takes more numbers than one for each printer and measurement.
LEMMA NumberedStep ==
  ASSUME Structure, Counts, Next
  PROVE  Numbered'
<1> DEFINE D == DOMAIN Printers
<1>1. /\ MaxMeasurements \in Nat /\ measured \in 0 .. MaxMeasurements
      /\ \A i \in D : i \in Nat /\ Waiting(i) \in {0, 1}
      /\ to \in Nat
  BY ResultsAssumption, PrintersAre
  DEF ResultsAssumption, Counts, Numbered, Waiting, Structure, Placement
<1>2. /\ bin_files = [i \in D |-> bin_files[i]]
      /\ \A i \in D : bin_files[i] \in Nat /\ bin_files[i] + Waiting(i) <= measured
  BY DEF Counts, Numbered
<1>3. \A i \in D : bin_files[i] <= measured
  BY <1>1, <1>2
<1> HIDE DEF D
<1>4. ASSUME UNCHANGED <<bin_files, measured>>, phase' # "bulk" PROVE Numbered'
  <2>1. \A i \in D : Waiting(i)' = 0
    BY <1>4 DEF Waiting
  <2>2. \A i \in D : bin_files'[i] \in Nat /\ bin_files'[i] + Waiting(i)' <= measured'
    BY <1>1, <1>2, <1>3, <1>4, <2>1
  <2>3. QED
    BY <1>1, <1>2, <1>4, <2>2 DEF Numbered, D
<1>5. CASE \E summaries : Measured(summaries)
  <2>1. /\ UNCHANGED bin_files /\ measured' = measured + 1 /\ measured' \in 0 .. MaxMeasurements
    BY <1>1, <1>5 DEF Measured
  <2>2. \A i \in D : Waiting(i)' \in {0, 1}
    BY DEF Waiting
  <2>3. \A i \in D : bin_files'[i] \in Nat /\ bin_files'[i] + Waiting(i)' <= measured'
    BY <1>1, <1>2, <1>3, <2>1, <2>2
  <2>4. QED
    BY <1>2, <2>1, <2>3 DEF Numbered, D
<1>6. CASE \E result \in BulkResults : BulkData(result)
  <2>1. PICK result \in BulkResults : BulkData(result)
    BY <1>6
  <2>2. /\ to \in D /\ \A i \in D \ {to} : bin_files'[i] = bin_files[i]
        /\ bin_files' = [i \in D |-> bin_files'[i]]
        /\ bin_files'[to] = bin_files[to]
             + IF Printers[to].binary /\ ~Nowhere(result) THEN 1 ELSE 0
    BY <2>1, BulkNumbers DEF Counts, D
  <2>3. phase = "bulk" /\ phase' = phase /\ to' = to + 1 /\ measured' = measured
    BY <2>1 DEF BulkData
  <2>4. \A i \in D : Waiting(i) = (IF i < to THEN 0 ELSE 1)
                     /\ Waiting(i)' = (IF i < to + 1 THEN 0 ELSE 1)
    BY <2>3 DEF Waiting
  <2>5. ASSUME NEW i \in D
        PROVE  bin_files'[i] \in Nat /\ bin_files'[i] + Waiting(i)' <= measured'
    <3>1. i \in Nat /\ bin_files[i] \in Nat /\ bin_files[i] + Waiting(i) <= measured
      BY <1>1, <1>2
    <3>2. CASE i = to
      <4>1. Waiting(i) = 1 /\ Waiting(i)' = 0
        BY <1>1, <2>4, <3>2
      <4>2. bin_files'[i] = bin_files[i] \/ bin_files'[i] = bin_files[i] + 1
        BY <2>2, <3>1, <3>2
      <4>3. QED
        BY <1>1, <2>3, <3>1, <4>1, <4>2
    <3>3. CASE i # to
      <4>1. bin_files'[i] = bin_files[i]
        BY <2>2, <3>3
      <4>2. Waiting(i)' = Waiting(i)
        BY <1>1, <2>4, <3>1, <3>3
      <4>3. QED
        BY <2>3, <3>1, <4>1, <4>2
    <3>4. QED
      BY <3>2, <3>3
  <2>6. QED
    BY <1>1, <2>2, <2>3, <2>5 DEF Numbered, D
<1>7. CASE \/ main_print_preamble \/ StartState \/ NextBenchmark \/ Abort \/ main_print_epilogue
           \/ (\E unset \in Unset : main_print_results(unset)) \/ main_finalize
           \/ (\E format \in {"markdown", "json"} : print_list(format)) \/ print_devices_json
           \/ SkipState \/ CompleteState \/ GoOn
  <2>1. UNCHANGED <<bin_files, measured>> /\ phase' # "bulk"
    BY <1>7 DEF main_print_preamble, StartState, NextBenchmark, Abort, main_print_epilogue,
                main_print_results, main_finalize, print_list, print_devices_json, SkipState,
                CompleteState, GoOn
  <2>2. QED
    BY <1>4, <2>1
<1>8. QED
  BY <1>5, <1>6, <1>7 DEF Next, MeasureState, TimeState

\* A path is that of a file whose number was taken, or of none.
Given(path) ==
  \/ \E p \in DOMAIN Printers : path = <<p>>
  \/ \E p \in DOMAIN Printers : \E m \in 0 .. bin_files[p] - 1 : path = <<p, m>>

\* A path without a number differs from one with it, and two with numbers differ if
\* the printers or the numbers do.
LEMMA PathsDiffer ==
  ASSUME NEW p, NEW q, NEW m, NEW n
  PROVE  <<p>> # <<q, m>> /\ (<<p, m>> = <<q, n>> => p = q /\ m = n)
<1> DEFINE x == <<p>>
           y == <<q, m>>
<1>1. Len(x) = 1 /\ Len(y) = 2
  OBVIOUS
<1> HIDE DEF x, y
<1>2. x # y
  BY <1>1
<1>3. <<p, m>> = <<q, n>> => p = q /\ m = n
  OBVIOUS
<1>4. QED
  BY <1>2, <1>3 DEF x, y

\* The printer that is called writes sample times to files.
Binary == Printers[to].binary

\* The file it writes.
NewFile(path, result) == [id |-> path, of |-> This, end |-> result]

\* What it does to the files: the other files stay, and the new one is on a path that
\* none of them has.
BulkFilesAre(path, result) ==
  /\ to \in DOMAIN Printers
  /\ \A p \in DOMAIN Printers : bin_files[p] \in Nat /\ bin_files'[p] \in Nat
                                /\ bin_files[p] <= bin_files'[p]
  /\ path = <<to>> \/ (path = <<to, bin_files[to]>> /\ bin_files'[to] = bin_files[to] + 1)
  /\ \A f \in files : f.id # path /\ f \in files'
  /\ \A f \in files' : f \in files \/ (/\ f = NewFile(path, result) /\ result \in Stored
                                       /\ path = <<to, bin_files[to]>>)
  /\ Whole(result) => NewFile(path, result) \in files'

\* A binary printer writes one file, on a path that no other file has.
LEMMA BulkFiles ==
  ASSUME Structure, Counts, NEW result \in BulkResults,
         BulkData(result), Binary, NEW path, path = PathOf(result)
  PROVE  BulkFilesAre(path, result)
<1>2. /\ to \in DOMAIN Printers /\ \A p \in DOMAIN Printers \ {to} : bin_files'[p] = bin_files[p]
      /\ bin_files'[to] = bin_files[to] + IF ~Nowhere(result) THEN 1 ELSE 0
  BY BulkNumbers DEF Counts, Binary
<1>3. \A p \in DOMAIN Printers : bin_files[p] \in Nat
  BY DEF Counts, Numbered
<1>4. \A p \in DOMAIN Printers : bin_files'[p] \in Nat /\ bin_files[p] <= bin_files'[p]
  <2> TAKE p \in DOMAIN Printers
  <2> DEFINE old == bin_files[p]
             new == bin_files'[p]
  <2>1. new = old \/ new = old + 0 \/ new = old + 1
    BY <1>2
  <2>2. old \in Nat
    BY <1>3
  <2> HIDE DEF old, new
  <2>3. new \in Nat /\ old <= new
    BY <2>1, <2>2
  <2>4. QED
    BY <2>3 DEF old, new
<1>5. path = IF Nowhere(result) THEN <<to>> ELSE <<to, bin_files[to]>>
  BY DEF PathOf, Nowhere
<1>6. \A f \in files : f.id # path
  <2> TAKE f \in files
  <2>1. PICK p \in DOMAIN Printers : \E m \in 0 .. bin_files[p] - 1 : f.id = <<p, m>>
    BY DEF Counts, FilesNumbered
  <2>2. PICK m \in 0 .. bin_files[p] - 1 : f.id = <<p, m>>
    BY <2>1
  <2>3. <<p, m>> # <<to>>
    BY PathsDiffer
  <2>4. <<p, m>> # <<to, bin_files[to]>>
    <3>1. p = to => m # bin_files[to]
      BY <1>2, <1>3
    <3>2. QED
      BY <3>1, PathsDiffer
  <2>5. QED
    BY <1>5, <2>2, <2>3, <2>4
<1>7. files' = IF result \in {"not opened", "no directory"} THEN files
               ELSE {f \in files : f.id # path} \cup {NewFile(path, result)}
  BY DEF BulkData, PathOf, Binary, NewFile
<1>8. {f \in files : f.id # path} = files
  BY <1>6
<1>9. \A f \in files : f \in files'
  BY <1>7, <1>8
<1>10. ASSUME NEW f \in files', f \notin files
       PROVE  f = NewFile(path, result) /\ result \in Stored /\ path = <<to, bin_files[to]>>
  <2>1. result \notin {"not opened", "no directory"} /\ f = NewFile(path, result)
    BY <1>7, <1>8, <1>10
  <2>2. QED
    BY <1>5, <2>1 DEF BulkResults, Stored, Nowhere
<1>11. Whole(result) => NewFile(path, result) \in files'
  BY <1>7 DEF Whole, Throwing
<1>12. path = <<to>> \/ (path = <<to, bin_files[to]>> /\ bin_files'[to] = bin_files[to] + 1)
  BY <1>2, <1>5
<1>13. QED
  BY <1>2, <1>3, <1>4, <1>6, <1>9, <1>10, <1>11, <1>12 DEF BulkFilesAre

\* Only a binary printer changes files or takes numbers.
LEMMA FilesUnchanged ==
  ASSUME Next
  PROVE  \/ UNCHANGED <<files, bin_files>>
         \/ \E result \in BulkResults : BulkData(result) /\ Binary
<1>1. ASSUME NEW result, BulkData(result), ~Binary
      PROVE  UNCHANGED <<files, bin_files>>
  BY <1>1 DEF BulkData, Binary
<1>2. QED
  BY <1>1 DEF Next, main_print_preamble, StartState, NextBenchmark, SkipState, MeasureState,
       TimeState, Measured, CompleteState, GoOn, Abort, main_print_epilogue, main_print_results,
       main_finalize, print_list, print_devices_json

\* Every step keeps the numbers of the files below the next one.
LEMMA FilesNumberedStep ==
  ASSUME Structure, Counts, Next
  PROVE  FilesNumbered'
<1>1. CASE UNCHANGED <<files, bin_files>>
  BY <1>1 DEF Counts, FilesNumbered
<1>2. CASE \E result \in BulkResults : BulkData(result) /\ Binary
  <2>1. PICK result \in BulkResults : BulkData(result) /\ Binary
    BY <1>2
  <2>2. PICK path : path = PathOf(result)
    OBVIOUS
  <2>3. BulkFilesAre(path, result)
    BY <2>1, <2>2, BulkFiles
  <2>4. ASSUME NEW f \in files'
        PROVE  /\ f.end \in Stored
               /\ \E p \in DOMAIN Printers : \E m \in 0 .. bin_files'[p] - 1 : f.id = <<p, m>>
    <3>1. CASE f \in files
      <4>1. f.end \in Stored
            /\ \E p \in DOMAIN Printers : \E m \in 0 .. bin_files[p] - 1 : f.id = <<p, m>>
        BY <3>1 DEF Counts, FilesNumbered
      <4>2. PICK p \in DOMAIN Printers : \E m \in 0 .. bin_files[p] - 1 : f.id = <<p, m>>
        BY <4>1
      <4>3. PICK m \in 0 .. bin_files[p] - 1 : f.id = <<p, m>>
        BY <4>2
      <4>4. m \in 0 .. bin_files'[p] - 1
        BY <2>3 DEF BulkFilesAre
      <4>5. QED
        BY <4>1, <4>3, <4>4
    <3>2. CASE f \notin files
      <4>1. f = NewFile(path, result) /\ path = <<to, bin_files[to]>> /\ result \in Stored
        BY <2>3, <3>2 DEF BulkFilesAre
      <4>2. f.end \in Stored /\ f.id = <<to, bin_files[to]>>
        BY <4>1 DEF NewFile
      <4>3. bin_files[to] \in 0 .. bin_files'[to] - 1
        <5>1. path # <<to>>
          BY <4>1, PathsDiffer
        <5>2. QED
          BY <2>3, <5>1 DEF BulkFilesAre
      <4>4. QED
        BY <2>3, <4>2, <4>3 DEF BulkFilesAre
    <3>3. QED
      BY <3>1, <3>2
  <2>5. QED
    BY <2>4 DEF FilesNumbered
<1>3. QED
  BY <1>1, <1>2, FilesUnchanged

\* Every step keeps the counts.
LEMMA CountsStep ==
  ASSUME Structure, Counts, [Next]_vars
  PROVE  Counts'
<1>1. CASE Next
  BY <1>1, CountedStep, NumberedStep, FilesNumberedStep DEF Counts
<1>2. CASE UNCHANGED vars
  <2>1. UNCHANGED <<phase, at, to, bin_files, files, completed, measured>>
    BY <1>2 DEF vars
  <2>2. Counted' /\ Numbered' /\ FilesNumbered'
    BY <2>1 DEF Counts, Counted, Before, Numbered, FilesNumbered, Waiting
  <2>3. QED
    BY <2>2 DEF Counts
<1>3. QED
  BY <1>1, <1>2

\* The printers count every state that has run once, skipped or not.  However many
\* measurements a state has and whatever becomes of their files, a printer takes at
\* most one number for each, and every file has a number that was taken.
THEOREM Counting == Spec => []Counts
<1>1. Init => Counts
  BY CountsInit
<1>2. Structure /\ Counts /\ [Next]_vars => Counts'
  BY CountsStep
<1>3. QED
  BY <1>1, <1>2, Structured, PTL DEF Spec

\* Every variable keeps its type.
THEOREM TypeCorrect == Spec => []TypeOK
<1>1. Structure /\ Counts => TypeOK
  <2> HAVE Structure /\ Counts
  <2>1. completed \in 0 .. AllStates /\ completed \in Nat
    BY CompletedIs, SizesAre DEF Structure, Counts
  <2>2. ASSUME NEW i \in DOMAIN Printers PROVE bin_files[i] \in 0 .. measured
    <3>1. bin_files[i] \in Nat /\ bin_files[i] + Waiting(i) <= measured
          /\ measured \in 0 .. MaxMeasurements /\ MaxMeasurements \in Nat
      BY ResultsAssumption DEF ResultsAssumption, Counts, Numbered
    <3>2. Waiting(i) \in {0, 1}
      BY DEF Waiting
    <3>3. QED
      BY <3>1, <3>2
  <2>3. ASSUME NEW f \in files PROVE f.id[1] \in DOMAIN Printers /\ f.end \in Stored
    <3>1. f.end \in Stored
          /\ \E p \in DOMAIN Printers : \E m \in 0 .. bin_files[p] - 1 : f.id = <<p, m>>
      BY DEF Counts, FilesNumbered
    <3>2. QED
      BY <3>1
  <2>4. QED
    BY <2>1, <2>2, <2>3 DEF TypeOK, Structure, Placement, Logs, Counts, Numbered, Stored
<1>2. QED
  BY <1>1, Structured, Counting, PTL

-----------------------------------------------------------------------------
(* Sample times                                                            *)

\* A file is there and no write of it has failed, or the log has a warning of it.
Reported(path) ==
  \/ \E f \in files : f.id = path /\ f.end \notin Throwing
  \/ \A p \in DOMAIN Printers : Printers[p].format = "markdown" => Warned(p, path)

\* A file that a state names: its path was given, a measurement of that state is the
\* only one that wrote it, and what became of it is known.
Own(n, place) ==
  /\ Given(n.filename) /\ Reported(n.filename) /\ n.size[1] = place
  /\ \A f \in files : f.id = n.filename => f.of = n.size

\* Two names are of one measurement if they are of one file with a number.
Apart(n, m) == m.filename = n.filename /\ Len(n.filename) = 2 => m.size = n.size

\* The last part of the inductive invariant: all the files that states name, none of
\* which two measurements share.
SummariesOwn ==
  \A b \in DOMAIN Benches : \A i \in 1 .. Len(Benches[b].states) : \A n \in Named(b, i) :
    /\ Own(n, <<b, i>>)
    /\ \A c \in DOMAIN Benches : \A j \in 1 .. Len(Benches[c].states) :
         \A m \in Named(c, j) : Apart(n, m)

\* A warning stays in the log.
LEMMA WarnedStays ==
  ASSUME Structure, [Next]_vars, NEW path, NEW p \in DOMAIN Printers, Warned(p, path)
  PROVE  Warned(p, path)'
<1>1. LogGrows(out[p], out'[p])
  BY StructureStep
<1>2. QED
  BY <1>1 DEF Warned, LogGrows

\* A path is reported when the files stay, and others may come.
LEMMA ReportedStays ==
  ASSUME Structure, [Next]_vars, NEW path, Reported(path), \A f \in files : f \in files'
  PROVE  Reported(path)'
BY WarnedStays DEF Reported

\* What is known of a file stays known when the files do not change.
LEMMA OwnStays ==
  ASSUME Structure, [Next]_vars, UNCHANGED <<files, bin_files>>, NEW n, NEW place,
         Own(n, place)
  PROVE  Own(n, place)'
<1>1. Given(n.filename)'
  BY DEF Own, Given
<1>2. Reported(n.filename)'
  BY ReportedStays DEF Own
<1>3. QED
  BY <1>1, <1>2 DEF Own

\* When a printer writes a file, the paths that were given stay so, and the new file
\* is on none of them.
LEMMA GivenStays ==
  ASSUME NEW fresh, NEW result, BulkFilesAre(fresh, result), NEW path, Given(path)
  PROVE  /\ Given(path)' /\ \A f \in files' : f \in files \/ f.id # path
         /\ path = fresh => path = <<to>>
<1>1. \A f \in files' : f \in files \/ (f.id = fresh /\ fresh = <<to, bin_files[to]>>)
  BY DEF BulkFilesAre, NewFile
<1>2. CASE \E p \in DOMAIN Printers : path = <<p>>
  <2>1. Given(path)' /\ path # <<to, bin_files[to]>>
    BY <1>2, PathsDiffer DEF Given
  <2>2. QED
    BY <1>1, <2>1 DEF BulkFilesAre
<1>3. CASE \E p \in DOMAIN Printers : \E m \in 0 .. bin_files[p] - 1 : path = <<p, m>>
  <2>1. PICK p \in DOMAIN Printers : \E m \in 0 .. bin_files[p] - 1 : path = <<p, m>>
    BY <1>3
  <2>2. PICK m \in 0 .. bin_files[p] - 1 : path = <<p, m>>
    BY <2>1
  <2>3. m \in 0 .. bin_files'[p] - 1 /\ (p = to => m # bin_files[to])
    <3>1. bin_files[p] \in Nat /\ bin_files'[p] \in Nat /\ bin_files[p] <= bin_files'[p]
      BY DEF BulkFilesAre
    <3>2. QED
      BY <3>1
  <2>4. path # <<to, bin_files[to]>>
    BY <2>2, <2>3, PathsDiffer
  <2>5. Given(path)'
    BY <2>2, <2>3 DEF Given
  <2>6. QED
    BY <1>1, <2>4, <2>5 DEF BulkFilesAre
<1>4. QED
  BY <1>2, <1>3 DEF Given

\* So what is known of a file stays known when a printer writes: it is another one.
LEMMA OwnStaysInBulk ==
  ASSUME Structure, Next, NEW fresh, NEW result, BulkFilesAre(fresh, result),
         NEW n, NEW place, Own(n, place)
  PROVE  Own(n, place)'
<1>1. Given(n.filename)' /\ \A f \in files' : f \in files \/ f.id # n.filename
  BY GivenStays DEF Own
<1>2. Reported(n.filename)'
  BY ReportedStays DEF Own, BulkFilesAre
<1>3. QED
  BY <1>1, <1>2 DEF Own

\* The file a printer writes, or warns of.
LEMMA FreshIsOwn ==
  ASSUME Structure, Counts, Next, NEW result \in BulkResults, BulkData(result), Binary,
         NEW path, path = PathOf(result), NEW n, n = [filename |-> path, size |-> This],
         NEW place, place = at
  PROVE  Own(n, place)'
<1>1. BulkFilesAre(path, result)
  BY BulkFiles
<1>2. n.filename = path /\ n.size = <<at, measured>> /\ n.size[1] = place
  BY DEF This
<1>3. \A f \in files' : f.id = path => f.of = n.size
  BY <1>1, <1>2 DEF BulkFilesAre, NewFile, This
<1>4. Given(path)'
  <2>1. CASE path = <<to>>
    BY <1>1, <2>1 DEF BulkFilesAre, Given
  <2>2. CASE path = <<to, bin_files[to]>> /\ bin_files'[to] = bin_files[to] + 1
    <3>1. to \in DOMAIN Printers /\ bin_files[to] \in Nat
      BY <1>1 DEF BulkFilesAre
    <3>2. bin_files[to] \in 0 .. bin_files'[to] - 1
      BY <2>2, <3>1
    <3>3. QED
      BY <2>2, <3>1, <3>2 DEF Given
  <2>3. QED
    BY <1>1, <2>1, <2>2 DEF BulkFilesAre
<1>5. Reported(path)'
  <2>1. CASE result \notin Throwing
    <3>1. NewFile(path, result) \in files'
      BY <1>1, <2>1 DEF BulkFilesAre, Whole
    <3>2. NewFile(path, result).id = path /\ NewFile(path, result).end = result
      BY DEF NewFile
    <3>3. QED
      BY <2>1, <3>1, <3>2 DEF Reported
  <2>2. CASE result \in Throwing
    <3> DEFINE items == BulkItems(result, path)
    <3>1. IsList(items) /\ Len(items) = 2 /\ items[1] = log("warn", path)
      BY <2>2, BulkItemsAre DEF NoDocument
    <3>2. out' = multiplex(items)
      BY DEF BulkData, BulkItems, PathOf, Binary
    <3> HIDE DEF items
    <3>3. \A p \in DOMAIN Printers : Printers[p].format = "markdown" => Holds(out'[p], items)
      BY <3>1, <3>2, MultiplexIs DEF Structure
    <3>4. 1 \in 1 .. Len(items)
      BY <3>1
    <3>5. ASSUME NEW p \in DOMAIN Printers, Printers[p].format = "markdown" PROVE Warned(p, path)'
      <4>1. PICK k \in DOMAIN out'[p] : out'[p][k] = log("warn", path)
        BY <3>1, <3>3, <3>4, <3>5 DEF Holds
      <4>2. log("warn", path).kind = "log" /\ log("warn", path).level = "warn"
            /\ log("warn", path).what = path
        BY LogIs
      <4>3. QED
        BY <4>1, <4>2 DEF Warned
    <3>6. QED
      BY <3>5 DEF Reported
  <2>3. QED
    BY <2>1, <2>2
<1>6. QED
  BY <1>2, <1>3, <1>4, <1>5 DEF Own

\* What a step adds to the files that states name: nothing, or a file a printer writes.
NamesNothing ==
  /\ UNCHANGED <<files, bin_files>>
  /\ \A b \in DOMAIN Benches : \A i \in 1 .. Len(Benches[b].states) :
       \A n \in Named(b, i)' : n \in Named(b, i)

NamesOne(result, fresh) ==
  /\ BulkData(result) /\ Binary
  /\ \A b \in DOMAIN Benches : \A i \in 1 .. Len(Benches[b].states) :
       \A n \in Named(b, i)' : n \in Named(b, i) \/ (at = <<b, i>> /\ n = fresh)

\* Summaries of another type name no files.
LEMMA GivesNoNames ==
  ASSUME Structure, NEW more, GivesSummaries(more), UNCHANGED <<files, bin_files>>,
         \A x \in ToSet(more) : x \in ToSet(benches[at[1]].states[at[2]].summaries)
                                \/ x.type # "file"
  PROVE  NamesNothing
<1>1. ASSUME NEW b \in DOMAIN Benches, NEW i \in 1 .. Len(Benches[b].states),
             NEW n \in Named(b, i)'
      PROVE  n \in Named(b, i)
  <2>1. PICK x \in ToSet(benches'[b].states[i].summaries) : x.type = "file" /\ n = x.value
    BY DEF Named
  <2>2. benches'[b].states[i].summaries = IF at = <<b, i>> THEN more ELSE benches[b].states[i].summaries
    BY GivenSummaries
  <2>3. at = <<b, i>> => at[1] = b /\ at[2] = i
    OBVIOUS
  <2>4. x \in ToSet(benches[b].states[i].summaries)
    BY <2>1, <2>2, <2>3
  <2>5. QED
    BY <2>1, <2>4 DEF Named
<1>2. QED
  BY <1>1 DEF NamesNothing

\* Only a binary printer that is handed sample times names a file.
LEMMA StepNames ==
  ASSUME Structure, Next
  PROVE  \/ NamesNothing
         \/ \E result \in BulkResults :
              NamesOne(result, [filename |-> PathOf(result), size |-> This])
<1>1. UNCHANGED <<benches, files, bin_files>> => NamesNothing
  BY DEF NamesNothing, Named
<1>2. CASE SkipState
  <2>1. GivesSummaries(Current.summaries)
        /\ Current.summaries = benches[at[1]].states[at[2]].summaries
    BY <1>2, SkipGives
  <2>2. UNCHANGED <<files, bin_files>>
    BY <1>2 DEF SkipState
  <2>3. QED
    BY <2>1, <2>2, GivesNoNames
<1>3. CASE \E summaries \in Timed \cup Untimed : Measured(summaries)
  <2>1. PICK summaries \in Timed \cup Untimed : Measured(summaries)
    BY <1>3
  <2>2. UNCHANGED <<files, bin_files>>
    BY <2>1 DEF Measured
  <2>3. QED
    BY <2>1, <2>2, MeasureGives, GivesNoNames
<1>4. CASE \E result \in BulkResults : BulkData(result)
  <2>1. PICK result \in BulkResults : BulkData(result)
    BY <1>4
  <2>2. CASE ~Binary
    <3>1. UNCHANGED <<benches, files, bin_files>>
      BY <2>1, <2>2 DEF BulkData, Binary
    <3>2. QED
      BY <1>1, <3>1
  <2>3. CASE Binary
    <3> DEFINE more == WithFile(result)
               fresh == [filename |-> PathOf(result), size |-> This]
    <3>1. GivesSummaries(more) /\ IsList(Current.summaries)
          /\ Current.summaries = benches[at[1]].states[at[2]].summaries
      BY <2>1, <2>3, BulkGives DEF Binary
    <3>2. more = Append(Current.summaries, BinSummary(PathOf(result)))
      BY DEF WithFile
    <3>3. BinSummary(PathOf(result)).value = fresh
      BY DEF BinSummary
    <3> HIDE DEF more, fresh
    <3>4. ToSet(more) = ToSet(Current.summaries) \cup {BinSummary(PathOf(result))}
      BY <3>1, <3>2, AppendedList
    <3>5. ASSUME NEW b \in DOMAIN Benches, NEW i \in 1 .. Len(Benches[b].states),
                 NEW n \in Named(b, i)'
          PROVE  n \in Named(b, i) \/ (at = <<b, i>> /\ n = fresh)
      <4>1. PICK x \in ToSet(benches'[b].states[i].summaries) : x.type = "file" /\ n = x.value
        BY DEF Named
      <4>2. benches'[b].states[i].summaries
              = IF at = <<b, i>> THEN more ELSE benches[b].states[i].summaries
        BY <3>1, GivenSummaries
      <4>3. at = <<b, i>> => at[1] = b /\ at[2] = i
        OBVIOUS
      <4>4. CASE x \in ToSet(benches[b].states[i].summaries)
        BY <4>1, <4>4 DEF Named
      <4>5. CASE x \notin ToSet(benches[b].states[i].summaries)
        <5>1. at = <<b, i>> /\ x \in ToSet(more)
          BY <4>1, <4>2, <4>5
        <5>2. x = BinSummary(PathOf(result))
          BY <3>1, <3>4, <4>3, <4>5, <5>1
        <5>3. QED
          BY <3>3, <4>1, <5>1, <5>2
      <4>6. QED
        BY <4>4, <4>5
    <3>6. NamesOne(result, fresh)
      BY <2>1, <2>3, <3>5 DEF NamesOne
    <3>7. QED
      BY <3>6 DEF fresh
  <2>4. QED
    BY <2>2, <2>3
<1>5. QED
  BY <1>1, <1>2, <1>3, <1>4
  DEF Next, MeasureState, TimeState, main_print_preamble, StartState, NextBenchmark,
      CompleteState, GoOn, Abort, main_print_epilogue, main_print_results, main_finalize,
      print_list, print_devices_json

\* Every step keeps what is known of the files.
LEMMA SummariesOwnStep ==
  ASSUME Structure, Counts, SummariesOwn, Next
  PROVE  SummariesOwn'
<1>1. CASE NamesNothing
  <2>1. UNCHANGED <<files, bin_files>>
        /\ \A b \in DOMAIN Benches : \A i \in 1 .. Len(Benches[b].states) :
             \A n \in Named(b, i)' : n \in Named(b, i)
    BY <1>1 DEF NamesNothing
  <2>2. ASSUME NEW b \in DOMAIN Benches, NEW i \in 1 .. Len(Benches[b].states),
               NEW n \in Named(b, i)'
        PROVE  /\ Own(n, <<b, i>>)'
               /\ \A c \in DOMAIN Benches : \A j \in 1 .. Len(Benches[c].states) :
                    \A m \in Named(c, j)' : Apart(n, m)
    <3>1. /\ Own(n, <<b, i>>)
          /\ \A c \in DOMAIN Benches : \A j \in 1 .. Len(Benches[c].states) :
               \A m \in Named(c, j) : Apart(n, m)
      BY <2>1 DEF SummariesOwn
    <3>2. Own(n, <<b, i>>)'
      BY <2>1, <3>1, OwnStays
    <3>3. QED
      BY <2>1, <3>1, <3>2
  <2>3. QED
    BY <2>2 DEF SummariesOwn
<1>2. CASE \E result \in BulkResults :
             NamesOne(result, [filename |-> PathOf(result), size |-> This])
  <2>1. PICK result \in BulkResults :
             NamesOne(result, [filename |-> PathOf(result), size |-> This])
    BY <1>2
  <2>2. PICK path, place, fresh :
          path = PathOf(result) /\ place = at /\ fresh = [filename |-> path, size |-> This]
    OBVIOUS
  <2>3. /\ BulkData(result) /\ Binary
        /\ \A b \in DOMAIN Benches : \A i \in 1 .. Len(Benches[b].states) :
             \A n \in Named(b, i)' : n \in Named(b, i) \/ (place = <<b, i>> /\ n = fresh)
    BY <2>1, <2>2 DEF NamesOne
  <2>4. BulkFilesAre(path, result) /\ fresh.filename = path
    BY <2>2, <2>3, BulkFiles
  <2>5. Own(fresh, place)'
    BY <2>2, <2>3, FreshIsOwn
  <2>6. ASSUME NEW b \in DOMAIN Benches, NEW i \in 1 .. Len(Benches[b].states), NEW n \in Named(b, i)
        PROVE  Own(n, <<b, i>>)' /\ Apart(n, fresh) /\ Apart(fresh, n)
    <3>1. Own(n, <<b, i>>)
      BY DEF SummariesOwn
    <3>2. Own(n, <<b, i>>)'
      BY <2>4, <3>1, OwnStaysInBulk
    <3>3. Given(n.filename)
      BY <3>1 DEF Own
    <3>4. n.filename = path => n.filename = <<to>>
      BY <2>4, <3>3, GivenStays
    <3>5. Len(<<to>>) = 1
      OBVIOUS
    <3>6. n.filename = fresh.filename => Len(n.filename) # 2
      BY <2>4, <3>4, <3>5
    <3>7. QED
      BY <3>2, <3>6 DEF Apart
  <2>7. ASSUME NEW b \in DOMAIN Benches, NEW i \in 1 .. Len(Benches[b].states),
               NEW n \in Named(b, i)'
        PROVE  /\ Own(n, <<b, i>>)'
               /\ \A c \in DOMAIN Benches : \A j \in 1 .. Len(Benches[c].states) :
                    \A m \in Named(c, j)' : Apart(n, m)
    <3>1. Own(n, <<b, i>>)'
      BY <2>3, <2>5, <2>6
    <3>2. ASSUME NEW c \in DOMAIN Benches, NEW j \in 1 .. Len(Benches[c].states),
                 NEW m \in Named(c, j)'
          PROVE  Apart(n, m)
      <4>1. n \in Named(b, i) \/ n = fresh
        BY <2>3
      <4>2. m \in Named(c, j) \/ m = fresh
        BY <2>3
      <4>3. n \in Named(b, i) /\ m \in Named(c, j) => Apart(n, m)
        BY DEF SummariesOwn
      <4>4. Apart(fresh, fresh)
        BY DEF Apart
      <4>5. QED
        BY <2>6, <4>1, <4>2, <4>3, <4>4
    <3>3. QED
      BY <3>1, <3>2
  <2>8. QED
    BY <2>7 DEF SummariesOwn
<1>3. QED
  BY <1>1, <1>2, StepNames

\* A file of sample times that a state names holds the samples of the measurement of
\* that state that named it, however many measurements and printers there are and
\* whatever states skip; no two measurements are given the same number, and a file
\* that is missing, or of which a write failed, has a warning in the log.
THEOREM FilesAreOwn == Spec => []SampleFilesAreOwn
<1>1. Init => SummariesOwn
  <2> HAVE Init
  <2>1. ASSUME NEW b \in DOMAIN Benches, NEW i \in 1 .. Len(Benches[b].states)
        PROVE  Named(b, i) = {}
    <3>1. benches[b].states[i].summaries = <<>>
      BY BenchesAre DEF Init, GeneratedOn
    <3>2. ToSet(benches[b].states[i].summaries) = {}
      BY <3>1 DEF ToSet
    <3>3. QED
      BY <3>2 DEF Named
  <2>2. QED
    BY <2>1 DEF SummariesOwn
<1>2. Structure /\ Counts /\ SummariesOwn /\ [Next]_vars => SummariesOwn'
  <2> HAVE Structure /\ Counts /\ SummariesOwn /\ [Next]_vars
  <2>1. CASE Next
    BY <2>1, SummariesOwnStep
  <2>2. CASE UNCHANGED vars
    BY <2>2 DEF vars, SummariesOwn, Named, Own, Given, Reported, Warned
  <2>3. QED
    BY <2>1, <2>2
<1>3. Structure /\ SummariesOwn => SampleFilesAreOwn
  <2> HAVE Structure /\ SummariesOwn
  <2>1. DOMAIN benches = DOMAIN Benches
        /\ \A b \in DOMAIN Benches : DOMAIN benches[b].states = 1 .. Len(Benches[b].states)
    BY StatesAre DEF Structure, Shaped
  <2>2. QED
    BY <2>1 DEF SummariesOwn, SampleFilesAreOwn, Own, Reported, Apart
<1>4. QED
  BY <1>1, <1>2, <1>3, Structured, Counting, PTL DEF Spec
=============================================================================
