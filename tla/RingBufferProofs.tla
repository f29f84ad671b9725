-------------------------- MODULE RingBufferProofs --------------------------
(***************************************************************************)
(* Proofs about RingBuffer, for every capacity and every set of values:    *)
(* the index stays in range, back() is the newest value, and the buffer    *)
(* implements SlidingWindow.  The refinement is carried by two lemmas, on  *)
(* a push with room (PushWithRoom) and on one that drops the oldest value  *)
(* (PushWhenFull), both by comparing the contents position by position.    *)
(***************************************************************************)
EXTENDS RingBuffer, TLAPS

\* What is known of the parameters: the criteria construct their buffers with
\* a positive capacity, and a value-initialized element is a value.
Parameters == Capacity \in Nat \ {0} /\ Zero \in Values

-----------------------------------------------------------------------------
(* Positions.  Every position the code reduces modulo the capacity is below *)
(* twice the capacity, where the remainder is a comparison.                 *)

\* A position below the capacity is itself, one past it is moved back once.
LEMMA Wrapped ==
  ASSUME Parameters
  PROVE  \A x \in 0 .. 2 * Capacity - 1 :
           x % Capacity = IF x < Capacity THEN x ELSE x - Capacity
<1> SUFFICES ASSUME NEW x \in 0 .. 2 * Capacity - 1
             PROVE  x % Capacity = IF x < Capacity THEN x ELSE x - Capacity
  OBVIOUS
<1> QED
  BY SMT DEF Parameters

\* The index after a push stays in range, and is zero only after the last slot.
LEMMA NextIndex ==
  ASSUME Parameters, NEW i \in Slot
  PROVE  (i + 1) % Capacity = IF i + 1 = Capacity THEN 0 ELSE i + 1
<1>1. i + 1 \in 0 .. 2 * Capacity - 1
  BY DEF Parameters, Slot
<1>2. (i + 1) % Capacity = IF i + 1 < Capacity THEN i + 1 ELSE i + 1 - Capacity
  BY <1>1, Wrapped DEF Parameters, Slot
<1>3. QED
  BY <1>2 DEF Parameters, Slot

-----------------------------------------------------------------------------
(* The operations.                                                          *)

\* A push keeps the members in range.
LEMMA PushedIsBuffer ==
  ASSUME Parameters, NEW b \in Buffers, NEW v \in Values
  PROVE  Pushed(b, v) \in Buffers
<1>1. (b.index + 1) % Capacity \in Slot
  BY NextIndex DEF Buffers, Parameters, Slot
<1>2. [b.slots EXCEPT ![b.index] = v] \in [Slot -> Values]
  BY DEF Buffers
<1>3. (b.full \/ (b.index + 1) % Capacity = 0) \in BOOLEAN
  BY DEF Buffers
<1>4. QED
  BY <1>1, <1>2, <1>3 DEF Pushed, Buffers

\* Every position that iteration dereferences is a slot.
LEMMA PositionIsSlot ==
  ASSUME Parameters, NEW b \in Buffers, NEW i \in 1 .. Size(b)
  PROVE  /\ (FrontIndex(b) + i - 1) % Capacity \in Slot
         /\ (FrontIndex(b) + i - 1) % Capacity =
              IF FrontIndex(b) + i - 1 < Capacity
              THEN FrontIndex(b) + i - 1 ELSE FrontIndex(b) + i - 1 - Capacity
<1>1. /\ Capacity \in Nat \ {0} /\ b.index \in 0 .. Capacity - 1
      /\ Size(b) = IF b.full THEN Capacity ELSE b.index
      /\ FrontIndex(b) = IF b.full THEN b.index ELSE 0
  BY DEF Parameters, Buffers, Slot, Size, FrontIndex
<1>2. FrontIndex(b) + i - 1 \in 0 .. 2 * Capacity - 1
  BY <1>1
<1>3. (FrontIndex(b) + i - 1) % Capacity =
        IF FrontIndex(b) + i - 1 < Capacity
        THEN FrontIndex(b) + i - 1 ELSE FrontIndex(b) + i - 1 - Capacity
  BY <1>1, <1>2, Wrapped DEF Parameters
<1>4. QED
  BY <1>1, <1>2, <1>3 DEF Slot

\* Iteration spans size() values.
LEMMA ContentsIsSequence ==
  ASSUME Parameters, NEW b \in Buffers
  PROVE  /\ Contents(b) \in Seq(Values) /\ Len(Contents(b)) = Size(b)
         /\ Size(b) \in 0 .. Capacity
<1>1. Size(b) \in 0 .. Capacity
  BY DEF Parameters, Buffers, Slot, Size
<1>2. \A i \in 1 .. Size(b) :
        b.slots[(FrontIndex(b) + i - 1) % Capacity] \in Values
  BY PositionIsSlot DEF Buffers
<1>3. QED
  BY <1>1, <1>2 DEF Contents, Parameters

\* A push on a buffer that is not full adds the value at the end; when it fills
\* the last slot the buffer becomes full and iteration still starts at slot 0.
LEMMA PushWithRoom ==
  ASSUME Parameters, NEW b \in Buffers, NEW v \in Values, ~b.full
  PROVE  Contents(Pushed(b, v)) = Append(Contents(b), v)
<1> DEFINE c == Pushed(b, v)
<1>1. /\ Capacity \in Nat \ {0} /\ b.index \in 0 .. Capacity - 1
      /\ b.slots \in [Slot -> Values] /\ Size(b) = b.index /\ FrontIndex(b) = 0
  BY DEF Parameters, Buffers, Slot, Size, FrontIndex
<1>2. (b.index + 1) % Capacity = IF b.index + 1 = Capacity THEN 0 ELSE b.index + 1
  BY <1>1, NextIndex DEF Slot
<1>3. /\ c.slots = [b.slots EXCEPT ![b.index] = v]
      /\ c.index = (b.index + 1) % Capacity
      /\ c.full <=> (b.index + 1) % Capacity = 0
  BY DEF Pushed
<1>4. c \in Buffers
  BY PushedIsBuffer
<1> HIDE DEF c
<1>5. Size(c) = b.index + 1 /\ FrontIndex(c) = 0
  BY <1>1, <1>2, <1>3 DEF Size, FrontIndex
<1>6. ASSUME NEW i \in 1 .. b.index + 1
      PROVE  Contents(c)[i] = IF i = b.index + 1 THEN v ELSE Contents(b)[i]
  <2>1. (FrontIndex(c) + i - 1) % Capacity = i - 1
    BY <1>1, <1>4, <1>5, PositionIsSlot
  <2>2. Contents(c)[i] = c.slots[i - 1]
    BY <1>5, <2>1 DEF Contents
  <2>3. CASE i = b.index + 1
    BY <1>1, <1>3, <2>2, <2>3 DEF Slot
  <2>4. CASE i # b.index + 1
    <3>1. i \in 1 .. Size(b)
      BY <1>1, <2>4
    <3>2. (FrontIndex(b) + i - 1) % Capacity = i - 1
      BY <1>1, <3>1, PositionIsSlot
    <3>3. Contents(b)[i] = b.slots[i - 1]
      BY <3>1, <3>2 DEF Contents
    <3>4. QED
      BY <1>1, <1>3, <2>2, <2>4, <3>3 DEF Slot
  <2>5. QED
    BY <2>3, <2>4
<1>7. /\ Contents(c) \in Seq(Values) /\ Len(Contents(c)) = b.index + 1
      /\ Contents(b) \in Seq(Values) /\ Len(Contents(b)) = b.index
  BY <1>1, <1>4, <1>5, ContentsIsSequence
<1>8. Contents(c) = Append(Contents(b), v)
  <2>1. /\ Append(Contents(b), v) \in Seq(Values)
        /\ Len(Append(Contents(b), v)) = b.index + 1
    BY <1>1, <1>7
  <2>2. \A i \in 1 .. b.index + 1 : Append(Contents(b), v)[i] = Contents(c)[i]
    BY <1>1, <1>6, <1>7
  <2>3. QED
    BY <1>7, <2>1, <2>2
<1> QED
  BY <1>8 DEF c

\* A push on a full buffer drops the oldest value.
LEMMA PushWhenFull ==
  ASSUME Parameters, NEW b \in Buffers, NEW v \in Values, b.full
  PROVE  Contents(Pushed(b, v)) = Append(Tail(Contents(b)), v)
<1> DEFINE c == Pushed(b, v)
<1>1. /\ Capacity \in Nat \ {0} /\ b.index \in 0 .. Capacity - 1
      /\ b.slots \in [Slot -> Values] /\ Size(b) = Capacity
      /\ FrontIndex(b) = b.index
  BY DEF Parameters, Buffers, Slot, Size, FrontIndex
<1>2. (b.index + 1) % Capacity = IF b.index + 1 = Capacity THEN 0 ELSE b.index + 1
  BY <1>1, NextIndex DEF Slot
<1>3. /\ c.slots = [b.slots EXCEPT ![b.index] = v]
      /\ c.index = (b.index + 1) % Capacity
      /\ c.full
  BY DEF Pushed
<1>4. c \in Buffers
  BY PushedIsBuffer
<1> HIDE DEF c
<1>5. /\ Size(c) = Capacity
      /\ FrontIndex(c) = IF b.index + 1 = Capacity THEN 0 ELSE b.index + 1
  BY <1>1, <1>2, <1>3 DEF Size, FrontIndex
<1>6. ASSUME NEW i \in 1 .. Capacity
      PROVE  Contents(c)[i] = IF i = Capacity THEN v ELSE Contents(b)[i + 1]
  <2> DEFINE p == (FrontIndex(c) + i - 1) % Capacity
  <2>1. p = IF FrontIndex(c) + i - 1 < Capacity THEN FrontIndex(c) + i - 1
                                             ELSE FrontIndex(c) + i - 1 - Capacity
    BY <1>4, <1>5, PositionIsSlot
  <2>2. Contents(c)[i] = c.slots[p]
    BY <1>5 DEF Contents
  <2> HIDE DEF p
  <2>3. CASE i = Capacity
    <3>1. p = b.index
      BY <1>1, <1>5, <2>1, <2>3
    <3>2. QED
      BY <1>1, <1>3, <2>2, <2>3, <3>1 DEF Slot
  <2>4. CASE i # Capacity
    <3>1. i + 1 \in 1 .. Size(b)
      BY <1>1, <2>4
    <3>2. (FrontIndex(b) + (i + 1) - 1) % Capacity =
            IF FrontIndex(b) + (i + 1) - 1 < Capacity
            THEN FrontIndex(b) + (i + 1) - 1
            ELSE FrontIndex(b) + (i + 1) - 1 - Capacity
      BY <3>1, PositionIsSlot
    <3>3. (FrontIndex(b) + (i + 1) - 1) % Capacity = p
      BY <1>1, <1>5, <2>1, <2>4, <3>2
    <3>4. Contents(b)[i + 1] = b.slots[p]
      BY <3>1, <3>3 DEF Contents
    <3>5. p # b.index
      BY <1>1, <1>5, <2>1, <2>4
    <3>6. QED
      BY <1>1, <1>3, <2>2, <2>4, <3>4, <3>5
  <2>5. QED
    BY <2>3, <2>4
<1>7. /\ Contents(c) \in Seq(Values) /\ Len(Contents(c)) = Capacity
      /\ Contents(b) \in Seq(Values) /\ Len(Contents(b)) = Capacity
  BY <1>1, <1>4, <1>5, ContentsIsSequence
<1>8. Contents(c) = Append(Tail(Contents(b)), v)
  <2>1. /\ Tail(Contents(b)) \in Seq(Values)
        /\ Len(Tail(Contents(b))) = Capacity - 1
        /\ \A i \in 1 .. Capacity - 1 : Tail(Contents(b))[i] = Contents(b)[i + 1]
    BY <1>1, <1>7
  <2>2. /\ Append(Tail(Contents(b)), v) \in Seq(Values)
        /\ Len(Append(Tail(Contents(b)), v)) = Capacity
    BY <1>1, <2>1
  <2>3. \A i \in 1 .. Capacity :
          Append(Tail(Contents(b)), v)[i] = Contents(c)[i]
    BY <1>1, <1>6, <2>1
  <2>4. QED
    BY <1>7, <2>2, <2>3
<1> QED
  BY <1>8 DEF c

\* A cleared buffer holds nothing, whatever its slots still contain.
LEMMA ClearedIsEmpty ==
  ASSUME Parameters, NEW b \in Buffers
  PROVE  Cleared(b) \in Buffers /\ Contents(Cleared(b)) = <<>>
<1>1. 0 \in Slot
  BY DEF Parameters, Slot
<1>2. /\ Cleared(b) \in Buffers /\ Size(Cleared(b)) = 0
  BY <1>1 DEF Buffers, Cleared, Size
<1>3. /\ Contents(Cleared(b)) \in Seq(Values) /\ Len(Contents(Cleared(b))) = 0
  BY <1>2, ContentsIsSequence
<1>4. QED
  BY <1>2, <1>3

\* back() is the newest value of what iteration spans.
LEMMA BackIsLast ==
  ASSUME Parameters, NEW b \in Buffers, ~IsEmpty(b)
  PROVE  Back(b) = Contents(b)[Size(b)]
<1>1. /\ Capacity \in Nat \ {0} /\ b.index \in 0 .. Capacity - 1
      /\ b.full \/ b.index # 0
      /\ b.full \in BOOLEAN
  BY DEF Parameters, Buffers, Slot, IsEmpty
<1>2. /\ Size(b) = IF b.full THEN Capacity ELSE b.index
      /\ FrontIndex(b) = IF b.full THEN b.index ELSE 0
  BY DEF Size, FrontIndex
<1>3. Size(b) \in 1 .. Size(b)
  BY <1>1, <1>2
<1>4. (FrontIndex(b) + Size(b) - 1) % Capacity =
        IF FrontIndex(b) + Size(b) - 1 < Capacity
        THEN FrontIndex(b) + Size(b) - 1
        ELSE FrontIndex(b) + Size(b) - 1 - Capacity
  BY <1>3, PositionIsSlot
<1>5. (FrontIndex(b) + Size(b) - 1) % Capacity =
        IF b.index = 0 THEN Capacity - 1 ELSE b.index - 1
  BY <1>1, <1>2, <1>4
<1>6. QED
  BY <1>3, <1>5 DEF Back, Contents

\* A push is a push of the window.
LEMMA PushOfWindow ==
  ASSUME Parameters, NEW b \in Buffers, NEW v \in Values
  PROVE  Contents(Pushed(b, v)) = IF Len(Contents(b)) < Capacity
                                  THEN Append(Contents(b), v)
                                  ELSE Append(Tail(Contents(b)), v)
<1>1. Len(Contents(b)) = IF b.full THEN Capacity ELSE b.index
  BY ContentsIsSequence DEF Size
<1>2. Capacity \in Nat /\ b.index \in 0 .. Capacity - 1
  BY DEF Parameters, Buffers, Slot
<1>3. CASE b.full
  <2>1. ~(Len(Contents(b)) < Capacity)
    BY <1>1, <1>2, <1>3
  <2>2. QED
    BY <1>3, <2>1, PushWhenFull
<1>4. CASE ~b.full
  <2>1. Len(Contents(b)) < Capacity
    BY <1>1, <1>2, <1>4
  <2>2. QED
    BY <1>4, <2>1, PushWithRoom
<1>5. QED
  BY <1>3, <1>4

-----------------------------------------------------------------------------
(* The history a buffer holds.                                              *)

\* The part of a history that a buffer is there to keep.
Latest(s) ==
  SubSeq(s, IF Len(s) > Capacity THEN Len(s) - Capacity + 1 ELSE 1, Len(s))

\* A history that fits is its own window.
LEMMA LatestFits ==
  ASSUME Parameters, NEW s \in Seq(Values), Len(s) <= Capacity
  PROVE  Latest(s) = s
<1>1. Latest(s) = SubSeq(s, 1, Len(s))
  <2>1. ~(Len(s) > Capacity)
    BY DEF Parameters
  <2>2. QED
    BY <2>1, Zenon DEF Latest
<1>2. /\ SubSeq(s, 1, Len(s)) \in Seq(Values) /\ Len(SubSeq(s, 1, Len(s))) = Len(s)
      /\ \A i \in 1 .. Len(s) : SubSeq(s, 1, Len(s))[i] = s[i]
  OBVIOUS
<1>3. QED
  BY <1>1, <1>2

\* A window holds as much as fits, the newest value last.
LEMMA LatestShape ==
  ASSUME Parameters, NEW s \in Seq(Values)
  PROVE  /\ Latest(s) \in Seq(Values)
         /\ Len(Latest(s)) = IF Len(s) < Capacity THEN Len(s) ELSE Capacity
         /\ s # <<>> => Latest(s)[Len(Latest(s))] = s[Len(s)]
<1> Capacity \in Nat \ {0} /\ Len(s) \in Nat
  BY DEF Parameters
<1>1. CASE Len(s) < Capacity
  BY <1>1, LatestFits
<1>2. CASE Len(s) >= Capacity
  <2> DEFINE k == Len(s) - Capacity
  <2>1. k \in Nat /\ Len(s) = k + Capacity
    BY <1>2
  <2> HIDE DEF k
  <2>2. Len(Latest(s)) = Capacity
    BY <2>1 DEF Latest
  <2>3. Latest(s)[Capacity] = s[k + Capacity]
    BY <2>1 DEF Latest
  <2>4. Latest(s) \in Seq(Values)
    BY <2>1 DEF Latest
  <2>5. QED
    BY <1>2, <2>1, <2>2, <2>3, <2>4
<1>3. QED
  BY <1>1, <1>2

\* A window that is full drops its oldest value for a new one.
LEMMA LatestOfAppend ==
  ASSUME Parameters, NEW s \in Seq(Values), NEW v \in Values
  PROVE  Latest(Append(s, v)) = IF Len(s) < Capacity THEN Append(Latest(s), v)
                                ELSE Append(Tail(Latest(s)), v)
<1> Capacity \in Nat \ {0}
  BY DEF Parameters
<1> DEFINE r == Append(s, v)
<1>1. r \in Seq(Values) /\ Len(r) = Len(s) + 1 /\ Len(s) \in Nat
  OBVIOUS
<1>2. \A i \in 1 .. Len(s) : r[i] = s[i]
  OBVIOUS
<1>3. r[Len(s) + 1] = v
  OBVIOUS
<1> HIDE DEF r
<1>4. CASE Len(s) < Capacity
  <2>1. Latest(s) = s /\ Latest(r) = r
    BY <1>1, <1>4, LatestFits
  <2>2. QED
    BY <1>4, <2>1 DEF r
<1>5. CASE Len(s) >= Capacity
  <2> DEFINE k == Len(s) - Capacity
             w == Latest(s)
  <2>1. k \in Nat /\ Len(s) = k + Capacity
    BY <1>1, <1>5
  <2> HIDE DEF k
  <2>2. w \in Seq(Values) /\ Len(w) = Capacity
    BY <1>1, <2>1 DEF Latest
  <2>3. \A i \in 1 .. Capacity : w[i] = s[k + i]
    BY <1>1, <2>1 DEF Latest
  <2>4. Latest(r) \in Seq(Values) /\ Len(Latest(r)) = Capacity
    BY <1>1, <2>1 DEF Latest
  <2>5. \A i \in 1 .. Capacity : Latest(r)[i] = r[k + 1 + i]
    BY <1>1, <2>1 DEF Latest
  <2> HIDE DEF w
  <2>6. /\ Append(Tail(w), v) \in Seq(Values) /\ Len(Append(Tail(w), v)) = Capacity
        /\ \A i \in 1 .. Capacity :
             Append(Tail(w), v)[i] = IF i = Capacity THEN v ELSE w[i + 1]
    BY <2>2
  <2>7. \A i \in 1 .. Capacity : Latest(r)[i] = Append(Tail(w), v)[i]
    BY <1>1, <1>2, <1>3, <2>1, <2>3, <2>5, <2>6
  <2>8. Latest(r) = Append(Tail(w), v)
    BY <2>4, <2>6, <2>7
  <2>9. QED
    BY <1>1, <1>5, <2>8 DEF r, w
<1>6. QED
  BY <1>1, <1>4, <1>5

\* The buffer holds the most recent values of a history.
Tracks(b, s) ==
  b \in Buffers /\ s \in Seq(Values) /\ Contents(b) = Latest(s)

\* A new buffer and a cleared one hold nothing.
LEMMA TracksNothing ==
  ASSUME Parameters
  PROVE  Tracks(NewBuffer, <<>>) /\ \A b \in Buffers : Tracks(Cleared(b), <<>>)
<1>1. <<>> \in Seq(Values) /\ Latest(<<>>) = <<>>
  <2>1. <<>> \in Seq(Values) /\ Len(<<>>) <= Capacity
    BY DEF Parameters
  <2>2. QED
    BY <2>1, LatestFits, Zenon
<1>2. NewBuffer \in Buffers /\ Contents(NewBuffer) = <<>>
  <2>1. NewBuffer \in Buffers /\ Size(NewBuffer) = 0
    BY DEF Parameters, NewBuffer, Buffers, Slot, Size
  <2>2. QED
    BY <2>1 DEF Contents
<1>3. QED
  BY <1>1, <1>2, ClearedIsEmpty DEF Tracks

\* A buffer is full when the history fills the window, empty when there is
\* none, and its back is the newest value.
LEMMA TrackedHistory ==
  ASSUME Parameters, NEW b, NEW s, Tracks(b, s)
  PROVE  /\ b.full <=> Len(s) >= Capacity
         /\ Size(b) = IF Len(s) < Capacity THEN Len(s) ELSE Capacity
         /\ IsEmpty(b) <=> s = <<>>
         /\ s # <<>> => Back(b) = s[Len(s)]
<1> USE DEF Tracks, Parameters
<1>1. /\ Len(Latest(s)) = IF Len(s) < Capacity THEN Len(s) ELSE Capacity
      /\ s # <<>> => Latest(s)[Len(Latest(s))] = s[Len(s)]
  BY LatestShape
<1>2. Size(b) = Len(Latest(s))
  BY ContentsIsSequence
<1>3. /\ b.index \in 0 .. Capacity - 1 /\ b.full \in BOOLEAN
      /\ Size(b) = IF b.full THEN Capacity ELSE b.index
  BY DEF Buffers, Slot, Size
<1>4. b.full <=> Len(s) >= Capacity
  BY <1>1, <1>2, <1>3
<1>5. IsEmpty(b) <=> Len(s) = 0
  BY <1>1, <1>2, <1>3 DEF IsEmpty
<1>6. ASSUME s # <<>> PROVE Back(b) = s[Len(s)]
  <2>1. Size(b) \in 1 .. Size(b) /\ ~IsEmpty(b)
    BY <1>1, <1>2, <1>3, <1>5, <1>6
  <2>2. Contents(b)[Size(b)] = s[Len(s)]
    BY <1>1, <1>2, <1>6
  <2>3. QED
    BY <2>1, <2>2, BackIsLast
<1>7. QED
  BY <1>1, <1>2, <1>4, <1>5, <1>6

\* A push adds to the history.
LEMMA TracksPushed ==
  ASSUME Parameters, NEW b, NEW s, Tracks(b, s), NEW v \in Values
  PROVE  Tracks(Pushed(b, v), Append(s, v))
<1>1. /\ b \in Buffers /\ s \in Seq(Values) /\ Contents(b) = Latest(s) /\ b.full \in BOOLEAN
  BY DEF Tracks, Buffers
<1>2. b.full <=> ~(Len(s) < Capacity)
  <2>1. Len(s) \in Nat /\ Capacity \in Nat
    BY <1>1 DEF Parameters
  <2>2. QED
    BY <2>1, TrackedHistory
<1>3. Contents(Pushed(b, v)) = Latest(Append(s, v))
  <2>1. CASE b.full
    BY <1>1, <1>2, <2>1, PushWhenFull, LatestOfAppend
  <2>2. CASE ~b.full
    BY <1>1, <1>2, <2>2, PushWithRoom, LatestOfAppend
  <2>3. QED
    BY <2>1, <2>2
<1>4. QED
  BY <1>1, <1>3, PushedIsBuffer DEF Tracks

-----------------------------------------------------------------------------
(* The buffer as a state machine.                                           *)

\* push_back's own assertion: the index is within the buffer, always.
THEOREM TypeCorrect == ASSUME Parameters PROVE Spec => []TypeOK
<1>1. Init => TypeOK
  BY DEF Parameters, Init, NewBuffer, TypeOK, Buffers, Slot
<1>2. TypeOK /\ [Next]_buf => TypeOK'
  BY PushedIsBuffer, ClearedIsEmpty DEF TypeOK, Next, PushBack, Clear
<1>3. QED
  BY <1>1, <1>2, PTL DEF Spec

\* back() is the newest value of what iteration spans, across wrap-around and
\* after clear(), for every capacity.
THEOREM BackIsTheNewest == ASSUME Parameters PROVE Spec => []BackIsNewest
<1>1. TypeOK => BackIsNewest
  BY BackIsLast DEF TypeOK, BackIsNewest
<1>2. Spec => []TypeOK
  BY TypeCorrect
<1>3. QED
  BY <1>1, <1>2, PTL

\* The ring buffer implements the sliding window, for every capacity.
THEOREM BufferImplementsWindow == ASSUME Parameters PROVE Spec => ImplementsWindow
<1>1. Init => Window!Init
  <2> SUFFICES ASSUME Init PROVE Contents(buf) = <<>>
    BY DEF Window!Init
  <2>1. buf \in Buffers /\ Size(buf) = 0
    BY DEF Parameters, Init, NewBuffer, Buffers, Slot, Size
  <2>2. Contents(buf) \in Seq(Values) /\ Len(Contents(buf)) = 0
    BY <2>1, ContentsIsSequence
  <2>3. QED
    BY <2>2
<1>2. TypeOK /\ [Next]_buf => [Window!Next]_(Contents(buf))
  <2> SUFFICES ASSUME TypeOK, [Next]_buf
               PROVE  Window!Next \/ Contents(buf)' = Contents(buf)
    OBVIOUS
  <2>1. CASE Clear
    BY <2>1, ClearedIsEmpty DEF Clear, TypeOK, Window!Next, Window!Clear
  <2>2. ASSUME NEW v \in Values, PushBack(v) PROVE Window!Push(v)
    BY <2>2, PushOfWindow DEF PushBack, TypeOK, Window!Push
  <2>3. CASE UNCHANGED buf
    BY <2>3
  <2>4. QED
    BY <2>1, <2>2, <2>3 DEF Next, Window!Next
<1>3. Spec => []TypeOK
  BY TypeCorrect
<1>4. QED
  BY <1>1, <1>2, <1>3, PTL DEF Spec, ImplementsWindow, Window!Spec
=============================================================================
