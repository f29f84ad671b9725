----------------------------- MODULE RingBuffer -----------------------------
(***************************************************************************)
(* nvbench/detail/ring_buffer.cuh as operators on a record whose fields    *)
(* are the members of the class:                                           *)
(*   slots   m_buffer, indexed from 0 as in the code                       *)
(*   index   m_index                                                       *)
(*   full    m_full                                                        *)
(* Capacity is positive; Zero, the value-initialized element, is a value.  *)
(***************************************************************************)
EXTENDS Integers, Sequences

CONSTANTS Values, Capacity, Zero

Slot == 0 .. Capacity - 1

Buffers == [slots : [Slot -> Values], index : Slot, full : BOOLEAN]

\* ring_buffer(capacity): value-initialized elements.
NewBuffer == [slots |-> [i \in Slot |-> Zero], index |-> 0, full |-> FALSE]

Size(b) == IF b.full THEN Capacity ELSE b.index

IsEmpty(b) == b.index = 0 /\ ~b.full

\* Mutant of Cleared: a buffer that was full stays full.
Cleared_StaysFull(b) == [b EXCEPT !.index = 0]

\* The elements stay in place.
Cleared(b) == [b EXCEPT !.index = 0, !.full = FALSE]

Pushed(b, v) ==
  LET next == (b.index + 1) % Capacity
  IN  [slots |-> [b.slots EXCEPT ![b.index] = v],
       index |-> next,
       full  |-> b.full \/ next = 0]

FrontIndex(b) == IF b.full THEN b.index ELSE 0

\* begin() .. end(): positions FrontIndex .. FrontIndex + Size - 1, each
\* dereferenced modulo the capacity.
Contents(b) == [i \in 1 .. Size(b) |-> b.slots[(FrontIndex(b) + i - 1) % Capacity]]

\* back(): the slot before the index, whether or not anything was pushed.
Back(b) == b.slots[IF b.index = 0 THEN Capacity - 1 ELSE b.index - 1]

-----------------------------------------------------------------------------
(* A buffer and its operations as a state machine.                         *)

VARIABLE buf

Init == buf = NewBuffer

PushBack(v) == buf' = Pushed(buf, v)

Clear == buf' = Cleared(buf)

Next == Clear \/ \E v \in Values : PushBack(v)

Spec == Init /\ [][Next]_buf

TypeOK == buf \in Buffers

\* back() of a buffer with anything in it is the newest value of the range
\* that begin() and end() span, across wrap-around and after clear().
BackIsNewest ==
  ~IsEmpty(buf) => Back(buf) = Contents(buf)[Size(buf)]

\* The buffer implements the window: what iteration sees is always the most
\* recent values in the order they were pushed, and nothing from before the
\* last clear().
Window == INSTANCE SlidingWindow WITH window <- Contents(buf)

ImplementsWindow == Window!Spec

=============================================================================
