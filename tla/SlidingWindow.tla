---------------------------- MODULE SlidingWindow ----------------------------
(***************************************************************************)
(* What ring_buffer promises its users: a window over the values pushed    *)
(* since the last clear, oldest first, that holds the most recent Capacity *)
(* of them.                                                                *)
(***************************************************************************)
EXTENDS Naturals, Sequences

CONSTANTS Values, Capacity

VARIABLE window

Init == window = <<>>

Push(v) == window' = IF Len(window) < Capacity
                       THEN Append(window, v)
                       ELSE Append(Tail(window), v)

Clear == window' = <<>>

Next == Clear \/ \E v \in Values : Push(v)

Spec == Init /\ [][Next]_window

=============================================================================
