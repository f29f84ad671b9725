------------------------------ MODULE TrialGate ------------------------------
(***************************************************************************)
(* What a caller of blocking_kernel is promised about one measurement,     *)
(* without flags, clocks or a device kernel: work submitted in a trial is  *)
(* held until the gate is opened, the gate may give way early (the         *)
(* timeout), and a trial whose gate gave way is never accepted.            *)
(***************************************************************************)

VARIABLES
  gated,     \* the measurement holds its work behind a gate
  opened,    \* the host has opened the gate of the current trial
  begun,     \* "no", "gated" (work began behind an open gate) or "early"
  verdict    \* "none", "accepted", "timeout" or "error"

vars == <<gated, opened, begun, verdict>>

Init ==
  /\ gated \in BOOLEAN
  /\ opened = FALSE /\ begun = "no" /\ verdict = "none"

Arm ==
  /\ verdict = "accepted"
  /\ opened' = FALSE /\ begun' = "no" /\ verdict' = "none"
  /\ UNCHANGED gated

Open ==
  /\ gated /\ ~opened /\ verdict = "none"
  /\ opened' = TRUE
  /\ UNCHANGED <<gated, begun, verdict>>

\* Work begins.  With the gate still shut, the gate has given way.
Begin ==
  /\ begun = "no" /\ verdict # "accepted"
  /\ begun' = IF gated /\ ~opened THEN "early" ELSE "gated"
  /\ UNCHANGED <<gated, opened, verdict>>

Accept ==
  /\ verdict = "none" /\ begun = "gated"
  /\ gated => opened
  /\ verdict' = "accepted"
  /\ UNCHANGED <<gated, opened, begun>>

\* Opening reported that the gate had given way.
Reject ==
  /\ verdict = "none" /\ gated /\ opened
  /\ verdict' = "timeout"
  /\ UNCHANGED <<gated, opened, begun>>

\* The trial is lost between arming and opening.
Abandon ==
  /\ verdict = "none" /\ ~opened
  /\ verdict' = "error"
  /\ UNCHANGED <<gated, opened, begun>>

Next == Arm \/ Open \/ Begin \/ Accept \/ Reject \/ Abandon

Spec == Init /\ [][Next]_vars

=============================================================================
