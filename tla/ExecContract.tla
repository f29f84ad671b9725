----------------------------- MODULE ExecContract ----------------------------
(***************************************************************************)
(* What state::exec promises of the measurements it runs: the ones it owes *)
(* are reported one after the other, none twice and none out of turn; what *)
(* ends a measurement early ends the call and the generator that made it.  *)
(* Metrics may be left out.  The next state starts without reports.        *)
(***************************************************************************)
EXTENDS Sequences

CONSTANT Plans  \* sequences of measurements a call may owe

VARIABLES
  owed,     \* measurements the call in progress has yet to report
  reported, \* measurements reported on the state so far, over all calls
  over      \* the generator is through with the state

vars == <<owed, reported, over>>

Init == owed = <<>> /\ reported = <<>> /\ over = FALSE

Begin ==
  /\ ~over /\ owed = <<>> /\ owed' \in Plans
  /\ UNCHANGED <<reported, over>>

Report ==
  /\ owed # <<>>
  /\ reported' = Append(reported, Head(owed))
  /\ owed' = Tail(owed)
  /\ UNCHANGED over

\* The counters of a profiled launch may turn out to be unreadable.
Omit ==
  /\ owed # <<>> /\ Head(owed) = "cupti"
  /\ owed' = Tail(owed)
  /\ UNCHANGED <<reported, over>>

\* A failure, or a kernel too short to be worth measuring.
GiveUp ==
  /\ owed # <<>> /\ owed' = <<>> /\ over' = TRUE
  /\ UNCHANGED reported

End ==
  /\ ~over /\ owed = <<>> /\ over' = TRUE
  /\ UNCHANGED <<owed, reported>>

NextState ==
  /\ over /\ over' = FALSE /\ reported' = <<>>
  /\ UNCHANGED owed

Next == Begin \/ Report \/ Omit \/ GiveUp \/ End \/ NextState

Spec == Init /\ [][Next]_vars
=============================================================================
