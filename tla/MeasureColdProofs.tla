-------------------------- MODULE MeasureColdProofs --------------------------
(***************************************************************************)
(* Proofs about MeasureCold, for every set of parameters, every recovery   *)
(* delay and its growth, every duration of trials and every bound on them, *)
(* and about BlockingKernel, the gate of its trials, for every set of      *)
(* timeouts and launchers, every number of launches and trials, and every  *)
(* clock bound.  The two specifications are separate; each has its own.    *)
(***************************************************************************)
EXTENDS MeasureCold, BlockingKernel, TLAPS

\* Every variable of a measurement keeps its type.
THEOREM TypeCorrect == Spec => []TypeOK
<1>1. Init => TypeOK
  <2> SUFFICES ASSUME Init PROVE TypeOK
    OBVIOUS
  <2>1. m_run_once \in BOOLEAN /\ m_check_throttling \in BOOLEAN
    BY MeasureAssumption DEF Init
  <2>2. m_cuda_times \in Seq(1 .. MaxTrials) /\ fed \in Seq(1 .. MaxTrials)
    BY DEF Init
  <2>3. /\ m_run_once \in RunOnce /\ m_skip_time \in Skipping
        /\ m_max_time_exceeded \in BOOLEAN /\ converged \in BOOLEAN
        /\ skipped \in BOOLEAN /\ summarised \in BOOLEAN
    BY DEF Init
  <2>4. QED
    BY <2>1, <2>2, <2>3, MeasureAssumption DEF Init, TypeOK, Points, Sides
<1>2. TypeOK /\ [Next]_vars => TypeOK'
  <2> SUFFICES ASSUME TypeOK, [Next]_vars PROVE TypeOK'
    OBVIOUS
  <2> USE MeasureAssumption
      DEF TypeOK, Points, Sides, params, sampling, pausing, history, results
  <2>1. CASE Check
    BY <2>1 DEF Check
  <2>2. CASE Initialize
    <3>1. m_cuda_times' \in Seq(1 .. MaxTrials) /\ fed' \in Seq(1 .. MaxTrials)
      BY <2>2 DEF Initialize
    <3>2. QED
      BY <2>2, <3>1 DEF Initialize
  <2>3. CASE Warmup
    <3>1. skipped' \in BOOLEAN /\ point' \in {"failed", "prologue"}
      BY <2>3 DEF Warmup
    <3>2. QED
      BY <2>3, <3>1 DEF Warmup
  <2>4. CASE NoWarmup
    BY <2>4 DEF NoWarmup
  <2>5. CASE Prologue
    BY <2>5 DEF Prologue
  <2>6. CASE Trial
    BY <2>6 DEF Trial
  <2>7. CASE LaunchThrows
    BY <2>7 DEF LaunchThrows
  <2>8. CASE Discard
    BY <2>8 DEF Discard, Growth
  <2>9. CASE Record
    <3>1. m_cuda_times' \in Seq(1 .. MaxTrials) /\ fed' \in Seq(1 .. MaxTrials)
      BY <2>9 DEF Record
    <3>2. converged' \in BOOLEAN
      BY <2>9 DEF Record
    <3>3. noise' \in Sides /\ time' \in Sides
      BY <2>9 DEF Record, Later
    <3>4. /\ m_total_samples' \in Nat /\ m_throttle_discard_count' \in Nat
          /\ point' = "finished?"
      BY <2>9 DEF Record
    <3>5. UNCHANGED <<params, clock, walltime, m_dynamic_throttle_recovery_delay,
                      m_max_time_exceeded, history, results>>
      BY <2>9 DEF Record
    <3>6. QED
      BY <3>1, <3>2, <3>3, <3>4, <3>5
  <2>10. CASE IsFinished
    <3>1. m_max_time_exceeded' \in BOOLEAN
      BY <2>10 DEF IsFinished
    <3>2. QED
      BY <2>10, <3>1 DEF IsFinished
  <2>11. CASE Epilogue
    BY <2>11 DEF Epilogue
  <2>12. CASE GenerateSummaries
    BY <2>12 DEF GenerateSummaries, TimeoutWarnings
  <2>13. CASE UNCHANGED vars
    BY <2>13 DEF vars
  <2>14. QED
    BY <2>1, <2>2, <2>3, <2>4, <2>5, <2>6, <2>7,
       <2>8, <2>9, <2>10, <2>11, <2>12, <2>13
    DEF Next
<1>3. QED
  BY <1>1, <1>2, PTL DEF Spec

-----------------------------------------------------------------------------
(***************************************************************************)
(* What is recorded.  Before the first trial nothing has been recorded or  *)
(* discarded; between a trial and record_measurements exactly the latest   *)
(* trial is undecided, so that neither branch can meet it again.           *)
(***************************************************************************)

\* Recording a trial adds it to the recorded trials and nothing else.
LEMMA RecordedGrows ==
  ASSUME m_cuda_times \in Seq(1 .. MaxTrials), trials \in 1 .. MaxTrials,
         m_cuda_times' = Append(m_cuda_times, trials)
  PROVE  Recorded' = Recorded \cup {trials}
<1>1. /\ Len(m_cuda_times) \in Nat
      /\ Len(m_cuda_times') = Len(m_cuda_times) + 1
      /\ \A k \in 1 .. Len(m_cuda_times) : m_cuda_times'[k] = m_cuda_times[k]
      /\ m_cuda_times'[Len(m_cuda_times) + 1] = trials
  OBVIOUS
<1>2. ASSUME NEW k
      PROVE  k \in 1 .. Len(m_cuda_times') <=>
             k \in 1 .. Len(m_cuda_times) \/ k = Len(m_cuda_times) + 1
  BY <1>1
<1>3. ASSUME NEW e
      PROVE  e \in Recorded' <=> e \in Recorded \/ e = trials
  <2>1. e \in Recorded' <=> \E k \in 1 .. Len(m_cuda_times') : e = m_cuda_times'[k]
    BY DEF Recorded
  <2>2. e \in Recorded <=> \E k \in 1 .. Len(m_cuda_times) : e = m_cuda_times[k]
    BY DEF Recorded
  <2>3. QED
    BY <1>1, <1>2, <2>1, <2>2, Zenon
<1>4. QED
  BY <1>3

BeforeTrials == point \in {"check", "initialize", "warmup", "prologue"}

SampleInv ==
  /\ DiscardedNeverSampled
  /\ BeforeTrials => trials = 0 /\ throttled = {}

\* SampleInv is inductive.
LEMMA SampleInvariant == Spec => []SampleInv
<1>1. Init => SampleInv
  BY DEF Init, SampleInv, DiscardedNeverSampled, Recorded
<1>2. TypeOK /\ SampleInv /\ [Next]_vars => SampleInv'
  <2> SUFFICES ASSUME TypeOK, SampleInv, [Next]_vars PROVE SampleInv'
    OBVIOUS
  <2> USE MeasureAssumption
      DEF TypeOK, SampleInv, DiscardedNeverSampled, BeforeTrials, Recorded,
          params, sampling, pausing, history, results
  <2>1. CASE Check
    BY <2>1 DEF Check
  <2>2. CASE Initialize
    BY <2>2 DEF Initialize
  <2>3. CASE Warmup
    BY <2>3 DEF Warmup
  <2>4. CASE NoWarmup
    BY <2>4 DEF NoWarmup
  <2>5. CASE Prologue
    BY <2>5 DEF Prologue
  <2>6. CASE Trial
    BY <2>6 DEF Trial
  <2>7. CASE LaunchThrows
    BY <2>7 DEF LaunchThrows
  <2>8. CASE Discard
    <3>1. /\ Recorded \cap throttled = {}
          /\ Recorded \cup throttled = 1 .. trials - 1
          /\ fed = m_cuda_times /\ m_total_samples = Len(m_cuda_times)
      BY <2>8 DEF Discard
    <3>2. /\ throttled' = throttled \cup {trials} /\ trials' = trials
          /\ point' = "finished?"
          /\ UNCHANGED <<fed, m_cuda_times, m_total_samples>>
      BY <2>8 DEF Discard
    <3> HIDE DEF Recorded
    <3>3. Recorded' = Recorded
      BY <3>2 DEF Recorded
    <3>4. trials \in Nat /\ trials # 0 /\ trials \notin 1 .. trials - 1
      BY <2>8 DEF Discard
    <3>5. Recorded' \cup throttled' = 1 .. trials'
      BY <3>1, <3>2, <3>3, <3>4
    <3>6. Recorded' \cap throttled' = {}
      BY <3>1, <3>2, <3>3, <3>4
    <3>7. QED
      BY <3>1, <3>2, <3>5, <3>6
  <2>9. CASE Record
    <3>1. /\ Recorded \cap throttled = {}
          /\ Recorded \cup throttled = 1 .. trials - 1
          /\ fed = m_cuda_times /\ m_total_samples = Len(m_cuda_times)
      BY <2>9 DEF Record
    <3>2. /\ throttled' = throttled /\ trials' = trials
          /\ point' = "finished?"
          /\ m_cuda_times' = Append(m_cuda_times, trials)
          /\ fed' = Append(fed, trials) /\ m_total_samples' = m_total_samples + 1
      BY <2>9 DEF Record
    <3> HIDE DEF Recorded
    <3>3. Len(m_cuda_times') = Len(m_cuda_times) + 1
      BY <3>2
    <3>4. Recorded' = Recorded \cup {trials}
      <4>1. m_cuda_times \in Seq(1 .. MaxTrials) /\ trials \in 1 .. MaxTrials
        BY <2>9 DEF Record
      <4>2. QED
        BY <3>2, <4>1, RecordedGrows
    <3>5. trials \in Nat /\ trials # 0 /\ trials \notin 1 .. trials - 1
      BY <2>9 DEF Record
    <3>6. Recorded' \cup throttled' = 1 .. trials'
      BY <3>1, <3>2, <3>4, <3>5
    <3>7. Recorded' \cap throttled' = {}
      BY <3>1, <3>2, <3>4, <3>5
    <3>8. fed' = m_cuda_times' /\ m_total_samples' = Len(m_cuda_times')
      BY <3>1, <3>2, <3>3
    <3>9. QED
      BY <3>2, <3>6, <3>7, <3>8
  <2>10. CASE IsFinished
    BY <2>10 DEF IsFinished
  <2>11. CASE Epilogue
    BY <2>11 DEF Epilogue
  <2>12. CASE GenerateSummaries
    BY <2>12 DEF GenerateSummaries
  <2>13. CASE UNCHANGED vars
    BY <2>13 DEF vars
  <2>14. QED
    BY <2>1, <2>2, <2>3, <2>4, <2>5, <2>6, <2>7,
       <2>8, <2>9, <2>10, <2>11, <2>12, <2>13
    DEF Next
<1>3. QED
  BY <1>1, <1>2, TypeCorrect, PTL DEF Spec

\* Whatever the parameters, a throttled trial is never among the samples, no
\* trial is lost, and the criterion sees the samples and nothing else.
THEOREM SamplesAreUnthrottled == Spec => []DiscardedNeverSampled
  BY SampleInvariant, PTL DEF SampleInv

-----------------------------------------------------------------------------
(***************************************************************************)
(* How long it takes.  A trial begins with the wall clock still within the *)
(* timeout, since is_finished has just read it; what is added until it is  *)
(* read again is that trial and at most one pause.                         *)
(***************************************************************************)

ClockInv ==
  /\ BeforeTrials \/ point = "trial" => clock <= m_timeout
  /\ point = "record" => clock <= m_timeout + LongestTrial
  /\ OvershootBounded

\* ClockInv is inductive.
LEMMA ClockInvariant == Spec => []ClockInv
<1>1. Init => ClockInv
  BY MeasureAssumption DEF Init, ClockInv, OvershootBounded
<1>2. TypeOK /\ ClockInv /\ [Next]_vars => ClockInv'
  <2> SUFFICES ASSUME TypeOK, ClockInv, [Next]_vars PROVE ClockInv'
    OBVIOUS
  <2> USE MeasureAssumption
      DEF TypeOK, ClockInv, OvershootBounded, BeforeTrials,
          params, sampling, pausing, history, results
  <2>1. CASE Check
    BY <2>1 DEF Check
  <2>2. CASE Initialize
    BY <2>2 DEF Initialize
  <2>3. CASE Warmup
    BY <2>3 DEF Warmup
  <2>4. CASE NoWarmup
    BY <2>4 DEF NoWarmup
  <2>5. CASE Prologue
    BY <2>5 DEF Prologue
  <2>6. CASE Trial
    BY <2>6 DEF Trial
  <2>7. CASE LaunchThrows
    BY <2>7 DEF LaunchThrows
  <2>8. CASE Discard
    BY <2>8 DEF Discard, Growth
  <2>9. CASE Record
    BY <2>9 DEF Record
  <2>10. CASE IsFinished
    BY <2>10 DEF IsFinished
  <2>11. CASE Epilogue
    BY <2>11 DEF Epilogue
  <2>12. CASE GenerateSummaries
    BY <2>12 DEF GenerateSummaries
  <2>13. CASE UNCHANGED vars
    BY <2>13 DEF vars
  <2>14. QED
    BY <2>1, <2>2, <2>3, <2>4, <2>5, <2>6, <2>7,
       <2>8, <2>9, <2>10, <2>11, <2>12, <2>13
    DEF Next
<1>3. QED
  BY <1>1, <1>2, TypeCorrect, PTL DEF Spec

\* Whatever the timeout and the recovery delay, a measurement overshoots its
\* timeout by at most one trial and one pause.
THEOREM TimeoutIsPrompt == Spec => []OvershootBounded
  BY ClockInvariant, PTL DEF ClockInv

-----------------------------------------------------------------------------
(***************************************************************************)
(* Why it ends.  A run-once measurement is in its first trial as long as   *)
(* it has not been asked whether it is finished; any other leaves the loop *)
(* only by the criterion or by the timeout flag, which stays down until    *)
(* then.                                                                   *)
(***************************************************************************)

AfterLoop == point \in {"epilogue", "summaries", "done"}

ReasonInv ==
  /\ m_run_once => ~m_check_throttling
  /\ BeforeTrials => trials = 0
  /\ point \in {"warmup", "prologue"} => m_total_samples = 0
  /\ m_run_once /\ point = "trial" => trials = 0 /\ m_total_samples = 0
  /\ m_run_once /\ point = "record" => trials = 1 /\ m_total_samples = 0
  /\ m_run_once /\ (point = "finished?" \/ AfterLoop) =>
       trials = 1 /\ m_total_samples = 1
  /\ m_max_time_exceeded => AfterLoop
  /\ ~m_run_once /\ AfterLoop /\ ~m_max_time_exceeded => EnoughSamples

\* ReasonInv is inductive.
LEMMA ReasonInvariant == Spec => []ReasonInv
<1>1. Init => ReasonInv
  BY MeasureAssumption DEF Init, ReasonInv, AfterLoop, BeforeTrials
<1>2. TypeOK /\ ReasonInv /\ [Next]_vars => ReasonInv'
  <2> SUFFICES ASSUME TypeOK, ReasonInv, [Next]_vars PROVE ReasonInv'
    OBVIOUS
  <2> USE MeasureAssumption
      DEF TypeOK, ReasonInv, AfterLoop, EnoughSamples, BeforeTrials,
          params, sampling, pausing, history, results
  <2>1. CASE Check
    BY <2>1 DEF Check
  <2>2. CASE Initialize
    BY <2>2 DEF Initialize
  <2>3. CASE Warmup
    BY <2>3 DEF Warmup
  <2>4. CASE NoWarmup
    BY <2>4 DEF NoWarmup
  <2>5. CASE Prologue
    BY <2>5 DEF Prologue
  <2>6. CASE Trial
    BY <2>6 DEF Trial
  <2>7. CASE LaunchThrows
    BY <2>7 DEF LaunchThrows
  <2>8. CASE Discard
    BY <2>8 DEF Discard
  <2>9. CASE Record
    BY <2>9 DEF Record
  <2>10. CASE IsFinished
    BY <2>10 DEF IsFinished
  <2>11. CASE Epilogue
    BY <2>11 DEF Epilogue
  <2>12. CASE GenerateSummaries
    BY <2>12 DEF GenerateSummaries
  <2>13. CASE UNCHANGED vars
    BY <2>13 DEF vars
  <2>14. QED
    BY <2>1, <2>2, <2>3, <2>4, <2>5, <2>6, <2>7,
       <2>8, <2>9, <2>10, <2>11, <2>12, <2>13
    DEF Next
<1>3. QED
  BY <1>1, <1>2, TypeCorrect, PTL DEF Spec

\* A measurement that did not time out has what it was asked for: more than
\* min_samples samples and a converged criterion, or its single trial.
THEOREM EndsAreJustified == Spec => []EndsForAReason
<1>1. ReasonInv => EndsForAReason
  BY DEF ReasonInv, EndsForAReason, AfterLoop, EnoughSamples
<1>2. QED
  BY <1>1, ReasonInvariant, PTL

-----------------------------------------------------------------------------
(***************************************************************************)
(* What is reported.  A measurement times out only when the criterion has  *)
(* not been met, the criterion's answer is the one for the noise and total *)
(* of the samples, and the warnings look at that same noise and total.     *)
(***************************************************************************)

ReportInv ==
  /\ MayAnswer(converged, noise, time)
  /\ m_total_samples = 0 => time = "below"
  /\ m_total_samples > 0 => noise # "nan"
  /\ m_max_time_exceeded => AfterLoop /\ ~EnoughSamples
  /\ point = "done" /\ m_max_time_exceeded => warnings = TimeoutWarnings

\* ReportInv is inductive.
LEMMA ReportInvariant == Spec => []ReportInv
<1>1. Init => ReportInv
  BY MeasureAssumption DEF Init, ReportInv, MayAnswer
<1>2. TypeOK /\ ReportInv /\ [Next]_vars => ReportInv'
  <2> SUFFICES ASSUME TypeOK, ReportInv, [Next]_vars PROVE ReportInv'
    OBVIOUS
  <2> USE MeasureAssumption
      DEF TypeOK, ReportInv, AfterLoop, EnoughSamples, MayAnswer, TimeoutWarnings,
          params, sampling, pausing, history, results
  <2>1. CASE Check
    BY <2>1 DEF Check
  <2>2. CASE Initialize
    BY <2>2 DEF Initialize
  <2>3. CASE Warmup
    BY <2>3 DEF Warmup
  <2>4. CASE NoWarmup
    BY <2>4 DEF NoWarmup
  <2>5. CASE Prologue
    BY <2>5 DEF Prologue
  <2>6. CASE Trial
    BY <2>6 DEF Trial
  <2>7. CASE LaunchThrows
    BY <2>7 DEF LaunchThrows
  <2>8. CASE Discard
    BY <2>8 DEF Discard
  <2>9. CASE Record
    <3>1. MayAnswer(converged, noise, time)'
      <4>1. PICK answer \in BOOLEAN :
                   MayAnswer(answer, noise', time') /\ converged' = answer
        BY <2>9 DEF Record
      <4>2. criterion' = criterion
        BY <2>9 DEF Record
      <4>3. QED
        BY <4>1, <4>2
    <3>2. m_total_samples' > 0 /\ m_total_samples' # 0 /\ noise' # "nan"
      BY <2>9 DEF Record, Sides
    <3>3. ~m_max_time_exceeded' /\ point' = "finished?"
      BY <2>9 DEF Record
    <3>4. QED
      BY <3>1, <3>2, <3>3
  <2>10. CASE IsFinished
    BY <2>10 DEF IsFinished
  <2>11. CASE Epilogue
    BY <2>11 DEF Epilogue
  <2>12. CASE GenerateSummaries
    BY <2>12 DEF GenerateSummaries
  <2>13. CASE UNCHANGED vars
    BY <2>13 DEF vars
  <2>14. QED
    BY <2>1, <2>2, <2>3, <2>4, <2>5, <2>6, <2>7,
       <2>8, <2>9, <2>10, <2>11, <2>12, <2>13
    DEF Next
<1>3. QED
  BY <1>1, <1>2, TypeCorrect, PTL DEF Spec

\* With the stdrel criterion a timeout passes in silence only when the number
\* of samples, their total or their noise is exactly on its limit.
THEOREM TimeoutsAreReported == Spec => []SilentTimeoutOnBoundary
<1>1. TypeOK /\ ReportInv => SilentTimeoutOnBoundary
  <2> SUFFICES ASSUME TypeOK, ReportInv,
                      point = "done", m_max_time_exceeded,
                      warnings = {}, criterion = "stdrel"
               PROVE  m_total_samples = m_min_samples \/ time = "at" \/ noise = "at"
    BY DEF SilentTimeoutOnBoundary
  <2>1. "noise" \notin TimeoutWarnings /\ "min_samples" \notin TimeoutWarnings
          /\ "min_time" \notin TimeoutWarnings
    BY DEF ReportInv
  <2>2. noise # "above" /\ ~(m_total_samples < m_min_samples) /\ time # "below"
    BY <2>1 DEF TimeoutWarnings
  <2>3. ~(m_total_samples > m_min_samples) \/ ~converged
    BY DEF ReportInv, EnoughSamples
  <2>4. CASE ~(m_total_samples > m_min_samples)
    <3>1. m_total_samples \in Nat /\ m_min_samples \in Nat
      BY MeasureAssumption DEF TypeOK
    <3>2. QED
      BY <2>2, <2>4, <3>1
  <2>5. CASE ~converged
    <3>1. ~(time = "above" /\ noise = "below")
      BY <2>5 DEF ReportInv, MayAnswer
    <3>2. m_total_samples \in Nat /\ m_total_samples # 0
      BY <2>2 DEF ReportInv, TypeOK
    <3>3. noise # "nan"
      BY <3>2 DEF ReportInv
    <3>4. QED
      BY <2>2, <3>1, <3>3 DEF TypeOK, Sides
  <2>6. QED
    BY <2>3, <2>4, <2>5
<1>2. QED
  BY <1>1, ReportInvariant, TypeCorrect, PTL

-----------------------------------------------------------------------------
(***************************************************************************)
(* What is left behind.                                                    *)
(***************************************************************************)

PartialInv ==
  /\ BeforeTrials => trials = 0
  /\ skipped => point = "failed" /\ trials = 0
  /\ summarised => point = "done"

\* PartialInv is inductive.
LEMMA PartialInvariant == Spec => []PartialInv
<1>1. Init => PartialInv
  BY DEF Init, PartialInv
<1>2. TypeOK /\ PartialInv /\ [Next]_vars => PartialInv'
  <2> SUFFICES ASSUME TypeOK, PartialInv, [Next]_vars PROVE PartialInv'
    OBVIOUS
  <2> USE MeasureAssumption
      DEF TypeOK, PartialInv, BeforeTrials,
          params, sampling, pausing, history, results
  <2>1. CASE Check
    BY <2>1 DEF Check
  <2>2. CASE Initialize
    BY <2>2 DEF Initialize
  <2>3. CASE Warmup
    BY <2>3 DEF Warmup
  <2>4. CASE NoWarmup
    BY <2>4 DEF NoWarmup
  <2>5. CASE Prologue
    BY <2>5 DEF Prologue
  <2>6. CASE Trial
    BY <2>6 DEF Trial
  <2>7. CASE LaunchThrows
    BY <2>7 DEF LaunchThrows
  <2>8. CASE Discard
    BY <2>8 DEF Discard
  <2>9. CASE Record
    BY <2>9 DEF Record
  <2>10. CASE IsFinished
    BY <2>10 DEF IsFinished
  <2>11. CASE Epilogue
    BY <2>11 DEF Epilogue
  <2>12. CASE GenerateSummaries
    BY <2>12 DEF GenerateSummaries
  <2>13. CASE UNCHANGED vars
    BY <2>13 DEF vars
  <2>14. QED
    BY <2>1, <2>2, <2>3, <2>4, <2>5, <2>6, <2>7,
       <2>8, <2>9, <2>10, <2>11, <2>12, <2>13
    DEF Next
<1>3. QED
  BY <1>1, <1>2, TypeCorrect, PTL DEF Spec

\* A skipped or abandoned measurement has no summaries.
THEOREM ResultsAreComplete == Spec => []NoPartialResults
<1>1. PartialInv => NoPartialResults
  BY DEF PartialInv, NoPartialResults
<1>2. QED
  BY <1>1, PartialInvariant, PTL

-----------------------------------------------------------------------------
(* The blocking kernel                                                     *)


\* Every variable keeps its type in every reachable state of the protocol.
THEOREM KernelTypeCorrect == KernelSpec => []KernelTypeOK
<1> USE ConstantsAssumption
    DEF KernelTypeOK, HostPoints, KernelPoints, config, trialVars, flagVars,
        kernelVars, workVars
<1>1. KernelInit => KernelTypeOK
  <2> SUFFICES ASSUME KernelInit PROVE KernelTypeOK
    OBVIOUS
  <2>1. /\ called \in BOOLEAN /\ early \in BOOLEAN
        /\ pendingStore \in BOOLEAN /\ registered \in BOOLEAN
    BY DEF KernelInit
  <2>2. QED
    BY <2>1 DEF KernelInit
<1>2. KernelTypeOK /\ [KernelNext]_blockingVars => KernelTypeOK'
  <2> SUFFICES ASSUME KernelTypeOK, [KernelNext]_blockingVars PROVE KernelTypeOK'
    OBVIOUS
  <2>1. CASE Start
    <3>1. called' \in BOOLEAN /\ early' \in BOOLEAN
      BY <2>1 DEF Start
    <3>2. QED
      BY <2>1, <3>1 DEF Start
  <2>2. CASE ResetFlag
    BY <2>2 DEF ResetFlag
  <2>3. CASE ResetTimeoutFlag
    BY <2>3 DEF ResetTimeoutFlag
  <2>4. CASE LaunchKernel
    BY <2>4 DEF LaunchKernel
  <2>5. CASE SubmitWork
    BY <2>5 DEF SubmitWork
  <2>6. CASE LauncherSync
    BY <2>6 DEF LauncherSync
  <2>7. CASE LauncherThrows
    BY <2>7 DEF LauncherThrows
  <2>8. CASE LauncherReturns
    BY <2>8 DEF LauncherReturns
  <2>9. CASE StoreFlag
    BY <2>9 DEF StoreFlag
  <2>10. CASE ReadTimeoutFlag
    BY <2>10 DEF ReadTimeoutFlag
  <2>11. CASE FinalSync
    BY <2>11 DEF FinalSync
  <2>12. CASE NextTrial
    BY <2>12 DEF NextTrial
  <2>13. CASE Destroy
    BY <2>13 DEF Destroy
  <2>14. CASE StoreDrains
    <3>1. pendingStore' \in BOOLEAN
      BY <2>14 DEF StoreDrains
    <3>2. QED
      BY <2>14, <3>1 DEF StoreDrains
  <2>15. CASE KernelStarts
    BY <2>15 DEF KernelStarts
  <2>16. CASE KernelChecks
    BY <2>16 DEF KernelChecks
  <2>17. CASE KernelSamples
    BY <2>17 DEF KernelSamples
  <2>18. CASE KernelExits
    BY <2>18 DEF KernelExits
  <2>19. CASE KernelReports
    BY <2>19 DEF KernelReports
  <2>20. CASE Tick
    BY <2>20 DEF Tick
  <2>21. CASE WorkRuns
    BY <2>21 DEF WorkRuns
  <2>22. CASE UNCHANGED blockingVars
    BY <2>22 DEF blockingVars
  <2>23. QED
    BY <2>1, <2>2, <2>3, <2>4, <2>5, <2>6, <2>7, <2>8, <2>9,
       <2>10, <2>11, <2>12, <2>13, <2>14, <2>15, <2>16, <2>17, <2>18,
       <2>19, <2>20, <2>21, <2>22
    DEF KernelNext, HostStep, KernelStep, Terminated
<1>3. QED
  BY <1>1, <1>2, PTL DEF KernelSpec

-----------------------------------------------------------------------------
(***************************************************************************)
(* Why a recorded trial was gated.  While the launcher runs behind the     *)
(* blocking kernel nothing can raise the flag: block() cleared it, and the *)
(* store of an earlier unblock() has drained.  The kernel can therefore    *)
(* leave its loop only past its timeout point, and then it raises the      *)
(* timeout flag before it ends.  An entry that runs before unblock() is    *)
(* entered runs after the kernel ended, so it finds the timeout flag up;   *)
(* the flag stays up until unblock() reads it and throws.                  *)
(***************************************************************************)

\* Points of the host thread between the launch of the kernel and unblock().
Held == {"submit", "launcherSync", "stop"}

\* Before the launch the trial is empty and no earlier store is in flight.
BeforeLaunch ==
  /\ host \in {"resetFlag", "resetTimeoutFlag", "launch"} =>
       blocking /\ ~pendingStore /\ ~called /\ queued = 0 /\ ran = 0
  /\ host \in {"resetTimeoutFlag", "launch"} => flag = 0
  /\ host = "start" => ran = queued

\* While the trial is held the flag is down, so a kernel that has left its
\* loop is past its timeout point, and one that has ended has reported it.
TimedOutIfEnded ==
  blocking /\ host \in Held =>
    /\ flag = 0 /\ ~called /\ ~pendingStore
    /\ kernel # "none"
    /\ kernel = "exit" => PastTimeoutPoint
    /\ kernel \in {"report", "done"} => timeoutFlag = 1

\* Past stop() with the gate in use, unblock() has been entered.
UnblockEntered ==
  blocking /\ host \in {"readTimeout", "finalSync"} => called

\* An entry that ran too early is known to unblock().
EarlyIsReported ==
  early =>
    /\ blocking
    /\ host \in Held \union {"readTimeout"} =>
         kernel = "done" /\ timeoutFlag = 1
    /\ host \in Held \union {"readTimeout", "unwinding", "destroyed"}

\* An accepted trial has nothing left to run.
AcceptedIsOver ==
  /\ outcome = "accepted" =>
       ~early /\ ran = queued /\ host \in {"recorded", "start", "destroyed"}
  /\ host = "recorded" => ran = queued /\ ~early
  /\ registered \/ host = "destroyed"

GateInv == BeforeLaunch /\ TimedOutIfEnded /\ UnblockEntered
           /\ EarlyIsReported /\ AcceptedIsOver

\* While work is held the flag is down, so that only a timeout, reported before
\* the kernel ends, lets work run early: GateInv is inductive.
LEMMA GateInvariant == KernelSpec => []GateInv
<1>1. KernelInit => GateInv
  BY DEF KernelInit, GateInv, BeforeLaunch, TimedOutIfEnded, UnblockEntered,
         EarlyIsReported, AcceptedIsOver, Held
<1>2. KernelTypeOK /\ GateInv /\ [KernelNext]_blockingVars => GateInv'
  <2> SUFFICES ASSUME KernelTypeOK, GateInv, [KernelNext]_blockingVars PROVE GateInv'
    OBVIOUS
  <2> USE DEF BeforeLaunch, TimedOutIfEnded, UnblockEntered, EarlyIsReported,
              AcceptedIsOver, GateInv, Held, PastTimeoutPoint, config,
              trialVars, flagVars, kernelVars, workVars
  <2>1. CASE Start
    BY <2>1 DEF Start, StreamIdle
  <2>2. CASE ResetFlag
    BY <2>2 DEF ResetFlag
  <2>3. CASE ResetTimeoutFlag
    BY <2>3 DEF ResetTimeoutFlag
  <2>4. CASE LaunchKernel
    BY <2>4 DEF LaunchKernel
  <2>5. CASE SubmitWork
    BY <2>5 DEF SubmitWork
  <2>6. CASE LauncherSync
    BY <2>6 DEF LauncherSync, StreamIdle
  <2>7. CASE LauncherThrows
    BY <2>7 DEF LauncherThrows
  <2>8. CASE LauncherReturns
    BY <2>8 DEF LauncherReturns
  <2>9. CASE StoreFlag
    BY <2>9 DEF StoreFlag
  <2>10. CASE ReadTimeoutFlag
    BY <2>10 DEF ReadTimeoutFlag
  <2>11. CASE FinalSync
    BY <2>11 DEF FinalSync, StreamIdle
  <2>12. CASE NextTrial
    BY <2>12 DEF NextTrial
  <2>13. CASE Destroy
    BY <2>13 DEF Destroy
  <2>14. CASE StoreDrains
    BY <2>14 DEF StoreDrains
  <2>15. CASE KernelStarts
    BY <2>15 DEF KernelStarts
  <2>16. CASE KernelChecks
    BY <2>16 DEF KernelChecks, FlagRead, MayKeepWaiting
  <2>17. CASE KernelSamples
    BY <2>17 DEF KernelSamples
  <2>18. CASE KernelExits
    BY <2>18 DEF KernelExits
  <2>19. CASE KernelReports
    BY <2>19 DEF KernelReports
  <2>20. CASE Tick
    BY <2>20 DEF Tick
  <2>21. CASE WorkRuns
    <3>1. early' => early \/ (blocking /\ ~called)
      BY <2>21, Zenon DEF WorkRuns
    <3>2. blocking /\ ~called => host \in Held \union {"unwinding", "destroyed"}
      BY <2>21 DEF WorkRuns, KernelTypeOK, HostPoints
    <3>3. UNCHANGED <<config, host, trialVars, flagVars, kernelVars, queued>>
      BY <2>21, Zenon DEF WorkRuns
    <3>4. BeforeLaunch'
      BY <2>21, ConstantsAssumption DEF WorkRuns, KernelTypeOK
    <3>5. TimedOutIfEnded' /\ UnblockEntered'
      BY <3>3, Zenon
    <3>6. EarlyIsReported'
      BY <2>21, <3>1, <3>2, <3>3 DEF WorkRuns
    <3>7. AcceptedIsOver'
      BY <2>21, <3>1, <3>2, ConstantsAssumption DEF WorkRuns, KernelTypeOK
    <3>8. QED
      BY <3>4, <3>5, <3>6, <3>7
  <2>22. CASE UNCHANGED blockingVars
    BY <2>22 DEF blockingVars
  <2>23. QED
    BY <2>1, <2>2, <2>3, <2>4, <2>5, <2>6, <2>7, <2>8, <2>9,
       <2>10, <2>11, <2>12, <2>13, <2>14, <2>15, <2>16, <2>17, <2>18,
       <2>19, <2>20, <2>21, <2>22
    DEF KernelNext, HostStep, KernelStep, Terminated
<1>3. QED
  BY <1>1, <1>2, KernelTypeCorrect, PTL DEF KernelSpec

\* A trial is recorded only if everything it submitted was held back until
\* the host was in unblock(), whatever the timeout, the launcher and the
\* order in which the host, the kernel and the store buffer take their steps.
THEOREM RecordedTrialsWereGated == KernelSpec => []RecordedTrialWasGated
<1>1. GateInv => RecordedTrialWasGated
  BY DEF GateInv, AcceptedIsOver, RecordedTrialWasGated
<1>2. QED
  BY <1>1, GateInvariant, PTL

-----------------------------------------------------------------------------
(***************************************************************************)
(* Why a timeout is genuine.  The timeout flag that unblock() reads was    *)
(* cleared for this trial while no kernel was running, so only this        *)
(* trial's kernel can have raised it, and it does so only past its own     *)
(* timeout point.                                                          *)
(***************************************************************************)

\* No kernel is running while block() resets the flags, and the timeout flag
\* is down when the kernel is launched.
QuietReset ==
  /\ host \in {"resetFlag", "resetTimeoutFlag", "launch"} =>
       kernel \in {"none", "done"}
  /\ host = "launch" => timeoutFlag = 0

\* From the launch to the load in unblock() a raised flag is this kernel's.
FlagIsThisTrials ==
  /\ blocking /\ host \in Held \union {"readTimeout"} /\ timeoutFlag = 1 =>
       kernel \in {"report", "done"} /\ PastTimeoutPoint
  /\ host \in {"stop", "readTimeout"} => blocking

RejectedPastDeadline ==
  outcome = "timeout" =>
    /\ kernel \in {"report", "done"} /\ PastTimeoutPoint
    /\ host \in {"unwinding", "destroyed"}

GenuineInv ==
  sampled <= elapsed /\ QuietReset /\ FlagIsThisTrials /\ RejectedPastDeadline

\* A raised timeout flag is always this trial's: GenuineInv is inductive.
LEMMA GenuineInvariant == KernelSpec => []GenuineInv
<1>1. KernelInit => GenuineInv
  BY DEF KernelInit, GenuineInv, QuietReset, FlagIsThisTrials, RejectedPastDeadline,
         Held
<1>2. KernelTypeOK /\ GenuineInv /\ [KernelNext]_blockingVars => GenuineInv'
  <2> SUFFICES ASSUME KernelTypeOK, GenuineInv, [KernelNext]_blockingVars PROVE GenuineInv'
    OBVIOUS
  <2> USE ConstantsAssumption
      DEF GenuineInv, QuietReset, FlagIsThisTrials, RejectedPastDeadline,
          Held, PastTimeoutPoint, KernelTypeOK, config, trialVars, flagVars,
          kernelVars, workVars
  <2>1. CASE Start
    BY <2>1 DEF Start, StreamIdle
  <2>2. CASE ResetFlag
    BY <2>2 DEF ResetFlag
  <2>3. CASE ResetTimeoutFlag
    BY <2>3 DEF ResetTimeoutFlag
  <2>4. CASE LaunchKernel
    BY <2>4 DEF LaunchKernel
  <2>5. CASE SubmitWork
    BY <2>5 DEF SubmitWork
  <2>6. CASE LauncherSync
    BY <2>6 DEF LauncherSync, StreamIdle
  <2>7. CASE LauncherThrows
    BY <2>7 DEF LauncherThrows
  <2>8. CASE LauncherReturns
    BY <2>8 DEF LauncherReturns
  <2>9. CASE StoreFlag
    BY <2>9 DEF StoreFlag
  <2>10. CASE ReadTimeoutFlag
    BY <2>10 DEF ReadTimeoutFlag
  <2>11. CASE FinalSync
    BY <2>11 DEF FinalSync, StreamIdle
  <2>12. CASE NextTrial
    BY <2>12 DEF NextTrial
  <2>13. CASE Destroy
    BY <2>13 DEF Destroy
  <2>14. CASE StoreDrains
    BY <2>14 DEF StoreDrains
  <2>15. CASE KernelStarts
    BY <2>15 DEF KernelStarts
  <2>16. CASE KernelChecks
    BY <2>16 DEF KernelChecks, FlagRead, MayKeepWaiting
  <2>17. CASE KernelSamples
    BY <2>17 DEF KernelSamples
  <2>18. CASE KernelExits
    BY <2>18 DEF KernelExits
  <2>19. CASE KernelReports
    BY <2>19 DEF KernelReports
  <2>20. CASE Tick
    BY <2>20 DEF Tick
  <2>21. CASE WorkRuns
    BY <2>21 DEF WorkRuns
  <2>22. CASE UNCHANGED blockingVars
    BY <2>22 DEF blockingVars
  <2>23. QED
    BY <2>1, <2>2, <2>3, <2>4, <2>5, <2>6, <2>7, <2>8, <2>9,
       <2>10, <2>11, <2>12, <2>13, <2>14, <2>15, <2>16, <2>17, <2>18,
       <2>19, <2>20, <2>21, <2>22
    DEF KernelNext, HostStep, KernelStep, Terminated
<1>3. QED
  BY <1>1, <1>2, KernelTypeCorrect, PTL DEF KernelSpec

\* With a non-negative timeout unblock() reports a deadlock only after the
\* kernel of that trial has spun for the whole timeout.
THEOREM TimeoutsAreGenuine == KernelSpec => []TimeoutIsGenuine
<1>1. KernelTypeOK /\ GenuineInv => TimeoutIsGenuine
  BY ConstantsAssumption
  DEF KernelTypeOK, GenuineInv, RejectedPastDeadline, PastTimeoutPoint,
      TimeoutIsGenuine
<1>2. QED
  BY <1>1, GenuineInvariant, KernelTypeCorrect, PTL

-----------------------------------------------------------------------------
(***************************************************************************)
(* When the flags outlive the kernel.  The destructor runs after the last  *)
(* trial, which waited for the stream, or while a detected timeout unwinds *)
(* the measurement, when the kernel has left its loop, or while an         *)
(* exception of the launcher unwinds it, before anything released it.      *)
(***************************************************************************)

MemoryInv ==
  /\ registered \/ host = "destroyed"
  /\ host = "recorded" => kernel \in {"none", "done"}
  /\ host \in {"unwinding", "destroyed"} /\ outcome # "error" =>
       kernel \in {"none", "report", "done"}
  /\ host = "submit" \/ outcome = "error" => ~called
  /\ outcome = "error" => host \in {"unwinding", "destroyed"}
  /\ host \in {"resetFlag", "resetTimeoutFlag", "launch"} => blocking /\ ~called
  /\ host = "launcherSync" => ~called
  /\ kernel # "none" => blocking

\* For every timeout and every launcher: when the flags are unmapped, the
\* kernel is past its last access to them, or it has been launched and never
\* released because the launcher threw.
THEOREM FlagsOutliveTheKernel == KernelSpec => []FlagsOutliveKernel
<1>1. KernelInit => MemoryInv
  BY DEF KernelInit, MemoryInv
<1>2. KernelTypeOK /\ GenuineInv /\ MemoryInv /\ [KernelNext]_blockingVars => MemoryInv'
  <2> SUFFICES ASSUME KernelTypeOK, GenuineInv, MemoryInv, [KernelNext]_blockingVars
               PROVE  MemoryInv'
    OBVIOUS
  <2> USE DEF MemoryInv, KernelTypeOK, config, trialVars, flagVars, kernelVars, workVars
  <2>1. CASE FinalSync
    BY <2>1 DEF FinalSync, StreamIdle
  <2>2. CASE ReadTimeoutFlag
    BY <2>2 DEF ReadTimeoutFlag, GenuineInv, FlagIsThisTrials, Held
  <2>3. CASE LauncherThrows
    BY <2>3 DEF LauncherThrows
  <2>4. CASE NextTrial \/ Destroy
    BY <2>4 DEF NextTrial, Destroy
  <2>5. CASE Start \/ ResetFlag \/ ResetTimeoutFlag \/ LaunchKernel
    BY <2>5 DEF Start, ResetFlag, ResetTimeoutFlag, LaunchKernel
  <2>6. CASE SubmitWork \/ LauncherSync \/ LauncherReturns \/ StoreFlag
    BY <2>6 DEF SubmitWork, LauncherSync, LauncherReturns, StoreFlag
  <2>7. CASE KernelStep
    BY <2>7
    DEF KernelStep, KernelStarts, KernelChecks, KernelSamples, KernelExits,
        KernelReports
  <2>8. CASE StoreDrains \/ Tick \/ WorkRuns
    BY <2>8 DEF StoreDrains, Tick, WorkRuns
  <2>9. CASE UNCHANGED blockingVars
    BY <2>9 DEF blockingVars
  <2>10. QED
    BY <2>1, <2>2, <2>3, <2>4, <2>5, <2>6, <2>7, <2>8, <2>9
    DEF KernelNext, HostStep, Terminated
<1>3. MemoryInv => FlagsOutliveKernel
  BY DEF MemoryInv, FlagsOutliveKernel
<1>4. QED
  BY <1>1, <1>2, <1>3, GenuineInvariant, KernelTypeCorrect, PTL DEF KernelSpec

-----------------------------------------------------------------------------
(***************************************************************************)
(* The implementation of TrialGate.  A step of the host, the kernel or the *)
(* work maps to one step of the gate or leaves it unchanged.  The mapping  *)
(* needs to know which outcome goes with which point of the host, and that *)
(* work that began before unblock() was recorded as early.                 *)
(***************************************************************************)

OutcomeOfHost ==
  /\ host = "start" => \/ outcome = "accepted"
                       \/ outcome = "none" /\ ~called /\ ran = 0
  /\ host = "recorded" => outcome = "accepted"
  /\ host \in {"resetFlag", "resetTimeoutFlag", "launch"} \union Held
              \union {"readTimeout", "finalSync"} => outcome = "none"

BegunIsKnown ==
  /\ ran > 0 /\ blocking /\ ~called => early
  /\ called => blocking
  /\ host \in {"stop", "readTimeout", "finalSync"} => queued = Launches
  /\ blocking /\ host \in Held => ~called
  /\ host \in {"stop", "readTimeout"} => blocking
  /\ early => ran > 0

MapInv == OutcomeOfHost /\ BegunIsKnown

\* The host's position, the latest outcome and whether work has begun go
\* together as the refinement mapping needs: MapInv is inductive.
LEMMA MapInvariant == KernelSpec => [](KernelTypeOK /\ GateInv /\ MapInv)
<1>1. KernelInit => MapInv
  BY DEF KernelInit, MapInv, OutcomeOfHost, BegunIsKnown, Held
<1>2. KernelTypeOK /\ GateInv /\ MapInv /\ [KernelNext]_blockingVars => MapInv'
  <2> SUFFICES ASSUME KernelTypeOK, GateInv, MapInv, [KernelNext]_blockingVars PROVE MapInv'
    OBVIOUS
  <2> USE ConstantsAssumption
      DEF MapInv, OutcomeOfHost, BegunIsKnown, Held, KernelTypeOK, config,
          trialVars, flagVars, kernelVars, workVars
  <2>1. CASE Start
    BY <2>1 DEF Start, StreamIdle
  <2>2. CASE ResetFlag
    BY <2>2 DEF ResetFlag
  <2>3. CASE ResetTimeoutFlag
    BY <2>3 DEF ResetTimeoutFlag
  <2>4. CASE LaunchKernel
    BY <2>4 DEF LaunchKernel, GateInv, BeforeLaunch
  <2>5. CASE SubmitWork
    BY <2>5 DEF SubmitWork
  <2>6. CASE LauncherSync
    BY <2>6 DEF LauncherSync, StreamIdle
  <2>7. CASE LauncherThrows
    BY <2>7 DEF LauncherThrows
  <2>8. CASE LauncherReturns
    BY <2>8 DEF LauncherReturns
  <2>9. CASE StoreFlag
    BY <2>9 DEF StoreFlag
  <2>10. CASE ReadTimeoutFlag
    BY <2>10 DEF ReadTimeoutFlag
  <2>11. CASE FinalSync
    BY <2>11 DEF FinalSync, StreamIdle
  <2>12. CASE NextTrial
    BY <2>12 DEF NextTrial
  <2>13. CASE Destroy
    BY <2>13 DEF Destroy
  <2>14. CASE StoreDrains
    BY <2>14 DEF StoreDrains
  <2>15. CASE KernelStarts
    BY <2>15 DEF KernelStarts
  <2>16. CASE KernelChecks
    BY <2>16 DEF KernelChecks, FlagRead, MayKeepWaiting
  <2>17. CASE KernelSamples
    BY <2>17 DEF KernelSamples
  <2>18. CASE KernelExits
    BY <2>18 DEF KernelExits
  <2>19. CASE KernelReports
    BY <2>19 DEF KernelReports
  <2>20. CASE Tick
    BY <2>20 DEF Tick
  <2>21. CASE WorkRuns
    <3>1. OutcomeOfHost'
      BY <2>21 DEF WorkRuns, GateInv, BeforeLaunch
    <3>2. early' <=> early \/ (blocking /\ ~called)
      BY <2>21, Zenon DEF WorkRuns
    <3>3. BegunIsKnown'
      BY <2>21, <3>2 DEF WorkRuns
    <3>4. QED
      BY <3>1, <3>3
  <2>22. CASE UNCHANGED blockingVars
    BY <2>22 DEF blockingVars
  <2>23. QED
    BY <2>1, <2>2, <2>3, <2>4, <2>5, <2>6, <2>7, <2>8, <2>9,
       <2>10, <2>11, <2>12, <2>13, <2>14, <2>15, <2>16, <2>17, <2>18,
       <2>19, <2>20, <2>21, <2>22
    DEF KernelNext, HostStep, KernelStep, Terminated
<1>3. QED
  BY <1>1, <1>2, GateInvariant, KernelTypeCorrect, PTL DEF KernelSpec

\* The flags, the device kernel and the host implement the gate.
THEOREM KernelImplementsGate == KernelSpec => ImplementsGate
<1>1. KernelInit => Gate!Init
  BY ConstantsAssumption DEF KernelInit, Gate!Init, WorkBegun
<1>2. /\ KernelTypeOK /\ GateInv /\ MapInv /\ [KernelNext]_blockingVars
      => [Gate!Next]_Gate!vars
  <2> SUFFICES ASSUME KernelTypeOK, GateInv, MapInv, [KernelNext]_blockingVars
               PROVE  [Gate!Next]_Gate!vars
    OBVIOUS
  <2> USE ConstantsAssumption
      DEF MapInv, OutcomeOfHost, BegunIsKnown, Held, KernelTypeOK, WorkBegun,
          Gate!vars, Gate!Next, config, trialVars, flagVars, kernelVars,
          workVars
  <2>1. CASE Start
    <3>1. CASE outcome = "accepted"
      <4>1. Gate!Arm
        BY <2>1, <3>1 DEF Start, Gate!Arm
      <4>2. QED
        BY <4>1
    <3>2. CASE outcome = "none"
      BY <2>1, <3>2 DEF Start
    <3>3. QED
      BY <2>1, <3>1, <3>2 DEF Start
  <2>2. CASE ResetFlag
    BY <2>2 DEF ResetFlag
  <2>3. CASE ResetTimeoutFlag
    BY <2>3 DEF ResetTimeoutFlag
  <2>4. CASE LaunchKernel
    BY <2>4 DEF LaunchKernel
  <2>5. CASE SubmitWork
    BY <2>5 DEF SubmitWork
  <2>6. CASE LauncherSync
    BY <2>6 DEF LauncherSync, StreamIdle
  <2>7. CASE LauncherThrows
    <3>1. Gate!Abandon
      BY <2>7 DEF LauncherThrows, Gate!Abandon
    <3>2. QED
      BY <3>1
  <2>8. CASE LauncherReturns
    BY <2>8 DEF LauncherReturns
  <2>9. CASE StoreFlag
    <3>1. Gate!Open
      BY <2>9 DEF StoreFlag, Gate!Open
    <3>2. QED
      BY <3>1
  <2>10. CASE ReadTimeoutFlag
    <3>1. CASE timeoutFlag = 1
      <4>1. Gate!Reject
        BY <2>10, <3>1 DEF ReadTimeoutFlag, Gate!Reject, GateInv, UnblockEntered
      <4>2. QED
        BY <4>1
    <3>2. CASE timeoutFlag # 1
      BY <2>10, <3>2 DEF ReadTimeoutFlag
    <3>3. QED
      BY <3>1, <3>2
  <2>11. CASE FinalSync
    <3>1. Gate!Accept
      BY <2>11 DEF FinalSync, StreamIdle, Gate!Accept, GateInv, UnblockEntered,
               EarlyIsReported
    <3>2. QED
      BY <3>1
  <2>12. CASE NextTrial
    BY <2>12 DEF NextTrial
  <2>13. CASE Destroy
    BY <2>13 DEF Destroy
  <2>14. CASE StoreDrains
    BY <2>14 DEF StoreDrains
  <2>15. CASE KernelStarts
    BY <2>15 DEF KernelStarts
  <2>16. CASE KernelChecks
    BY <2>16 DEF KernelChecks, FlagRead, MayKeepWaiting
  <2>17. CASE KernelSamples
    BY <2>17 DEF KernelSamples
  <2>18. CASE KernelExits
    BY <2>18 DEF KernelExits
  <2>19. CASE KernelReports
    BY <2>19 DEF KernelReports
  <2>20. CASE Tick
    BY <2>20 DEF Tick
  <2>21. CASE WorkRuns
    <3>1. early' <=> early \/ (blocking /\ ~called)
      BY <2>21, Zenon DEF WorkRuns
    <3>2. CASE ran = 0
      <4>1. Gate!Begin
        BY <2>21, <3>1, <3>2 DEF WorkRuns, Gate!Begin, GateInv, EarlyIsReported,
                            AcceptedIsOver
      <4>2. QED
        BY <4>1
    <3>3. CASE ran # 0
      BY <2>21, <3>1, <3>3 DEF WorkRuns
    <3>4. QED
      BY <3>2, <3>3
  <2>22. CASE UNCHANGED blockingVars
    BY <2>22 DEF blockingVars
  <2>23. QED
    BY <2>1, <2>2, <2>3, <2>4, <2>5, <2>6, <2>7, <2>8, <2>9,
       <2>10, <2>11, <2>12, <2>13, <2>14, <2>15, <2>16, <2>17, <2>18,
       <2>19, <2>20, <2>21, <2>22
    DEF KernelNext, HostStep, KernelStep, Terminated
<1>3. QED
  BY <1>1, <1>2, MapInvariant, PTL DEF KernelSpec, ImplementsGate, Gate!Spec

=============================================================================
