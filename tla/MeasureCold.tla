---------------------------- MODULE MeasureCold ----------------------------
(***************************************************************************)
(* One isolated ("cold") measurement of a state: measure_cold and          *)
(* measure_cold_base (detail/measure_cold.cuh, detail/measure_cold.cu).    *)
(*                                                                         *)
(* The wall clock counts ticks since m_walltime_timer.start(); it advances *)
(* in trials, each at least one tick long, and in cool-down pauses.  A     *)
(* trial is known by its number: m_cuda_times holds the numbers of the     *)
(* trials whose time was recorded.                                         *)
(*                                                                         *)
(* The stopping criterion is seen through what the measurement can tell:   *)
(* where the noise of the recorded times and their total lie relative to   *)
(* max-noise and min-time, and the answer of is_finished().  "stdrel"      *)
(* answers as stdrel_criterion does once it has a noise value              *)
(* (StdrelCriterion), "other" as it likes.  A trial that throws stands for *)
(* the user's exceptions and for a blocking kernel that timed out          *)
(* (BlockingKernel).  A printer is attached, as under main.                *)
(***************************************************************************)
EXTENDS Integers, Sequences

CONSTANTS
  Criteria,       \* criteria in use: "stdrel", "other"
  RunOnce,        \* values of get_run_once()
  Throttling,     \* values of throttle_threshold > 0
  Skipping,       \* values of skip_time > 0
  MinSamples,     \* values of get_min_samples()
  Timeouts,       \* values of get_timeout(), in ticks
  RecoveryDelays, \* values of get_throttle_recovery_delay(), in ticks
  MaxGrowth,      \* 0.5 s in ticks, the most the delay grows at a time
  LongestTrial,   \* longest duration of a trial, in ticks
  MaxTrials       \* bound: trials of a measurement; more than it can need

ASSUME MeasureAssumption ==
  /\ Criteria \subseteq {"stdrel", "other"}
  /\ RunOnce \subseteq BOOLEAN /\ Throttling \subseteq BOOLEAN
  /\ Skipping \subseteq BOOLEAN
  /\ MinSamples \subseteq Nat /\ Timeouts \subseteq Nat
  /\ RecoveryDelays \subseteq Nat /\ MaxGrowth \in Nat
  /\ LongestTrial \in Nat \ {0} /\ MaxTrials \in Nat

VARIABLES
  criterion, m_run_once, m_check_throttling, m_skip_time, m_min_samples,
  m_timeout, m_throttle_recovery_delay,  \* copied from the state
  point,        \* where operator()() is
  clock,        \* wall clock since run_trials_prologue
  walltime,     \* m_walltime_timer.get_duration()
  m_total_samples, m_cuda_times, m_throttle_discard_count,
  m_dynamic_throttle_recovery_delay, m_max_time_exceeded,
  fed,          \* trials whose times the criterion was given
  noise, time,  \* against max-noise and min-time; noise is "nan" without samples
  converged,    \* what the criterion's is_finished() answers
  trials,       \* trials launched
  throttled,    \* trials during which the clock rate was below the threshold
  skipped,      \* state::is_skipped
  summarised,   \* generate_summaries has added its summaries
  warnings      \* the warnings generate_summaries has logged

params   == <<criterion, m_run_once, m_check_throttling, m_skip_time,
              m_min_samples, m_timeout, m_throttle_recovery_delay>>
sampling == <<m_total_samples, m_cuda_times, fed, noise, time, converged>>
pausing  == <<m_throttle_discard_count, m_dynamic_throttle_recovery_delay>>
history  == <<trials, throttled>>
results  == <<skipped, summarised, warnings>>
vars == <<params, point, clock, walltime, sampling, pausing,
          m_max_time_exceeded, history, results>>

Points == {"check", "initialize", "warmup", "prologue", "trial", "record",
           "finished?", "epilogue", "summaries", "done", "failed"}
Sides == {"below", "at", "above"}

TypeOK ==
  /\ criterion \in Criteria /\ m_run_once \in RunOnce
  /\ m_check_throttling \in BOOLEAN /\ m_skip_time \in Skipping
  /\ m_min_samples \in MinSamples /\ m_timeout \in Timeouts
  /\ m_throttle_recovery_delay \in RecoveryDelays
  /\ point \in Points /\ clock \in Nat /\ walltime \in Nat
  /\ m_total_samples \in Nat /\ m_cuda_times \in Seq(1 .. MaxTrials)
  /\ fed \in Seq(1 .. MaxTrials)
  /\ m_throttle_discard_count \in Nat
  /\ m_dynamic_throttle_recovery_delay \in Nat
  /\ m_max_time_exceeded \in BOOLEAN
  /\ noise \in Sides \cup {"nan"} /\ time \in Sides /\ converged \in BOOLEAN
  /\ trials \in 0 .. MaxTrials /\ (point = "record" => trials # 0)
  /\ throttled \subseteq 1 .. MaxTrials
  /\ skipped \in BOOLEAN /\ summarised \in BOOLEAN
  /\ warnings \subseteq {"noise", "min_samples", "min_time"}

\* The constructor: throttling is not checked in a run-once measurement.
Init ==
  /\ criterion \in Criteria /\ m_run_once \in RunOnce
  /\ \E throttling \in Throttling :
       m_check_throttling = (~m_run_once /\ throttling)
  /\ m_skip_time \in Skipping /\ m_min_samples \in MinSamples
  /\ m_timeout \in Timeouts /\ m_throttle_recovery_delay \in RecoveryDelays
  /\ point = "check" /\ clock = 0 /\ walltime = 0
  /\ m_total_samples = 0 /\ m_cuda_times = <<>> /\ fed = <<>>
  /\ m_throttle_discard_count = 0 /\ m_dynamic_throttle_recovery_delay = 0
  /\ m_max_time_exceeded = FALSE
  /\ noise = "nan" /\ time = "below" /\ converged = FALSE
  /\ trials = 0 /\ throttled = {}
  /\ skipped = FALSE /\ summarised = FALSE /\ warnings = {}

\* check(): throws without a device, or when the device is not active.
Check ==
  /\ point = "check"
  /\ point' \in {"initialize", "failed"}
  /\ UNCHANGED <<params, clock, walltime, sampling, pausing,
                 m_max_time_exceeded, history, results>>

\* Mutant of Initialize: the sample count starts one too low.
Initialize_OneLow ==
  /\ point = "initialize"
  /\ point' \in {"warmup", "failed"}
  /\ m_total_samples' = -1 /\ m_cuda_times' = <<>> /\ fed' = <<>>
  /\ noise' = "nan" /\ time' = "below" /\ converged' = FALSE
  /\ m_max_time_exceeded' = FALSE
  /\ m_dynamic_throttle_recovery_delay' = m_throttle_recovery_delay
  /\ m_throttle_discard_count' = 0
  /\ UNCHANGED <<params, clock, walltime, history, results>>

\* initialize(): what an earlier measurement left is reset; last of all the
\* criterion is given the parameters and throws on one of a wrong type.
Initialize ==
  /\ point = "initialize"
  /\ point' \in {"warmup", "failed"}
  /\ m_total_samples' = 0 /\ m_cuda_times' = <<>> /\ fed' = <<>>
  /\ noise' = "nan" /\ time' = "below" /\ converged' = FALSE
  /\ m_max_time_exceeded' = FALSE
  /\ m_dynamic_throttle_recovery_delay' = m_throttle_recovery_delay
  /\ m_throttle_discard_count' = 0
  /\ UNCHANGED <<params, clock, walltime, history, results>>

\* Mutant of Warmup: check_skip_time marks the state and returns.
Warmup_GoesOn ==
  /\ point = "warmup" /\ ~m_run_once
  /\ \E tooFast \in BOOLEAN : skipped' = (m_skip_time /\ tooFast)
  /\ point' = "prologue"
  /\ UNCHANGED <<params, clock, walltime, sampling, pausing,
                 m_max_time_exceeded, history, summarised, warnings>>

\* run_warmup, when it launches the kernel and the launch returns; then
\* check_skip_time marks the state skipped and throws if it was too fast.
Warmup ==
  /\ point = "warmup" /\ ~m_run_once
  /\ \E tooFast \in BOOLEAN :
       /\ skipped' = (m_skip_time /\ tooFast)
       /\ point' = IF skipped' THEN "failed" ELSE "prologue"
  /\ UNCHANGED <<params, clock, walltime, sampling, pausing,
                 m_max_time_exceeded, history, summarised, warnings>>

NoWarmup ==
  /\ point = "warmup" /\ m_run_once
  /\ point' = "prologue"
  /\ UNCHANGED <<params, clock, walltime, sampling, pausing,
                 m_max_time_exceeded, history, results>>

Prologue ==
  /\ point = "prologue"
  /\ clock' = 0 /\ point' = "trial"
  /\ UNCHANGED <<params, walltime, sampling, pausing, m_max_time_exceeded,
                 history, results>>

\* launch_kernel in run_trials.
Trial ==
  /\ point = "trial" /\ trials < MaxTrials
  /\ trials' = trials + 1
  /\ \E t \in 1 .. LongestTrial : clock' = clock + t
  /\ point' = "record"
  /\ UNCHANGED <<params, walltime, sampling, pausing, m_max_time_exceeded,
                 throttled, results>>

\* A launch, of the warm-up or of a trial, ends by throwing.
LaunchThrows ==
  /\ \/ point = "warmup" /\ ~m_run_once
     \/ point = "trial" /\ trials < MaxTrials
  /\ point' = "failed"
  /\ UNCHANGED <<params, clock, walltime, sampling, pausing,
                 m_max_time_exceeded, history, results>>

Growth(delay) == IF (3 * delay) \div 2 < MaxGrowth THEN (3 * delay) \div 2
                                                   ELSE MaxGrowth

\* Mutant of Discard: after the pause the trial is recorded all the same.
Discard_FallsThrough ==
  /\ point = "record" /\ m_check_throttling
  /\ throttled' = throttled \cup {trials}
  /\ clock' = clock + m_dynamic_throttle_recovery_delay
  /\ m_throttle_discard_count' = 0
  /\ m_cuda_times' = Append(m_cuda_times, trials)
  /\ m_total_samples' = m_total_samples + 1
  /\ fed' = Append(fed, trials)
  /\ point' = "finished?"
  /\ UNCHANGED <<params, walltime, noise, time, converged,
                 m_dynamic_throttle_recovery_delay, m_max_time_exceeded,
                 trials, results>>

\* Mutant of Discard: the trial is repeated without asking is_finished.
Discard_Repeats ==
  /\ point = "record" /\ m_check_throttling
  /\ throttled' = throttled \cup {trials}
  /\ m_throttle_discard_count' = m_throttle_discard_count + 1
  /\ clock' = clock + m_dynamic_throttle_recovery_delay
  /\ point' = "trial"
  /\ UNCHANGED <<params, walltime, sampling, m_dynamic_throttle_recovery_delay,
                 m_max_time_exceeded, trials, results>>

\* record_measurements, when the clock rate was below the threshold.
Discard ==
  /\ point = "record" /\ m_check_throttling
  /\ throttled' = throttled \cup {trials}
  /\ m_dynamic_throttle_recovery_delay' =
       IF m_throttle_discard_count > 2
       THEN m_dynamic_throttle_recovery_delay
              + Growth(m_dynamic_throttle_recovery_delay)
       ELSE m_dynamic_throttle_recovery_delay
  /\ clock' = clock + m_dynamic_throttle_recovery_delay'
  /\ m_throttle_discard_count' = m_throttle_discard_count + 1
  /\ point' = "finished?"
  /\ UNCHANGED <<params, walltime, sampling, m_max_time_exceeded, trials,
                 results>>

\* Where a total of non-negative times can be after one more.
Later(side) == CASE side = "below" -> Sides
                 [] side = "at"    -> {"at", "above"}
                 [] side = "above" -> {"above"}

\* What the criterion may answer: stdrel_criterion::do_is_finished needs the
\* total above min-time, and then noise below max-noise or a stable noise.
MayAnswer(answer, newNoise, newTime) ==
  criterion = "stdrel" =>
    /\ answer => newTime = "above"
    /\ newTime = "above" /\ newNoise = "below" => answer

\* record_measurements, otherwise.
Record ==
  /\ point = "record"
  /\ m_cuda_times' = Append(m_cuda_times, trials)
  /\ m_total_samples' = m_total_samples + 1
  /\ fed' = Append(fed, trials)
  /\ m_throttle_discard_count' =
       IF m_check_throttling THEN 0 ELSE m_throttle_discard_count
  /\ noise' \in Sides /\ time' \in Later(time)
  /\ \E answer \in BOOLEAN :
       MayAnswer(answer, noise', time') /\ converged' = answer
  /\ point' = "finished?"
  /\ UNCHANGED <<params, clock, walltime, m_dynamic_throttle_recovery_delay,
                 m_max_time_exceeded, history, results>>

\* Mutant of EnoughSamples: either condition is enough.
EnoughSamples_Either == m_total_samples > m_min_samples \/ converged

EnoughSamples == m_total_samples > m_min_samples /\ converged

\* Mutant of IsFinished: the wall clock is read only after min_samples.
IsFinished_SamplesFirst ==
  /\ point = "finished?"
  /\ IF m_run_once \/ EnoughSamples
     THEN point' = "epilogue" /\ UNCHANGED <<walltime, m_max_time_exceeded>>
     ELSE /\ walltime' = clock
          /\ m_max_time_exceeded' =
               (m_total_samples > m_min_samples /\ walltime' > m_timeout)
          /\ point' = IF m_max_time_exceeded' THEN "epilogue" ELSE "trial"
  /\ UNCHANGED <<params, clock, sampling, pausing, history, results>>

\* is_finished: run-once and the criterion come before the wall clock.
IsFinished ==
  /\ point = "finished?"
  /\ IF m_run_once \/ EnoughSamples
     THEN point' = "epilogue" /\ UNCHANGED <<walltime, m_max_time_exceeded>>
     ELSE /\ walltime' = clock
          /\ m_max_time_exceeded' = (m_max_time_exceeded \/ walltime' > m_timeout)
          /\ point' = IF walltime' > m_timeout THEN "epilogue" ELSE "trial"
  /\ UNCHANGED <<params, clock, sampling, pausing, history, results>>

Epilogue ==
  /\ point = "epilogue"
  /\ walltime' = clock /\ point' = "summaries"
  /\ UNCHANGED <<params, clock, sampling, pausing, m_max_time_exceeded,
                 history, results>>

\* Mutant of TimeoutWarnings: a shortage of samples is not reported.
TimeoutWarnings_NoSamples ==
  {w \in {"noise", "min_time"} : \/ w = "noise" /\ noise = "above"
                                 \/ w = "min_time" /\ time = "below"}

TimeoutWarnings ==
  {w \in {"noise", "min_samples", "min_time"} :
     \/ w = "noise" /\ noise = "above"
     \/ w = "min_samples" /\ m_total_samples < m_min_samples
     \/ w = "min_time" /\ time = "below"}

GenerateSummaries ==
  /\ point = "summaries"
  /\ summarised' = TRUE
  /\ warnings' = IF m_max_time_exceeded THEN TimeoutWarnings ELSE {}
  /\ point' = "done"
  /\ UNCHANGED <<params, clock, walltime, sampling, pausing,
                 m_max_time_exceeded, history, skipped>>

Next == \/ Check \/ Initialize \/ Warmup \/ NoWarmup \/ Prologue
        \/ Trial \/ LaunchThrows \/ Discard \/ Record \/ IsFinished
        \/ Epilogue \/ GenerateSummaries

Spec == Init /\ [][Next]_vars

\* One host thread; a launch returns or throws (BlockingKernel).
FairSpec == Spec /\ WF_vars(Next)

-----------------------------------------------------------------------------
(* Properties.                                                             *)

Recorded == {m_cuda_times[k] : k \in 1 .. Len(m_cuda_times)}

\* Every trial that has been dealt with is either discarded as throttled or
\* recorded, never both; the criterion has been given exactly the recorded
\* times, so a discarded trial can not make it converge; and the samples
\* reported are as many (record_measurements, its early return).
DiscardedNeverSampled ==
  /\ Recorded \cap throttled = {}
  /\ Recorded \cup throttled =
       1 .. (IF point = "record" THEN trials - 1 ELSE trials)
  /\ fed = m_cuda_times
  /\ m_total_samples = Len(m_cuda_times)

\* "timeout" overrides all other criteria: past it the measurement takes at
\* most one more trial and one more pause, however often the GPU throttles
\* and however much the pause has grown.
OvershootBounded ==
  clock <= m_timeout + LongestTrial + m_dynamic_throttle_recovery_delay

\* A measurement that ends without timing out has more than min_samples
\* samples and a converged criterion, or was asked to run once; and then it
\* has exactly the sample of its one trial.
EndsForAReason ==
  point = "done" /\ ~m_max_time_exceeded =>
    IF m_run_once THEN trials = 1 /\ m_total_samples = 1
    ELSE m_total_samples > m_min_samples /\ converged

\* Under stdrel a timeout goes unreported only on a boundary: exactly
\* min_samples samples, or the total or the noise exactly on its limit.  In
\* particular a measurement whose every trial was discarded is reported.
SilentTimeoutOnBoundary ==
  point = "done" /\ m_max_time_exceeded /\ warnings = {}
                 /\ criterion = "stdrel" =>
    m_total_samples = m_min_samples \/ time = "at" \/ noise = "at"

\* A measurement that was skipped, or abandoned by an exception, leaves no
\* summary behind, and a skipped one has not run any trial.
NoPartialResults ==
  /\ skipped => trials = 0
  /\ summarised => point = "done" /\ ~skipped

\* Every measurement ends, even if the GPU throttles in every trial and the
\* criterion never converges.
MeasurementEnds == <>(point \in {"done", "failed"})
=============================================================================
