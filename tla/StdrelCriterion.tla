--------------------------- MODULE StdrelCriterion ---------------------------
(***************************************************************************)
(* The default stopping criterion (nvbench/detail/stdrel_criterion.cxx)    *)
(* over its ring buffer, driven by the measurement loop that measure_cold  *)
(* and measure_cpu_only share: initialize, then for every trial possibly a *)
(* measurement, and is_finished once more than min_samples are in.  One    *)
(* criterion object serves every measurement of the process, and a         *)
(* measurement may be abandoned by an exception at any point.              *)
(*                                                                         *)
(* Times and relative standard deviations are small naturals.  The noise   *)
(* of a set of times is an arbitrary level: only whether it is finite, how *)
(* it compares with the threshold and how it spreads over the window       *)
(* matter to the code.                                                     *)
(***************************************************************************)
EXTENDS Integers, Sequences, SequencesExt

CONSTANTS
  Times,          \* measured times, in ticks
  NoiseLevels,    \* finite values of cuda_rel_stdev
  MinTime,        \* the "min-time" parameter
  MaxNoise,       \* the "max-noise" parameter
  MinSamples,     \* the measurement's min_samples
  StdevSamples,   \* samples below which standard_deviation is infinite (5)
  TrackerSize,    \* capacity of m_noise_tracker (512)
  ConvergeAfter,  \* noise values needed before convergence is tested (64)
  CheckEvery,     \* convergence is tested every so many samples (16)
  MaxSamples,     \* bound: samples per measurement
  MaxRuns         \* bound: measurements

ASSUME StdrelAssumption ==
  /\ Times \subseteq Nat /\ NoiseLevels \subseteq Nat /\ 0 \in NoiseLevels
  /\ MinTime \in Nat /\ MaxNoise \in Nat /\ MinSamples \in Nat
  /\ StdevSamples \in Nat \ {0} /\ TrackerSize \in Nat \ {0}
  /\ ConvergeAfter \in Nat /\ CheckEvery \in Nat \ {0}
  /\ ConvergeAfter < TrackerSize /\ MaxSamples \in Nat /\ MaxRuns \in Nat

VARIABLES
  phase,            \* "idle", "trial" (a trial is due) or "ask" (is_finished is)
  runs,             \* measurements started
  totalSamples,     \* m_total_samples
  totalTime,        \* m_total_cuda_time
  noiseTracker,     \* m_noise_tracker
  verdict,          \* latest answer of is_finished()
  fed               \* history: finite noise of this measurement's samples

vars == <<phase, runs, totalSamples, totalTime, noiseTracker, verdict, fed>>

Tracker == INSTANCE RingBuffer WITH Values <- NoiseLevels,
             Capacity <- TrackerSize, Zero <- 0, buf <- noiseTracker

TypeOK ==
  /\ phase \in {"idle", "trial", "ask"} /\ verdict \in BOOLEAN
  /\ runs \in 0 .. MaxRuns
  /\ totalSamples \in 0 .. MaxSamples
  /\ totalTime \in Nat
  /\ noiseTracker \in Tracker!Buffers
  /\ fed \in Seq(NoiseLevels)

Init ==
  /\ phase = "idle" /\ runs = 0
  /\ totalSamples = 0 /\ totalTime = 0
  /\ noiseTracker = Tracker!NewBuffer
  /\ verdict = FALSE /\ fed = <<>>

-----------------------------------------------------------------------------
(* do_is_finished                                                          *)

SquaredSpread(noise, reference) ==
  FoldSeq(LAMBDA x, sum : sum + (x - reference) * (x - reference), 0, noise)

\* noise_stdev / current_noise < 0.05, in integers: the deviation is taken
\* from the current noise with Bessel's correction.
Stable(noise, current) ==
  400 * SquaredSpread(noise, current) < current * current * (Len(noise) - 1)

MinTimeReached == totalTime > MinTime

BelowMaxNoise == Tracker!Back(noiseTracker) < MaxNoise

NoiseConverged ==
  /\ Tracker!Size(noiseTracker) > ConvergeAfter
  /\ totalSamples % CheckEvery = 0
  /\ Stable(Tracker!Contents(noiseTracker), Tracker!Back(noiseTracker))

CriterionMet == MinTimeReached /\ (BelowMaxNoise \/ NoiseConverged)

-----------------------------------------------------------------------------

\* Mutant of DoInitialize: the tracker keeps the noise of the last measurement.
DoInitialize_KeepsTracker ==
  /\ totalSamples' = 0 /\ totalTime' = 0
  /\ UNCHANGED noiseTracker

\* do_initialize: counters and tracker are emptied.  The tracker's slots
\* keep what they hold.
DoInitialize ==
  /\ totalSamples' = 0 /\ totalTime' = 0
  /\ noiseTracker' = Tracker!Cleared(noiseTracker)

Initialize ==
  /\ phase = "idle" /\ runs < MaxRuns
  /\ phase' = "trial" /\ runs' = runs + 1
  /\ DoInitialize
  /\ verdict' = FALSE /\ fed' = <<>>

\* Mutant of NoiseIsFinite: one sample more is needed.
NoiseIsFinite_OneMore(samples, time) == samples > StdevSamples /\ time > 0

\* standard_deviation is finite and so is its ratio to the mean.
NoiseIsFinite(samples, time) == samples >= StdevSamples /\ time > 0

\* Mutant of AddMeasurement: the time is tracked in place of the noise.
AddMeasurement_TracksTime(t, noise) ==
  /\ phase = "trial" /\ totalSamples < MaxSamples
  /\ phase' = "ask"
  /\ totalSamples' = totalSamples + 1
  /\ totalTime' = totalTime + t
  /\ IF NoiseIsFinite(totalSamples + 1, totalTime + t)
       THEN /\ noiseTracker' = Tracker!Pushed(noiseTracker, t)
            /\ fed' = Append(fed, noise)
       ELSE UNCHANGED <<noiseTracker, fed>>
  /\ UNCHANGED <<runs, verdict>>

\* do_add_measurement: the noise of the samples so far is tracked when finite.
AddMeasurement(t, noise) ==
  /\ phase = "trial" /\ totalSamples < MaxSamples
  /\ phase' = "ask"
  /\ totalSamples' = totalSamples + 1
  /\ totalTime' = totalTime + t
  /\ IF NoiseIsFinite(totalSamples + 1, totalTime + t)
       THEN /\ noiseTracker' = Tracker!Pushed(noiseTracker, noise)
            /\ fed' = Append(fed, noise)
       ELSE UNCHANGED <<noiseTracker, fed>>
  /\ UNCHANGED <<runs, verdict>>

\* The loop consults the criterion: total_samples > min_samples.
Consulted == phase = "ask" /\ totalSamples > MinSamples

IsFinished ==
  /\ phase = "ask"
  /\ verdict' = (Consulted /\ CriterionMet)
  /\ phase' = IF verdict' THEN "idle" ELSE "trial"
  /\ UNCHANGED <<runs, totalSamples, totalTime, noiseTracker, fed>>

\* The measurement ends without the criterion: timed out, or unwound by an
\* exception.
GiveUp ==
  /\ phase # "idle"
  /\ phase' = "idle"
  /\ UNCHANGED <<runs, totalSamples, totalTime, noiseTracker, verdict, fed>>

\* The process ends after its last measurement.
Finished == phase = "idle" /\ runs = MaxRuns /\ UNCHANGED vars

Next ==
  \/ Initialize
  \/ \E t \in Times, noise \in NoiseLevels : AddMeasurement(t, noise)
  \/ IsFinished
  \/ GiveUp
  \/ Finished

Spec == Init /\ [][Next]_vars

-----------------------------------------------------------------------------

\* The part of the history the tracker is there to keep.
Recent == SubSeq(fed, IF Len(fed) > TrackerSize THEN Len(fed) - TrackerSize + 1
                                                ELSE 1, Len(fed))

\* A measurement is stopped because of its own noise: the newest value is
\* below the threshold, or enough values of this measurement were recorded
\* and the recent ones are stable around the newest.  Nothing recorded by an
\* earlier measurement, finished or abandoned, contributes.
StoppedByOwnNoise ==
  verdict =>
    /\ fed # <<>>
    /\ \/ Last(fed) < MaxNoise
       \/ Len(fed) > ConvergeAfter /\ Stable(Recent, Last(fed))

\* ring_buffer.cuh, back(): assert(!this->empty()).  Whenever is_finished
\* gets past the min-time test it reads the back of a tracker with a value.
BackOfNonEmptyTracker ==
  Consulted /\ MinTimeReached => ~Tracker!IsEmpty(noiseTracker)

\* As the criterion uses it, across measurements, the ring buffer is a window:
\* iteration sees the most recent noise values in the order they were pushed,
\* and nothing from before the last clear().
TrackerIsWindow == Tracker!ImplementsWindow

=============================================================================
