------------------------------- MODULE Criteria -------------------------------
(***************************************************************************)
(* The two stopping criteria of one process (criterion_manager holds one   *)
(* object of each) and the measurements that use them one after another:   *)
(* each chooses one criterion, and either of them may be abandoned with    *)
(* whatever it left in the object.                                         *)
(***************************************************************************)
EXTENDS StdrelCriterion

CONSTANTS Log2, WindowSize, MaxSlope, MinR2, MaxEntropySamples

VARIABLES
  chosen,   \* the criterion of the current or latest measurement
  samples, freqTracker, entropyTracker, added

Entropy == INSTANCE EntropyCriterion WITH Keys <- Times

\* The table of logarithms covers every number of samples.
ASSUME CriteriaAssumption ==
  Entropy!ParametersOK /\ MaxEntropySamples \in 0 .. Len(Log2)

entropy == <<samples, freqTracker, entropyTracker, added>>

all == <<vars, chosen, entropy>>

CriteriaInit == Init /\ Entropy!Init /\ chosen = "none"

\* stdrel is measured with as StdrelCriterion describes.
Stdrel ==
  /\ UNCHANGED entropy
  /\ \/ Initialize /\ chosen' = "stdrel"
     \/ /\ chosen = "stdrel" /\ UNCHANGED chosen
        /\ \/ \E t \in Times, noise \in NoiseLevels : AddMeasurement(t, noise)
           \/ IsFinished
           \/ GiveUp

stdrel == <<totalSamples, totalTime, noiseTracker, fed>>

EntropyInitialize ==
  /\ phase = "idle" /\ runs < MaxRuns
  /\ phase' = "trial" /\ runs' = runs + 1 /\ chosen' = "entropy"
  /\ Entropy!DoInitialize
  /\ verdict' = FALSE /\ fed' = <<>> /\ UNCHANGED <<totalSamples, totalTime, noiseTracker>>

EntropyAddMeasurement(t) ==
  /\ chosen = "entropy" /\ phase = "trial" /\ samples < MaxEntropySamples
  /\ phase' = "ask" /\ Entropy!DoAddMeasurement(t)
  /\ UNCHANGED <<runs, chosen, verdict, stdrel>>

EntropyIsFinished ==
  /\ chosen = "entropy" /\ phase = "ask"
  /\ verdict' = (samples > MinSamples /\ Entropy!DoIsFinished)
  /\ phase' = IF verdict' THEN "idle" ELSE "trial"
  /\ UNCHANGED <<runs, chosen, stdrel, entropy>>

EntropyGiveUp ==
  /\ chosen = "entropy" /\ phase # "idle" /\ phase' = "idle"
  /\ UNCHANGED <<runs, chosen, verdict, stdrel, entropy>>

CriteriaFinished == phase = "idle" /\ runs = MaxRuns /\ UNCHANGED all

CriteriaNext ==
  \/ Stdrel
  \/ EntropyInitialize
  \/ \E t \in Times : EntropyAddMeasurement(t)
  \/ EntropyIsFinished
  \/ EntropyGiveUp
  \/ CriteriaFinished

CriteriaSpec == CriteriaInit /\ [][CriteriaNext]_all

-----------------------------------------------------------------------------

\* The variables of both criteria keep their types.
CriteriaTypeOK ==
  /\ TypeOK /\ Entropy!TypeOK /\ chosen \in {"none", "stdrel", "entropy"}
  /\ samples \in 0 .. MaxEntropySamples

\* A measurement is stopped by its own noise or entropies (stdrel_criterion,
\* entropy_criterion): what it is stopped by follows from its own samples
\* alone, though the objects are shared by all measurements of the process.
StoppedByOwnMeasurements ==
  /\ chosen = "stdrel" => StoppedByOwnNoise
  /\ chosen = "entropy" /\ verdict =>
       /\ Len(added) > MinSamples /\ Len(added) % 2 = 0
       /\ Len(Entropy!OwnEntropies) >= 2
       /\ Entropy!Flat(Entropy!OwnEntropies) /\ Entropy!Linear(Entropy!OwnEntropies)

\* do_add_measurement finds the place of a time by binary search in a table
\* that must stay sorted: entropies are computed from exactly the times of
\* the current measurement.
FrequenciesAreOwn == Entropy!FrequenciesAreOwn

\* As the criteria use it, across measurements, the ring buffer is a window:
\* iteration sees the most recent values in the order they were pushed, and
\* nothing from before the last clear().
TrackersAreWindows ==
  /\ Tracker!ImplementsWindow
  /\ Entropy!Tracker!ImplementsWindow
=============================================================================
