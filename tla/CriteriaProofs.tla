---------------------------- MODULE CriteriaProofs ----------------------------
(***************************************************************************)
(* Proofs about Criteria, for all times, noise levels, thresholds,         *)
(* capacities of the trackers, logarithms that grow, and numbers of        *)
(* samples and measurements.  Stdrel: what is in the noise tracker is the  *)
(* recent noise of this measurement, so its back exists when it is read    *)
(* and the measurement is stopped by its own noise.  Entropy: the table of *)
(* times counts the times of this measurement, so the entropy made of it   *)
(* is the entropy of those times, and what is in the entropy tracker are   *)
(* the recent ones.  Both trackers implement the sliding window.           *)
(*                                                                         *)
(* Proofs about CriterionRegistry, for any criteria, parameters and        *)
(* benchmarks, measured in any order and any number of times.              *)
(***************************************************************************)
EXTENDS Criteria, CriterionRegistry, SequenceLemmas

NoiseBuffer == INSTANCE RingBufferProofs WITH Values <- NoiseLevels,
                 Capacity <- TrackerSize, Zero <- 0, buf <- noiseTracker

EntropyBuffer == INSTANCE RingBufferProofs WITH Values <- Entropy!Entropies,
                   Capacity <- WindowSize, Zero <- 0, buf <- entropyTracker

-----------------------------------------------------------------------------
(* The trackers are ring buffers                                           *)

LEMMA NoiseBufferIs ==
  /\ NoiseBuffer!Parameters
  /\ Tracker!Buffers = NoiseBuffer!Buffers /\ Tracker!NewBuffer = NoiseBuffer!NewBuffer
  /\ \A b : /\ Tracker!Cleared(b) = NoiseBuffer!Cleared(b)
            /\ Tracker!Contents(b) = NoiseBuffer!Contents(b)
            /\ Tracker!Size(b) = NoiseBuffer!Size(b) /\ Tracker!Back(b) = NoiseBuffer!Back(b)
            /\ Tracker!IsEmpty(b) <=> NoiseBuffer!IsEmpty(b)
            /\ \A v : Tracker!Pushed(b, v) = NoiseBuffer!Pushed(b, v)
BY StdrelAssumption
DEF NoiseBuffer!Parameters, NoiseBuffer!Buffers, Tracker!Buffers, NoiseBuffer!Slot,
    Tracker!Slot, NoiseBuffer!NewBuffer, Tracker!NewBuffer, NoiseBuffer!Cleared,
    Tracker!Cleared, NoiseBuffer!Contents, Tracker!Contents, NoiseBuffer!Size, Tracker!Size,
    NoiseBuffer!FrontIndex, Tracker!FrontIndex, NoiseBuffer!Back, Tracker!Back,
    NoiseBuffer!IsEmpty, Tracker!IsEmpty, NoiseBuffer!Pushed, Tracker!Pushed

LEMMA EntropyBufferIs ==
  /\ EntropyBuffer!Parameters
  /\ Entropy!Tracker!Buffers = EntropyBuffer!Buffers
  /\ Entropy!Tracker!NewBuffer = EntropyBuffer!NewBuffer
  /\ \A b : /\ Entropy!Tracker!Cleared(b) = EntropyBuffer!Cleared(b)
            /\ Entropy!Tracker!Contents(b) = EntropyBuffer!Contents(b)
            /\ Entropy!Tracker!Size(b) = EntropyBuffer!Size(b)
            /\ \A v : Entropy!Tracker!Pushed(b, v) = EntropyBuffer!Pushed(b, v)
<1>1. EntropyBuffer!Parameters
  <2>1. Log2[Len(Log2)] \in Nat
    BY CriteriaAssumption DEF Entropy!ParametersOK
  <2>2. QED
    BY <2>1, CriteriaAssumption DEF EntropyBuffer!Parameters, Entropy!ParametersOK, Entropy!Entropies
<1>2. QED
  BY <1>1
  DEF EntropyBuffer!Buffers, Entropy!Tracker!Buffers, EntropyBuffer!Slot,
      Entropy!Tracker!Slot, EntropyBuffer!NewBuffer, Entropy!Tracker!NewBuffer,
      EntropyBuffer!Cleared, Entropy!Tracker!Cleared, EntropyBuffer!Contents,
      Entropy!Tracker!Contents, EntropyBuffer!Size, Entropy!Tracker!Size,
      EntropyBuffer!FrontIndex, Entropy!Tracker!FrontIndex, EntropyBuffer!Pushed,
      Entropy!Tracker!Pushed

-----------------------------------------------------------------------------
(* The back of the tracker                                                 *)

\* A finite noise has been tracked.
TrackedWhenFinite ==
  /\ totalSamples \in Nat /\ totalTime \in Nat
  /\ NoiseIsFinite(totalSamples, totalTime) => ~Tracker!IsEmpty(noiseTracker)

\* Nothing empties a tracker but do_initialize, which resets the counts too.
LEMMA TrackedIsInvariant == CriteriaSpec => []TrackedWhenFinite
<1> USE StdrelAssumption DEF NoiseIsFinite
<1>1. CriteriaInit => TrackedWhenFinite
  BY DEF CriteriaInit, Init, TrackedWhenFinite
<1>2. TrackedWhenFinite /\ [CriteriaNext]_all => TrackedWhenFinite'
  <2> SUFFICES ASSUME TrackedWhenFinite, [CriteriaNext]_all PROVE TrackedWhenFinite'
    OBVIOUS
  <2>1. CASE Initialize
    BY <2>1 DEF Initialize, DoInitialize, TrackedWhenFinite
  <2>2. ASSUME NEW t \in Times, NEW noise \in NoiseLevels, AddMeasurement(t, noise)
        PROVE  TrackedWhenFinite'
    <3>1. totalSamples' \in Nat /\ totalTime' \in Nat
      BY <2>2 DEF AddMeasurement, TrackedWhenFinite
    <3>2. ~Tracker!IsEmpty(Tracker!Pushed(noiseTracker, noise))
      BY DEF Tracker!IsEmpty, Tracker!Pushed
    <3>3. QED
      BY <2>2, <3>1, <3>2 DEF AddMeasurement, TrackedWhenFinite
  <2>3. CASE UNCHANGED <<totalSamples, totalTime, noiseTracker>>
    BY <2>3 DEF TrackedWhenFinite
  <2>4. QED
    BY <2>1, <2>2, <2>3
    DEF CriteriaNext, Stdrel, IsFinished, GiveUp, EntropyInitialize, EntropyAddMeasurement,
        EntropyIsFinished, EntropyGiveUp, CriteriaFinished, all, vars, stdrel
<1>3. QED
  BY <1>1, <1>2, PTL DEF CriteriaSpec

\* stdrel_criterion::do_is_finished never reads the back of an empty tracker,
\* as long as min_samples keeps the loop from asking before the standard
\* deviation of the samples is finite.
THEOREM BackHasAValue ==
  ASSUME MinSamples + 1 >= StdevSamples
  PROVE  CriteriaSpec => []BackOfNonEmptyTracker
<1>1. TrackedWhenFinite => BackOfNonEmptyTracker
  BY StdrelAssumption
  DEF TrackedWhenFinite, BackOfNonEmptyTracker, Consulted, MinTimeReached, NoiseIsFinite
<1>2. QED
  BY <1>1, TrackedIsInvariant, PTL

-----------------------------------------------------------------------------
(* The variables that are not part of an entropy                           *)

\* The variables of the loop and of stdrel keep their types.
LoopTypeOK == TypeOK /\ chosen \in {"none", "stdrel", "entropy"}

LEMMA LoopTypeCorrect == CriteriaSpec => []LoopTypeOK
<1> USE StdrelAssumption
<1>1. /\ Tracker!NewBuffer \in Tracker!Buffers
      /\ \A b \in Tracker!Buffers : Tracker!Cleared(b) \in Tracker!Buffers
      /\ \A b \in Tracker!Buffers, v \in NoiseLevels : Tracker!Pushed(b, v) \in Tracker!Buffers
  BY NoiseBufferIs, NoiseBuffer!TracksNothing, NoiseBuffer!PushedIsBuffer DEF NoiseBuffer!Tracks
<1>2. CriteriaInit => LoopTypeOK
  <2> SUFFICES ASSUME CriteriaInit PROVE LoopTypeOK
    OBVIOUS
  <2>1. phase = "idle" /\ runs = 0 /\ totalSamples = 0 /\ totalTime = 0 /\ chosen = "none"
    BY DEF CriteriaInit, Init
  <2>2. noiseTracker \in Tracker!Buffers
    BY <1>1 DEF CriteriaInit, Init
  <2>3. verdict \in BOOLEAN
    BY DEF CriteriaInit, Init
  <2>4. fed \in Seq(NoiseLevels)
    BY DEF CriteriaInit, Init
  <2>5. QED
    BY <2>1, <2>2, <2>3, <2>4 DEF LoopTypeOK, TypeOK
<1>3. LoopTypeOK /\ [CriteriaNext]_all => LoopTypeOK'
  <2> SUFFICES ASSUME LoopTypeOK, [CriteriaNext]_all PROVE LoopTypeOK'
    OBVIOUS
  <2> USE DEF LoopTypeOK, TypeOK
  <2>1. CASE Initialize /\ chosen' = "stdrel"
    <3>1. verdict' \in BOOLEAN /\ fed' \in Seq(NoiseLevels)
      <4>1. verdict' = FALSE /\ fed' = <<>>
        BY <2>1 DEF Initialize
      <4>2. <<>> \in Seq(NoiseLevels) /\ FALSE \in BOOLEAN
        OBVIOUS
      <4>3. QED
        BY <4>1, <4>2, Zenon
    <3>2. runs' \in 0 .. MaxRuns
      BY <2>1 DEF Initialize
    <3>3. noiseTracker' \in Tracker!Buffers
      BY <1>1, <2>1 DEF Initialize, DoInitialize
    <3>4. QED
      BY <2>1, <3>1, <3>2, <3>3 DEF Initialize, DoInitialize
  <2>2. ASSUME chosen' = chosen, NEW t \in Times, NEW noise \in NoiseLevels,
               AddMeasurement(t, noise)
        PROVE  LoopTypeOK'
    <3>1. totalSamples' \in 0 .. MaxSamples /\ totalTime' \in Nat
      BY <2>2 DEF AddMeasurement
    <3>2. \/ /\ noiseTracker' = Tracker!Pushed(noiseTracker, noise)
             /\ fed' = Append(fed, noise)
          \/ UNCHANGED <<noiseTracker, fed>>
      BY <2>2, Zenon DEF AddMeasurement
    <3>3. noiseTracker' \in Tracker!Buffers
      BY <1>1, <3>2
    <3>4. fed' \in Seq(NoiseLevels)
      BY <3>2
    <3>5. phase' = "ask" /\ UNCHANGED <<runs, verdict>>
      BY <2>2 DEF AddMeasurement
    <3>6. QED
      BY <2>2, <3>1, <3>3, <3>4, <3>5
  <2>3. CASE IsFinished /\ chosen' = chosen
    BY <2>3 DEF IsFinished, Consulted, CriterionMet, MinTimeReached, BelowMaxNoise, NoiseConverged
  <2>4. CASE GiveUp /\ chosen' = chosen
    BY <2>4 DEF GiveUp
  <2>5. CASE EntropyInitialize
    <3>1. verdict' \in BOOLEAN /\ fed' \in Seq(NoiseLevels)
      <4>1. verdict' = FALSE /\ fed' = <<>>
        BY <2>5 DEF EntropyInitialize
      <4>2. <<>> \in Seq(NoiseLevels) /\ FALSE \in BOOLEAN
        OBVIOUS
      <4>3. QED
        BY <4>1, <4>2, Zenon
    <3>2. runs' \in 0 .. MaxRuns
      BY <2>5 DEF EntropyInitialize
    <3>3. QED
      BY <2>5, <3>1, <3>2 DEF EntropyInitialize
  <2>6. CASE \E t \in Times : EntropyAddMeasurement(t)
    BY <2>6 DEF EntropyAddMeasurement, stdrel
  <2>7. CASE EntropyIsFinished
    <3>1. verdict' \in BOOLEAN
      BY <2>7, Zenon DEF EntropyIsFinished
    <3>2. QED
      BY <2>7, <3>1 DEF EntropyIsFinished, stdrel
  <2>8. CASE EntropyGiveUp
    BY <2>8 DEF EntropyGiveUp, stdrel
  <2>9. CASE CriteriaFinished \/ UNCHANGED all
    BY <2>9 DEF CriteriaFinished, all, vars
  <2>10. QED
    BY <2>1, <2>2, <2>3, <2>4, <2>5, <2>6, <2>7, <2>8, <2>9 DEF CriteriaNext, Stdrel
<1>4. QED
  BY <1>2, <1>3, PTL DEF CriteriaSpec

-----------------------------------------------------------------------------
(* The noise of a measurement                                              *)

\* While stdrel measures, the tracker holds the most recent noise of this
\* measurement; one that goes on has not been stopped.
NoiseInv ==
  /\ chosen # "entropy" => NoiseBuffer!Tracks(noiseTracker, fed)
  /\ phase # "idle" => verdict = FALSE
  /\ chosen = "stdrel" => StoppedByOwnNoise

\* A measurement that begins finds an empty tracker, whatever the one before
\* left in it (stdrel_criterion::do_initialize).
LEMMA InitializeKeepsNoise ==
  ASSUME LoopTypeOK, Initialize
  PROVE  NoiseInv'
<1>1. noiseTracker' = Tracker!Cleared(noiseTracker) /\ fed' = <<>> /\ verdict' = FALSE
  BY DEF Initialize, DoInitialize
<1>2. NoiseBuffer!Tracks(noiseTracker', fed')
  BY <1>1, NoiseBufferIs, NoiseBuffer!TracksNothing DEF LoopTypeOK, TypeOK
<1>3. QED
  BY <1>1, <1>2 DEF NoiseInv, StoppedByOwnNoise

\* A finite noise enters tracker and history alike.
LEMMA AddMeasurementKeepsNoise ==
  ASSUME NoiseInv, chosen = "stdrel", chosen' = chosen, NEW t \in Times,
         NEW noise \in NoiseLevels, AddMeasurement(t, noise)
  PROVE  NoiseInv'
<1>1. NoiseBuffer!Tracks(noiseTracker, fed) /\ verdict' = FALSE
  BY DEF NoiseInv, AddMeasurement
<1>2. \/ noiseTracker' = Tracker!Pushed(noiseTracker, noise) /\ fed' = Append(fed, noise)
      \/ noiseTracker' = noiseTracker /\ fed' = fed
  BY Zenon DEF AddMeasurement
<1>3. NoiseBuffer!Tracks(noiseTracker', fed')
  BY <1>1, <1>2, NoiseBufferIs, NoiseBuffer!TracksPushed
<1>4. QED
  BY <1>1, <1>3 DEF NoiseInv, StoppedByOwnNoise

\* What the criterion reads of the tracker is what the history says.
LEMMA IsFinishedKeepsNoise ==
  ASSUME NoiseInv, TrackedWhenFinite, MinSamples + 1 >= StdevSamples,
         chosen = "stdrel", chosen' = chosen, IsFinished
  PROVE  NoiseInv'
<1> USE StdrelAssumption
<1>1. NoiseBuffer!Tracks(noiseTracker, fed) /\ UNCHANGED <<noiseTracker, fed>>
  BY DEF NoiseInv, IsFinished
<1>2. /\ fed \in Seq(NoiseLevels) /\ Len(fed) \in Nat
      /\ Tracker!Contents(noiseTracker) = Recent
      /\ Tracker!Size(noiseTracker) = IF Len(fed) < TrackerSize THEN Len(fed) ELSE TrackerSize
      /\ Tracker!IsEmpty(noiseTracker) <=> fed = <<>>
      /\ fed # <<>> => Tracker!Back(noiseTracker) = Last(fed)
  <2>1. fed \in Seq(NoiseLevels) /\ NoiseBuffer!Contents(noiseTracker) = NoiseBuffer!Latest(fed)
    BY <1>1 DEF NoiseBuffer!Tracks
  <2>2. Recent = NoiseBuffer!Latest(fed)
    BY Zenon DEF Recent, NoiseBuffer!Latest
  <2>3. /\ NoiseBuffer!Size(noiseTracker) = IF Len(fed) < TrackerSize THEN Len(fed) ELSE TrackerSize
        /\ NoiseBuffer!IsEmpty(noiseTracker) <=> fed = <<>>
        /\ fed # <<>> => NoiseBuffer!Back(noiseTracker) = fed[Len(fed)]
    BY <1>1, NoiseBufferIs, NoiseBuffer!TrackedHistory
  <2>4. QED
    BY <2>1, <2>2, <2>3, NoiseBufferIs DEF Last
<1>3. ASSUME verdict' PROVE StoppedByOwnNoise'
  <2>1. Consulted /\ MinTimeReached /\ (BelowMaxNoise \/ NoiseConverged)
    BY <1>3 DEF IsFinished, CriterionMet
  <2>2. fed # <<>> /\ Tracker!Back(noiseTracker) = Last(fed)
    <3>1. ~Tracker!IsEmpty(noiseTracker)
      BY <2>1 DEF TrackedWhenFinite, Consulted, MinTimeReached, NoiseIsFinite
    <3>2. QED
      BY <1>2, <3>1
  <2>3. \/ Last(fed) < MaxNoise
        \/ Len(fed) > ConvergeAfter /\ Stable(Recent, Last(fed))
    <3>1. CASE BelowMaxNoise
      BY <2>2, <3>1 DEF BelowMaxNoise
    <3>2. CASE NoiseConverged
      <4>1. Len(fed) > ConvergeAfter
        BY <1>2, <3>2 DEF NoiseConverged
      <4>2. QED
        BY <1>2, <2>2, <3>2, <4>1 DEF NoiseConverged
    <3>3. QED
      BY <2>1, <3>1, <3>2
  <2>4. Recent' = Recent /\ fed' = fed
    BY <1>1 DEF Recent
  <2>5. QED
    BY <2>2, <2>3, <2>4 DEF StoppedByOwnNoise
<1>4. phase' # "idle" => verdict' = FALSE
  BY DEF IsFinished
<1>5. NoiseBuffer!Tracks(noiseTracker', fed')
  BY <1>1
<1>6. QED
  BY <1>3, <1>4, <1>5 DEF NoiseInv, StoppedByOwnNoise

LEMMA NoiseIsInvariant ==
  ASSUME MinSamples + 1 >= StdevSamples
  PROVE  CriteriaSpec => []NoiseInv
<1>1. CriteriaInit => NoiseInv
  <2> SUFFICES ASSUME CriteriaInit PROVE NoiseInv
    OBVIOUS
  <2>1. noiseTracker = Tracker!NewBuffer /\ fed = <<>> /\ verdict = FALSE
    BY DEF CriteriaInit, Init
  <2>2. NoiseBuffer!Tracks(noiseTracker, fed)
    BY <2>1, NoiseBufferIs, NoiseBuffer!TracksNothing
  <2>3. QED
    BY <2>1, <2>2 DEF NoiseInv, StoppedByOwnNoise
<1>2. NoiseInv /\ LoopTypeOK /\ TrackedWhenFinite /\ [CriteriaNext]_all => NoiseInv'
  <2> SUFFICES ASSUME NoiseInv, LoopTypeOK, TrackedWhenFinite, [CriteriaNext]_all
               PROVE  NoiseInv'
    OBVIOUS
  <2>1. CASE Initialize /\ chosen' = "stdrel"
    BY <2>1, InitializeKeepsNoise
  <2>2. ASSUME chosen = "stdrel", chosen' = chosen, NEW t \in Times,
               NEW noise \in NoiseLevels, AddMeasurement(t, noise)
        PROVE  NoiseInv'
    BY <2>2, AddMeasurementKeepsNoise
  <2>3. CASE chosen = "stdrel" /\ chosen' = chosen /\ IsFinished
    BY <2>3, IsFinishedKeepsNoise
  <2>4. CASE UNCHANGED <<chosen, verdict, fed, noiseTracker>> /\ (phase' # "idle" => phase # "idle")
    BY <2>4 DEF NoiseInv, StoppedByOwnNoise, Recent
  <2>5. CASE EntropyInitialize
    BY <2>5 DEF EntropyInitialize, NoiseInv
  <2>6. CASE EntropyIsFinished
    BY <2>6 DEF EntropyIsFinished, stdrel, NoiseInv
  <2>7. CASE GiveUp /\ UNCHANGED chosen
    BY <2>4, <2>7 DEF GiveUp
  <2>8. CASE \E t \in Times : EntropyAddMeasurement(t)
    BY <2>4, <2>8 DEF EntropyAddMeasurement, stdrel
  <2>9. CASE EntropyGiveUp
    BY <2>4, <2>9 DEF EntropyGiveUp, stdrel
  <2>10. CASE CriteriaFinished \/ UNCHANGED all
    BY <2>4, <2>10 DEF CriteriaFinished, all, vars
  <2>11. QED
    BY <2>1, <2>2, <2>3, <2>5, <2>6, <2>7, <2>8, <2>9, <2>10 DEF CriteriaNext, Stdrel
<1>3. QED
  BY <1>1, <1>2, TrackedIsInvariant, LoopTypeCorrect, PTL DEF CriteriaSpec

\* A measurement is stopped by stdrel only because of its own noise: the newest
\* value is below the threshold, or enough were recorded and the recent ones
\* are stable around it.  What earlier measurements left in the shared tracker,
\* finished or abandoned, stdrel's or not, does not contribute.
THEOREM StdrelStopsByOwnNoise ==
  ASSUME MinSamples + 1 >= StdevSamples
  PROVE  CriteriaSpec => [](chosen = "stdrel" => StoppedByOwnNoise)
<1>1. NoiseInv => (chosen = "stdrel" => StoppedByOwnNoise)
  BY DEF NoiseInv
<1>2. QED
  BY <1>1, NoiseIsInvariant, PTL

-----------------------------------------------------------------------------
(* The table of times                                                      *)

\* An entry: a time and how often it occurred.
Row == Times \X (Nat \ {0})

\* In order of time.
Sorted(freq) == \A i, j \in DOMAIN freq : i < j => freq[i][1] < freq[j][1]

\* The table has the number of occurrences of each of its times, and every
\* time that occurred is in it.
Holds(freq, occ) ==
  /\ \A i \in DOMAIN freq : freq[i][2] = occ[freq[i][1]]
  /\ \A key \in Times : occ[key] # 0 => \E i \in DOMAIN freq : freq[i][1] = key

\* InsertAt moves what is at the place and behind it.
LEMMA InsertAtIs ==
  ASSUME NEW S, NEW s \in Seq(S), NEW p \in 1 .. Len(s) + 1, NEW e \in S
  PROVE  /\ InsertAt(s, p, e) \in Seq(S) /\ Len(InsertAt(s, p, e)) = Len(s) + 1
         /\ \A j \in 1 .. Len(s) + 1 :
              InsertAt(s, p, e)[j] = IF j < p THEN s[j] ELSE IF j = p THEN e ELSE s[j - 1]
<1> DEFINE a == SubSeq(s, 1, p - 1)
           b == SubSeq(s, p, Len(s))
           n == Len(s)
<1>1. n \in Nat /\ p \in Int /\ \A i \in 1 .. n : s[i] \in S
  BY LenProperties, ElementOfSeq
<1>2. a \in Seq(S) /\ Len(a) = p - 1 /\ \A i \in 1 .. p - 1 : a[i] = s[i]
  BY <1>1, SubSeqProperties
<1>3. b \in Seq(S) /\ Len(b) = n - p + 1 /\ \A i \in 1 .. n - p + 1 : b[i] = s[p + i - 1]
  BY <1>1, SubSeqProperties
<1> HIDE DEF a, b, n
<1>4. /\ <<e>> \in Seq(S) /\ Len(<<e>>) = 1 /\ <<e>>[1] = e
  OBVIOUS
<1>5. /\ a \o <<e>> \in Seq(S) /\ Len(a \o <<e>>) = p
      /\ \A i \in 1 .. p : (a \o <<e>>)[i] = IF i < p THEN s[i] ELSE e
  <2>1. a \o <<e>> \in Seq(S) /\ Len(a \o <<e>>) = Len(a) + 1
        /\ \A i \in 1 .. Len(a) + 1 : (a \o <<e>>)[i] = IF i <= Len(a) THEN a[i] ELSE <<e>>[i - Len(a)]
    BY <1>2, <1>4, ConcatProperties
  <2>2. \A i \in 1 .. p : (a \o <<e>>)[i] = IF i < p THEN s[i] ELSE e
    <3> TAKE i \in 1 .. p
    <3>1. CASE i < p
      <4>1. i \in 1 .. Len(a) + 1 /\ i <= Len(a) /\ i \in 1 .. p - 1
        BY <1>1, <1>2, <3>1
      <4>2. (a \o <<e>>)[i] = a[i]
        BY <2>1, <4>1
      <4>3. QED
        BY <1>2, <3>1, <4>1, <4>2
    <3>2. CASE i = p
      <4>1. i - Len(a) = 1 /\ ~(i <= Len(a)) /\ i \in 1 .. Len(a) + 1
        BY <1>1, <1>2, <3>2
      <4>2. (a \o <<e>>)[i] = <<e>>[i - Len(a)]
        BY <2>1, <4>1
      <4>3. (a \o <<e>>)[i] = e
        BY <1>4, <4>1, <4>2
      <4>4. ~(i < p)
        BY <1>1, <3>2
      <4>5. QED
        BY <4>3, <4>4
    <3>3. i < p \/ i = p
      BY <1>1
    <3>4. QED
      BY <3>1, <3>2, <3>3
  <2>3. QED
    BY <1>1, <1>2, <2>1, <2>2
<1> DEFINE c == a \o <<e>>
<1>6. InsertAt(s, p, e) = c \o b
  BY DEF InsertAt, a, b
<1> HIDE DEF c
<1>7. c \in Seq(S) /\ Len(c) = p /\ \A i \in 1 .. p : c[i] = IF i < p THEN s[i] ELSE e
  BY <1>5 DEF c
<1>8. /\ c \o b \in Seq(S) /\ Len(c \o b) = Len(c) + Len(b)
      /\ \A i \in 1 .. Len(c) + Len(b) : (c \o b)[i] = IF i <= Len(c) THEN c[i] ELSE b[i - Len(c)]
  BY <1>3, <1>7, ConcatProperties
<1>9. Len(c) + Len(b) = n + 1 /\ Len(c) = p
  BY <1>1, <1>3, <1>7
<1>10. \A j \in 1 .. n + 1 : (c \o b)[j] = IF j < p THEN s[j] ELSE IF j = p THEN e ELSE s[j - 1]
  <2> TAKE j \in 1 .. n + 1
  <2>1. CASE j <= p
    BY <1>1, <1>7, <1>8, <1>9, <2>1
  <2>2. CASE ~(j <= p)
    <3>1. j - p \in 1 .. n - p + 1 /\ p + (j - p) - 1 = j - 1
      BY <1>1, <2>2
    <3>2. b[j - p] = s[j - 1]
      BY <1>3, <3>1
    <3>3. (c \o b)[j] = b[j - p]
      BY <1>8, <1>9, <2>2
    <3>4. QED
      BY <1>1, <2>2, <3>2, <3>3
  <2>3. QED
    BY <2>1, <2>2
<1>11. QED
  BY <1>6, <1>8, <1>9, <1>10 DEF n

\* Where a time belongs in the table: what std::lower_bound finds.
LEMMA PlaceOf ==
  ASSUME NEW freq \in Seq(Row), NEW key \in Times, Sorted(freq)
  PROVE  /\ Len(freq) \in Nat /\ DOMAIN freq = 1 .. Len(freq) /\ key \in Int
         /\ \A i \in 1 .. Len(freq) : freq[i] \in Row /\ freq[i][1] \in Times /\ freq[i][1] \in Int
         /\ \A i, j \in 1 .. Len(freq) : i < j => freq[i][1] < freq[j][1]
         /\ \/ /\ Entropy!LowerBound(freq, key) = 0
               /\ \A i \in 1 .. Len(freq) : freq[i][1] < key
            \/ /\ Entropy!LowerBound(freq, key) \in 1 .. Len(freq)
               /\ \A i \in 1 .. Len(freq) :
                    IF i < Entropy!LowerBound(freq, key) THEN freq[i][1] < key
                    ELSE freq[i][1] >= key
<1> DEFINE I == {i \in 1 .. Len(freq) : freq[i][1] >= key}
           it == Entropy!LowerBound(freq, key)
<1>1. it = IF I # {} THEN Min(I) ELSE 0
  BY DEF Entropy!LowerBound, Entropy!SelectInSeq, Entropy!Min, Min
<1> HIDE DEF it
<1>2. /\ Len(freq) \in Nat /\ DOMAIN freq = 1 .. Len(freq) /\ key \in Int
      /\ \A i \in 1 .. Len(freq) : freq[i] \in Row /\ freq[i][1] \in Times /\ freq[i][1] \in Int
  <2>1. \A i \in 1 .. Len(freq) : freq[i] \in Row
    BY ElementOfSeq
  <2>2. \A r \in Row : r[1] \in Times
    BY DEF Row
  <2>3. Times \subseteq Int
    BY StdrelAssumption
  <2>4. \A i \in 1 .. Len(freq) : freq[i] \in Row /\ freq[i][1] \in Times /\ freq[i][1] \in Int
    BY <2>1, <2>2, <2>3
  <2>5. key \in Int
    BY <2>3
  <2>6. QED
    BY <2>4, <2>5, LenProperties
<1>3. \A i, j \in 1 .. Len(freq) : i < j => freq[i][1] < freq[j][1]
  BY <1>2 DEF Sorted
<1>4. CASE I = {}
  <2>1. it = 0
    BY <1>1, <1>4
  <2>2. \A i \in 1 .. Len(freq) : freq[i][1] < key
    BY <1>2, <1>4
  <2>3. QED
    BY <1>2, <1>3, <2>1, <2>2 DEF it
<1>5. CASE I # {}
  <2>1. it \in I /\ \A i \in I : it <= i
    <3>1. I \in SUBSET Nat
      OBVIOUS
    <3> HIDE DEF I
    <3>2. QED
      BY <1>1, <1>5, <3>1, MinIsLeast
  <2>2. it \in 1 .. Len(freq) /\ freq[it][1] >= key
    BY <2>1
  <2>3. ASSUME NEW i \in 1 .. Len(freq), i < it PROVE freq[i][1] < key
    <3>1. i \notin I
      <4> HIDE DEF I
      <4>1. i \in Int /\ it \in Int
        BY <1>2, <2>2
      <4>2. QED
        BY <2>1, <2>3, <4>1
    <3>2. QED
      BY <1>2, <3>1
  <2>4. ASSUME NEW i \in 1 .. Len(freq), ~(i < it) PROVE freq[i][1] >= key
    <3>1. i = it \/ it < i
      BY <1>2, <2>2, <2>4
    <3>2. it < i => freq[it][1] < freq[i][1]
      BY <1>3, <2>2
    <3>3. QED
      BY <1>2, <2>2, <3>1, <3>2
  <2>5. \A i \in 1 .. Len(freq) : IF i < it THEN freq[i][1] < key ELSE freq[i][1] >= key
    BY <2>3, <2>4
  <2>6. QED
    BY <1>2, <1>3, <2>2, <2>5 DEF it
<1>6. QED
  BY <1>4, <1>5

\* entropy_criterion::do_add_measurement: the table stays in order and has one
\* occurrence more of the time.
LEMMA CountedIs ==
  ASSUME NEW freq \in Seq(Row), NEW key \in Times, Sorted(freq),
         NEW occ \in [Times -> Nat], Holds(freq, occ)
  PROVE  /\ Entropy!Counted(freq, key) \in Seq(Row)
         /\ Sorted(Entropy!Counted(freq, key))
         /\ Holds(Entropy!Counted(freq, key), [occ EXCEPT ![key] = @ + 1])
         /\ Entropy!Counted(freq, key) # <<>>
<1> DEFINE m == Len(freq)
           it == Entropy!LowerBound(freq, key)
           new == Entropy!Counted(freq, key)
           more == [occ EXCEPT ![key] = @ + 1]
<1>1. /\ m \in Nat /\ DOMAIN freq = 1 .. m /\ key \in Int
      /\ \A i \in 1 .. m : freq[i] \in Row /\ freq[i][1] \in Times /\ freq[i][1] \in Int
      /\ \A i, j \in 1 .. m : i < j => freq[i][1] < freq[j][1]
      /\ \/ it = 0 /\ \A i \in 1 .. m : freq[i][1] < key
         \/ /\ it \in 1 .. m
            /\ \A i \in 1 .. m : IF i < it THEN freq[i][1] < key ELSE freq[i][1] >= key
  BY PlaceOf
<1>2. more \in [Times -> Nat] /\ \A k \in Times : more[k] = IF k = key THEN occ[k] + 1 ELSE occ[k]
  OBVIOUS
<1>3. \A i \in 1 .. m : freq[i][2] = occ[freq[i][1]] /\ freq[i][2] \in Nat \ {0}
                        /\ freq[i] = <<freq[i][1], freq[i][2]>>
  <2>1. \A r \in Row : r[2] \in Nat \ {0} /\ r = <<r[1], r[2]>>
    BY DEF Row
  <2>2. QED
    BY <1>1, <2>1 DEF Holds
<1>4. \A k \in Times : occ[k] # 0 => \E i \in 1 .. m : freq[i][1] = k
  BY <1>1 DEF Holds
<1>5. <<key, 1>> \in Row /\ <<key, 1>>[1] = key /\ <<key, 1>>[2] = 1
  BY DEF Row
<1>6. it # 0 => it \in 1 .. m /\ freq[it][1] >= key
  BY <1>1
<1>7. new = IF it # 0 /\ freq[it][1] = key THEN [freq EXCEPT ![it][2] = @ + 1]
            ELSE IF it # 0 THEN InsertAt(freq, it, <<key, 1>>) ELSE Append(freq, <<key, 1>>)
  BY DEF Entropy!Counted, Entropy!InsertAt, InsertAt
<1> HIDE DEF it, new, more
\* A time that is new has not occurred.
<1>8. ASSUME \A i \in 1 .. m : freq[i][1] # key PROVE occ[key] = 0 /\ more[key] = 1
  BY <1>2, <1>4, <1>8
<1>9. CASE it # 0 /\ freq[it][1] = key
  <2> DEFINE r == <<key, freq[it][2] + 1>>
  <2>1. r \in Row /\ r[1] = key /\ r[2] = freq[it][2] + 1
    BY <1>3, <1>6, <1>9 DEF Row
  <2>2. [freq[it] EXCEPT ![2] = @ + 1] = r
    <3>1. freq[it] = <<key, freq[it][2]>> /\ freq[it][2] \in Nat
      BY <1>3, <1>6, <1>9
    <3> DEFINE c == freq[it][2]
    <3> HIDE DEF c
    <3>2. [<<key, c>> EXCEPT ![2] = @ + 1] = <<key, c + 1>>
      OBVIOUS
    <3>3. QED
      BY <3>1, <3>2 DEF c
  <2> HIDE DEF r
  <2>3. new = [freq EXCEPT ![it] = r]
    BY <1>7, <1>9, <2>2
  <2>4. /\ new \in Seq(Row) /\ Len(new) = m /\ DOMAIN new = 1 .. m
        /\ \A i \in 1 .. m : new[i] = IF i = it THEN r ELSE freq[i]
    <3>1. [freq EXCEPT ![it] = r] \in Seq(Row) /\ Len([freq EXCEPT ![it] = r]) = m
      BY <1>6, <1>9, <2>1, ExceptSeq
    <3>2. QED
      BY <1>1, <2>3, <3>1, LenProperties
  <2>5. \A i \in 1 .. m : new[i][1] = freq[i][1]
    BY <1>9, <2>1, <2>4
  <2>6. Sorted(new)
    BY <1>1, <2>4, <2>5 DEF Sorted
  <2>7. \A i \in 1 .. m : new[i][2] = more[new[i][1]]
    <3> TAKE i \in 1 .. m
    <3>1. CASE i = it
      BY <1>2, <1>3, <1>6, <1>9, <2>1, <2>4, <3>1
    <3>2. CASE i # it
      <4>1. freq[i][1] # key
        BY <1>1, <1>6, <1>9, <3>2
      <4>2. QED
        BY <1>1, <1>2, <1>3, <2>4, <3>2, <4>1
    <3>3. QED
      BY <3>1, <3>2
  <2>8. \A k \in Times : more[k] # 0 => \E i \in 1 .. m : new[i][1] = k
    BY <1>2, <1>4, <1>6, <1>9, <2>5
  <2>9. QED
    BY <1>6, <1>9, <2>4, <2>6, <2>7, <2>8 DEF Holds, new, more
<1>10. CASE it # 0 /\ freq[it][1] # key
  <2> DEFINE e == <<key, 1>>
  <2>1. /\ \A i \in 1 .. m : i < it => freq[i][1] < key
        /\ \A i \in 1 .. m : ~(i < it) => freq[i][1] > key
    <3>1. freq[it][1] > key
      BY <1>1, <1>6, <1>10
    <3>2. ASSUME NEW i \in 1 .. m, ~(i < it) PROVE freq[i][1] > key
      <4>1. i = it \/ freq[it][1] < freq[i][1]
        BY <1>1, <1>6, <1>10, <3>2
      <4>2. QED
        BY <1>1, <1>6, <1>10, <3>1, <4>1
    <3>3. QED
      BY <1>1, <1>6, <1>10, <3>2
  <2>2. occ[key] = 0 /\ more[key] = 1
    BY <1>1, <1>8, <2>1
  <2>3. it \in 1 .. m + 1 /\ it \in Int
    BY <1>1, <1>6, <1>10
  <2>4. new = InsertAt(freq, it, e)
    BY <1>7, <1>10
  <2> e[1] = key /\ e[2] = 1 /\ e \in Row
    BY <1>5
  <2> HIDE DEF e
  <2>5. /\ new \in Seq(Row) /\ Len(new) = m + 1 /\ DOMAIN new = 1 .. m + 1
        /\ \A i \in 1 .. m + 1 : new[i] = IF i < it THEN freq[i] ELSE IF i = it THEN e ELSE freq[i - 1]
    <3> DEFINE I == InsertAt(freq, it, e)
    <3>1. /\ I \in Seq(Row) /\ Len(I) = m + 1
          /\ \A j \in 1 .. m + 1 : I[j] = IF j < it THEN freq[j] ELSE IF j = it THEN e ELSE freq[j - 1]
      BY <2>3, InsertAtIs
    <3>2. new = I
      BY <2>4
    <3> HIDE DEF I
    <3>3. DOMAIN new = 1 .. m + 1
      BY <3>1, <3>2, LenProperties
    <3>4. QED
      BY <3>1, <3>2, <3>3
  <2>6. ASSUME NEW i \in 1 .. m + 1
        PROVE  \/ i < it /\ i \in 1 .. m /\ new[i] = freq[i] /\ freq[i][1] < key
               \/ i = it /\ new[i] = e
               \/ it < i /\ i - 1 \in 1 .. m /\ new[i] = freq[i - 1] /\ key < freq[i - 1][1]
    <3>1. CASE i < it
      BY <1>1, <2>1, <2>3, <2>5, <3>1, <1>6, <1>10
    <3>2. CASE i = it
      BY <2>3, <2>5, <3>2
    <3>3. CASE it < i
      <4>1. i - 1 \in 1 .. m /\ ~(i - 1 < it) /\ ~(i < it) /\ i # it
        BY <1>1, <2>3, <3>3
      <4>2. freq[i - 1][1] > key
        BY <2>1, <4>1
      <4>3. QED
        BY <1>1, <2>5, <3>3, <4>1, <4>2
    <3>4. QED
      BY <2>3, <3>1, <3>2, <3>3
  <2>7. ASSUME NEW i \in 1 .. m + 1, NEW j \in 1 .. m + 1, i < j PROVE new[i][1] < new[j][1]
    <3>1. CASE j < it
      BY <1>1, <2>3, <2>6, <2>7, <3>1
    <3>2. CASE j = it
      BY <1>1, <2>3, <2>6, <2>7, <3>2
    <3>3. CASE it < j
      <4>1. j - 1 \in 1 .. m /\ new[j] = freq[j - 1] /\ key < freq[j - 1][1]
        BY <2>3, <2>6, <3>3
      <4>2. CASE i < it
        <5>1. i \in 1 .. m /\ new[i] = freq[i] /\ i < j - 1
          BY <1>1, <2>3, <2>6, <3>3, <4>2
        <5>2. QED
          BY <1>1, <4>1, <5>1
      <4>3. CASE i = it
        BY <2>3, <2>6, <4>1, <4>3
      <4>4. CASE it < i
        <5>1. i - 1 \in 1 .. m /\ new[i] = freq[i - 1] /\ i - 1 < j - 1
          BY <1>1, <2>3, <2>6, <2>7, <4>4
        <5>2. QED
          BY <1>1, <4>1, <5>1
      <4>5. QED
        BY <2>3, <4>2, <4>3, <4>4
    <3>4. QED
      BY <2>3, <3>1, <3>2, <3>3
  <2>8. ASSUME NEW i \in 1 .. m + 1 PROVE new[i][2] = more[new[i][1]]
    <3>1. CASE i = it
      BY <2>2, <2>3, <2>6, <3>1
    <3>2. ASSUME NEW j \in 1 .. m, new[i] = freq[j], freq[j][1] # key PROVE new[i][2] = more[new[i][1]]
      BY <1>1, <1>2, <1>3, <3>2
    <3>3. CASE i < it
      BY <1>1, <2>3, <2>6, <3>2, <3>3
    <3>4. CASE it < i
      BY <1>1, <2>3, <2>6, <3>2, <3>4
    <3>5. QED
      BY <2>3, <3>1, <3>3, <3>4
  <2>9. ASSUME NEW k \in Times, more[k] # 0 PROVE \E i \in 1 .. m + 1 : new[i][1] = k
    <3>1. CASE k = key
      BY <2>3, <2>6, <3>1
    <3>2. CASE k # key
      <4>1. PICK i \in 1 .. m : freq[i][1] = k
        BY <1>2, <1>4, <2>9, <3>2
      <4>2. CASE i < it
        BY <1>1, <2>5, <4>1, <4>2
      <4>3. CASE ~(i < it)
        <5>1. i + 1 \in 1 .. m + 1 /\ ~(i + 1 < it) /\ i + 1 # it /\ i + 1 - 1 = i
          BY <1>1, <2>3, <4>3
        <5>2. new[i + 1] = freq[i]
          BY <2>5, <5>1
        <5>3. QED
          BY <4>1, <5>1, <5>2
      <4>4. QED
        BY <4>2, <4>3
    <3>3. QED
      BY <3>1, <3>2
  <2>10. Sorted(new) /\ Holds(new, more)
    BY <2>5, <2>7, <2>8, <2>9 DEF Holds, Sorted
  <2>11. new # <<>>
    BY <1>1, <2>5
  <2>12. QED
    BY <2>5, <2>10, <2>11 DEF new, more
<1>11. CASE it = 0
  <2> DEFINE e == <<key, 1>>
  <2> e[1] = key /\ e[2] = 1 /\ e \in Row
    BY <1>5
  <2>1. \A i \in 1 .. m : freq[i][1] < key
    BY <1>1, <1>11
  <2>2. occ[key] = 0 /\ more[key] = 1
    BY <1>1, <1>8, <2>1
  <2>3. new = Append(freq, e)
    BY <1>7, <1>11
  <2> HIDE DEF e
  <2>4. /\ new \in Seq(Row) /\ Len(new) = m + 1 /\ DOMAIN new = 1 .. m + 1
        /\ new[m + 1] = e /\ \A i \in 1 .. m : new[i] = freq[i]
    <3>1. /\ Append(freq, e) \in Seq(Row) /\ Len(Append(freq, e)) = m + 1
          /\ Append(freq, e)[m + 1] = e /\ \A i \in 1 .. m : Append(freq, e)[i] = freq[i]
      BY AppendProperties
    <3>2. QED
      BY <2>3, <3>1, LenProperties
  <2>5. \A i \in 1 .. m + 1 : i = m + 1 \/ i \in 1 .. m
    BY <1>1
  <2>6. Sorted(new)
    <3>1. ASSUME NEW i \in 1 .. m + 1, NEW j \in 1 .. m + 1, i < j PROVE new[i][1] < new[j][1]
      <4>1. i \in 1 .. m /\ new[i][1] < key
        BY <1>1, <2>1, <2>4, <2>5, <3>1
      <4>2. CASE j = m + 1
        BY <2>4, <4>1, <4>2
      <4>3. CASE j \in 1 .. m
        BY <1>1, <2>4, <3>1, <4>1, <4>3
      <4>4. QED
        BY <2>5, <4>2, <4>3
    <3>2. QED
      BY <2>4, <3>1 DEF Sorted
  <2>7. ASSUME NEW i \in 1 .. m + 1 PROVE new[i][2] = more[new[i][1]]
    <3>1. CASE i = m + 1
      BY <2>2, <2>4, <3>1
    <3>2. CASE i \in 1 .. m
      <4>1. freq[i][1] # key
        BY <1>1, <2>1, <3>2
      <4>2. QED
        BY <1>1, <1>2, <1>3, <2>4, <3>2, <4>1
    <3>3. QED
      BY <2>5, <3>1, <3>2
  <2>8. ASSUME NEW k \in Times, more[k] # 0 PROVE \E i \in 1 .. m + 1 : new[i][1] = k
    <3>1. CASE k = key
      BY <1>1, <2>4, <3>1
    <3>2. CASE k # key
      <4>1. PICK i \in 1 .. m : freq[i][1] = k
        BY <1>2, <1>4, <2>8, <3>2
      <4>2. i \in 1 .. m + 1 /\ new[i][1] = k
        BY <1>1, <2>4, <4>1
      <4>3. QED
        BY <4>2
    <3>3. QED
      BY <3>1, <3>2
  <2>9. QED
    BY <1>1, <2>4, <2>6, <2>7, <2>8 DEF Holds, new, more
<1>12. QED
  BY <1>9, <1>10, <1>11

-----------------------------------------------------------------------------
(* The entropy of a history                                                *)

\* The sum is the same in both modules.
LEMMA SumIsSame == ASSUME NEW f PROVE Entropy!SumFunction(f) = SumFunction(f)
BY DEF Entropy!SumFunction, Entropy!SumFunctionOnSet, Entropy!FoldFunctionOnSet,
       Entropy!MapThenFoldSet, SumFunction, SumFunctionOnSet, FoldFunctionOnSet, MapThenFoldSet

\* The logarithms are in order.
LEMMA Logarithms ==
  /\ Len(Log2) \in Nat \ {0} /\ DOMAIN Log2 = 1 .. Len(Log2) /\ Log2 \in Seq(Nat)
  /\ \A n \in 1 .. Len(Log2) : Log2[n] \in Nat /\ Log2[n] <= Log2[Len(Log2)]
  /\ \A m, n \in 1 .. Len(Log2) : m <= n => Log2[m] <= Log2[n]
<1>1. Log2 \in Seq(Nat) \ {<<>>} /\ \A i, j \in DOMAIN Log2 : i <= j => Log2[i] <= Log2[j]
  BY CriteriaAssumption DEF Entropy!ParametersOK
<1>2. Len(Log2) \in Nat \ {0} /\ DOMAIN Log2 = 1 .. Len(Log2)
  BY <1>1, LenProperties, EmptySeq
<1>3. \A n \in 1 .. Len(Log2) : Log2[n] \in Nat
  BY <1>1, ElementOfSeq
<1>4. QED
  BY <1>1, <1>2, <1>3

Count(s, key, n) == Cardinality({i \in 1 .. n : s[i] = key})

Occurring(s, n) == {s[i] : i \in 1 .. n}

\* count * log2(count), for each time that occurred.
Terms(s, n) == [key \in Occurring(s, n) |-> Count(s, key, n) * Log2[Count(s, key, n)]]

EntropyOf(s, n) == Log2[n] - SumFunction(Terms(s, n)) \div n

OccurrencesIn(s) == [key \in Times |-> Count(s, key, Len(s))]

EntropiesOf(s) == [n \in 1 .. Len(s) |-> EntropyOf(s, n)]

\* The model's definitions are these, of the history.
LEMMA HistoryIs ==
  /\ \A key, n : Entropy!Occurrences(key, n) = Count(added, key, n)
  /\ \A n : Entropy!EntropyAfter(n) = EntropyOf(added, n)
<1>1. \A key, n : Entropy!Occurrences(key, n) = Count(added, key, n)
  BY DEF Entropy!Occurrences, Count, Entropy!Cardinality, Cardinality
<1>2. QED
  BY <1>1, SumIsSame DEF Entropy!EntropyAfter, EntropyOf, Terms, Occurring

\* Each time that occurred did so between once and n times.
LEMMA CountsAre ==
  ASSUME NEW n \in Nat, NEW s
  PROVE  /\ IsFiniteSet(Occurring(s, n))
         /\ \A key : Count(s, key, n) \in 0 .. n
         /\ \A key : Count(s, key, n) # 0 <=> key \in Occurring(s, n)
         /\ SumFunction([key \in Occurring(s, n) |-> Count(s, key, n)]) = n
<1>1. /\ IsFiniteSet(Occurring(s, n))
      /\ \A key : Count(s, key, n) \in 0 .. n
      /\ SumFunction([key \in Occurring(s, n) |-> Count(s, key, n)]) = n
  BY SumOfCounts DEF Occurring, Count
<1>2. ASSUME NEW key PROVE Count(s, key, n) # 0 <=> key \in Occurring(s, n)
  <2> DEFINE D == {i \in 1 .. n : s[i] = key}
  <2>1. IsFiniteSet(D)
    <3>1. IsFiniteSet(1 .. n) /\ D \subseteq 1 .. n
      BY FS_Interval
    <3> HIDE DEF D
    <3>2. QED
      BY <3>1, FS_Subset
  <2>2. Cardinality(D) = 0 <=> D = {}
    BY <2>1, FS_EmptySet
  <2>3. D # {} <=> key \in Occurring(s, n)
    BY DEF Occurring
  <2>4. QED
    BY <2>2, <2>3 DEF Count
<1>3. QED
  BY <1>1, <1>2

\* The part of a value that is at most as often in it.
LEMMA Quotient ==
  ASSUME NEW n \in Nat \ {0}, NEW a \in Nat, NEW x \in Nat, x <= a * n
  PROVE  x \div n \in 0 .. a
<1> DEFINE q == x \div n
           r == x % n
<1>1. q \in Int /\ r \in 0 .. n - 1 /\ x = n * q + r
  OBVIOUS
<1> HIDE DEF q, r
<1>2. q >= 0
  <2>1. q < 0 => n * q <= 0 - n
    BY <1>1
  <2>2. QED
    BY <1>1, <2>1
<1>3. q <= a
  <2>1. q > a => n * q >= n * a + n
    BY <1>1
  <2>2. n * a = a * n
    OBVIOUS
  <2>3. QED
    BY <1>1, <2>1, <2>2
<1>4. QED
  BY <1>1, <1>2, <1>3 DEF q

\* No distribution of n samples has more than log2(n).
LEMMA EntropyIsEntropy ==
  ASSUME NEW s, NEW n \in 1 .. Len(Log2)
  PROVE  EntropyOf(s, n) \in Entropy!Entropies
<1> DEFINE D == Occurring(s, n)
           c == [key \in D |-> Count(s, key, n)]
           v == Terms(s, n)
           a == Log2[n]
           up == [key \in D |-> a * c[key]]
           zero == [key \in D |-> 0 * c[key]]
           total == SumFunction(v)
<1>1. n \in Nat \ {0} /\ a \in Nat /\ a <= Log2[Len(Log2)] /\ Log2[Len(Log2)] \in Nat
  BY Logarithms
<1>2. /\ IsFiniteSet(D) /\ SumFunction(c) = n /\ c \in [D -> Int]
      /\ \A key \in D : c[key] \in 1 .. n
  <2>1. \A key \in D : c[key] \in 0 .. n /\ c[key] # 0
    BY <1>1, CountsAre
  <2>2. \A key \in D : c[key] \in 1 .. n
    BY <1>1, <2>1
  <2>3. QED
    BY <1>1, <2>2, CountsAre
<1>3. \A key \in D : v[key] = c[key] * Log2[c[key]]
  BY DEF Terms
<1>4. DOMAIN v = D /\ v = [key \in D |-> v[key]]
  BY DEF Terms
<1> HIDE DEF D, c, v, a
<1>5. \A key \in D : Log2[c[key]] \in Nat /\ Log2[c[key]] <= a
  BY <1>1, <1>2, Logarithms DEF a
<1>6. ASSUME NEW key \in D PROVE v[key] \in Nat /\ 0 * c[key] <= v[key] /\ v[key] <= a * c[key]
  <2> DEFINE x == c[key]
             y == Log2[c[key]]
  <2>1. x \in Nat /\ y \in Nat /\ y <= a /\ a \in Nat /\ v[key] = x * y
    BY <1>1, <1>2, <1>3, <1>5
  <2> HIDE DEF x, y
  <2>2. x * y \in Nat /\ 0 * x = 0 /\ x * y <= a * x
    <3>1. PICK d \in Nat : a = y + d
      <4>1. a - y \in Nat /\ a = y + (a - y)
        BY <2>1
      <4>2. QED
        BY <4>1
    <3>2. (y + d) * x = x * y + d * x /\ d * x \in Nat /\ x * y \in Nat
      BY <2>1
    <3>3. QED
      BY <2>1, <3>1, <3>2
  <2>3. QED
    BY <2>1, <2>2 DEF x
<1>7. /\ v \in [D -> Int] /\ up \in [D -> Int] /\ zero \in [D -> Int]
      /\ \A key \in D : zero[key] <= v[key] /\ v[key] <= up[key]
  BY <1>1, <1>2, <1>4, <1>6
<1>8. SumFunction(up) = a * n
  <2>1. a \in Int
    BY <1>1
  <2>2. SumFunction(up) = a * SumFunction(c)
    BY <1>2, <2>1, SumIsLinear
  <2>3. QED
    BY <1>2, <2>2
<1>9. SumFunction(zero) = 0 * n
  BY <1>2, SumIsLinear
<1> HIDE DEF up, zero
<1>10. SumFunction(zero) <= total /\ total <= SumFunction(up) /\ total \in Int
  <2>1. SumFunction(zero) <= SumFunction(v)
    BY <1>2, <1>7, SumIsMonotonic
  <2>2. SumFunction(v) <= SumFunction(up)
    BY <1>2, <1>7, SumIsMonotonic
  <2>3. SumFunction(v) \in Int
    BY <1>2, <1>7, SumOver
  <2>4. QED
    BY <2>1, <2>2, <2>3
<1>11. total \in Nat /\ total <= a * n
  BY <1>1, <1>8, <1>9, <1>10
<1> HIDE DEF total
<1>12. total \div n \in 0 .. a
  BY <1>1, <1>11, Quotient
<1>13. EntropyOf(s, n) = a - total \div n
  BY DEF EntropyOf, a, total, v
<1>14. QED
  BY <1>1, <1>12, <1>13 DEF Entropy!Entropies

\* The same times before n, the same entropy.
LEMMA EntropyOfPrefix ==
  ASSUME NEW s, NEW r, NEW n \in Nat, \A i \in 1 .. n : r[i] = s[i]
  PROVE  /\ \A key : Count(r, key, n) = Count(s, key, n)
         /\ EntropyOf(r, n) = EntropyOf(s, n)
<1>1. \A key : Count(r, key, n) = Count(s, key, n)
  <2>1. \A key : {i \in 1 .. n : r[i] = key} = {i \in 1 .. n : s[i] = key}
    OBVIOUS
  <2>2. QED
    BY <2>1 DEF Count
<1>2. Occurring(r, n) = Occurring(s, n)
  BY DEF Occurring
<1>3. Terms(r, n) = Terms(s, n)
  BY <1>1, <1>2 DEF Terms
<1>4. QED
  BY <1>1, <1>3 DEF EntropyOf

\* One measurement more, one occurrence more.
LEMMA OccurrencesOfAppend ==
  ASSUME NEW s \in Seq(Times), NEW t \in Times
  PROVE  /\ OccurrencesIn(s) \in [Times -> Nat]
         /\ OccurrencesIn(Append(s, t)) = [OccurrencesIn(s) EXCEPT ![t] = @ + 1]
<1> DEFINE n == Len(s)
           r == Append(s, t)
<1>1. n \in Nat /\ Len(r) = n + 1 /\ r[n + 1] = t /\ \A i \in 1 .. n : r[i] = s[i]
  BY AppendProperties, LenProperties
<1> HIDE DEF n, r
<1>2. \A key : Count(s, key, n) \in Nat
  <2>1. \A key : Count(s, key, n) \in 0 .. n
    BY <1>1, CountsAre
  <2>2. QED
    BY <1>1, <2>1
<1>3. ASSUME NEW key \in Times
      PROVE  Count(r, key, n + 1) = IF key = t THEN Count(s, key, n) + 1 ELSE Count(s, key, n)
  <2> DEFINE D == {i \in 1 .. n : s[i] = key}
             E == {i \in 1 .. n + 1 : r[i] = key}
  <2>1. IsFiniteSet(D) /\ n + 1 \notin D
    <3>1. IsFiniteSet(1 .. n) /\ D \subseteq 1 .. n /\ n + 1 \notin 1 .. n
      BY <1>1, FS_Interval
    <3> HIDE DEF D
    <3>2. QED
      BY <3>1, FS_Subset
  <2>2. E = IF key = t THEN D \cup {n + 1} ELSE D
    <3>1. \A i : i \in 1 .. n + 1 <=> i \in 1 .. n \/ i = n + 1
      BY <1>1
    <3>2. \A i : i \in E <=> i \in D \/ (i = n + 1 /\ key = t)
      <4>1. \A i : i \in E <=> i \in 1 .. n + 1 /\ r[i] = key
        OBVIOUS
      <4>2. \A i : i \in D <=> i \in 1 .. n /\ s[i] = key
        OBVIOUS
      <4> HIDE DEF D, E
      <4>3. QED
        BY <1>1, <3>1, <4>1, <4>2
    <3> HIDE DEF D, E
    <3>3. QED
      BY <3>2
  <2>3. Count(r, key, n + 1) = Cardinality(E) /\ Count(s, key, n) = Cardinality(D)
    BY DEF Count
  <2> HIDE DEF D, E
  <2>4. Cardinality(D \cup {n + 1}) = Cardinality(D) + 1
    BY <2>1, FS_AddElement
  <2>5. QED
    BY <2>2, <2>3, <2>4
<1> DEFINE o == [OccurrencesIn(s) EXCEPT ![t] = @ + 1]
<1>4. \A key \in Times : OccurrencesIn(s)[key] = Count(s, key, n)
  BY DEF OccurrencesIn, n
<1>5. OccurrencesIn(s) \in [Times -> Nat]
  BY <1>2 DEF OccurrencesIn, n
<1>6. o = [key \in Times |-> IF key = t THEN Count(s, key, n) + 1 ELSE Count(s, key, n)]
  BY <1>4, <1>5
<1>7. OccurrencesIn(r) = [key \in Times |-> Count(r, key, n + 1)]
  BY <1>1 DEF OccurrencesIn
<1>8. OccurrencesIn(r) = o
  <2> HIDE DEF o
  <2>1. QED
    BY <1>3, <1>6, <1>7
<1>9. QED
  BY <1>5, <1>8 DEF r

\* The entropies before are not changed by one measurement more.
LEMMA EntropiesOfAppend ==
  ASSUME NEW s \in Seq(Times), NEW t \in Times, Len(s) < Len(Log2)
  PROVE  /\ EntropiesOf(s) \in Seq(Entropy!Entropies) /\ Len(EntropiesOf(s)) = Len(s)
         /\ EntropyOf(Append(s, t), Len(s) + 1) \in Entropy!Entropies
         /\ EntropiesOf(Append(s, t)) = Append(EntropiesOf(s), EntropyOf(Append(s, t), Len(s) + 1))
<1> DEFINE n == Len(s)
           r == Append(s, t)
           e == EntropyOf(r, n + 1)
<1>1. n \in Nat /\ Len(r) = n + 1 /\ \A i \in 1 .. n : r[i] = s[i]
  BY AppendProperties, LenProperties
<1>2. n < Len(Log2) /\ Len(Log2) \in Nat
  BY Logarithms DEF n
<1> HIDE DEF n, r
<1>3. \A i \in 1 .. n : EntropyOf(r, i) = EntropyOf(s, i)
  <2> TAKE i \in 1 .. n
  <2>1. i \in Nat /\ \A j \in 1 .. i : r[j] = s[j]
    BY <1>1
  <2>2. QED
    BY <2>1, EntropyOfPrefix
<1>4. \A i \in 1 .. n : EntropyOf(s, i) \in Entropy!Entropies
  <2> TAKE i \in 1 .. n
  <2>1. i \in 1 .. Len(Log2)
    BY <1>1, <1>2
  <2>2. QED
    BY <2>1, EntropyIsEntropy
<1>5. e \in Entropy!Entropies
  <2>1. n + 1 \in 1 .. Len(Log2)
    BY <1>1, <1>2
  <2>2. QED
    BY <2>1, EntropyIsEntropy
<1> HIDE DEF e
<1> DEFINE f == [i \in 1 .. n |-> EntropyOf(s, i)]
<1>6. EntropiesOf(s) = f
  BY DEF EntropiesOf, n
<1>7. f \in Seq(Entropy!Entropies) /\ Len(f) = n /\ \A i \in 1 .. n : f[i] = EntropyOf(s, i)
  <2>1. f \in [1 .. n -> Entropy!Entropies]
    BY <1>4
  <2>2. \A i \in 1 .. n : f[i] = EntropyOf(s, i)
    OBVIOUS
  <2> HIDE DEF f
  <2>3. f \in Seq(Entropy!Entropies)
    BY <1>1, <2>1, SeqDef
  <2>4. DOMAIN f = 1 .. n
    BY <2>1
  <2>5. Len(f) = n
    BY <1>1, <2>3, <2>4, LenProperties
  <2>6. QED
    BY <2>2, <2>3, <2>5
<1> HIDE DEF f
<1> DEFINE g == Append(f, e)
           h == [i \in 1 .. n + 1 |-> EntropyOf(r, i)]
<1>8. EntropiesOf(r) = h
  BY <1>1 DEF EntropiesOf
<1>9. /\ g \in Seq(Entropy!Entropies) /\ Len(g) = n + 1 /\ g[n + 1] = e
      /\ \A i \in 1 .. n : g[i] = f[i]
  BY <1>5, <1>7, AppendProperties
<1>10. DOMAIN g = 1 .. n + 1 /\ g = [i \in 1 .. n + 1 |-> g[i]]
  <2> HIDE DEF g
  <2>1. DOMAIN g = 1 .. n + 1
    BY <1>9, LenProperties
  <2>2. g = [i \in DOMAIN g |-> g[i]]
    <3>1. g \in [1 .. Len(g) -> Entropy!Entropies]
      BY <1>9, LenProperties
    <3>2. QED
      BY <3>1
  <2>3. QED
    BY <2>1, <2>2
<1>11. \A i \in 1 .. n + 1 : g[i] = EntropyOf(r, i)
  <2> TAKE i \in 1 .. n + 1
  <2>1. CASE i = n + 1
    BY <1>9, <2>1 DEF e
  <2>2. CASE i \in 1 .. n
    BY <1>3, <1>7, <1>9, <2>2
  <2>3. i = n + 1 \/ i \in 1 .. n
    BY <1>1
  <2>4. QED
    BY <2>1, <2>2, <2>3
<1>12. g = h
  <2> HIDE DEF g
  <2>1. QED
    BY <1>10, <1>11
<1>13. QED
  BY <1>5, <1>6, <1>7, <1>8, <1>12 DEF n, r, e

\* compute_entropy: what it makes of the table is the entropy of the history.
LEMMA TableHasEntropy ==
  ASSUME NEW freq \in Seq(Row), Sorted(freq), freq # <<>>, NEW s \in Seq(Times),
         Len(s) \in 1 .. Len(Log2), Holds(freq, OccurrencesIn(s))
  PROVE  Entropy!compute_entropy(freq, Len(s)) = EntropyOf(s, Len(s))
<1> DEFINE n == Len(s)
           m == Len(freq)
           v == [i \in DOMAIN freq |-> freq[i][2] * Log2[freq[i][2]]]
           h == [i \in DOMAIN freq |-> freq[i][1]]
           w == Terms(s, n)
<1>1. /\ m \in Nat /\ DOMAIN freq = 1 .. m /\ n \in 1 .. Len(Log2) /\ n \in Nat
  BY LenProperties
<1> HIDE DEF n, m
<1>2. \A i \in 1 .. m : freq[i] \in Row /\ freq[i][1] \in Times /\ freq[i][1] \in Int
                        /\ freq[i][2] = Count(s, freq[i][1], n) /\ freq[i][2] # 0
  <2>1. \A i \in 1 .. m : freq[i] \in Row
    BY ElementOfSeq DEF m
  <2>2. \A r \in Row : r[1] \in Times /\ r[2] # 0
    BY DEF Row
  <2>3. Times \subseteq Int
    BY StdrelAssumption
  <2>4. \A i \in 1 .. m : freq[i] \in Row /\ freq[i][1] \in Times /\ freq[i][1] \in Int /\ freq[i][2] # 0
    BY <2>1, <2>2, <2>3
  <2>5. \A i \in 1 .. m : freq[i][2] = OccurrencesIn(s)[freq[i][1]]
    BY <1>1 DEF Holds
  <2>6. QED
    BY <2>4, <2>5 DEF OccurrencesIn, n
<1>3. \A key \in Occurring(s, n) : key \in Times /\ Count(s, key, n) # 0
  <2>1. \A i \in 1 .. n : s[i] \in Times
    BY ElementOfSeq DEF n
  <2>2. QED
    BY <1>1, <2>1, CountsAre DEF Occurring
<1>4. {h[i] : i \in DOMAIN freq} = Occurring(s, n)
  <2>1. \A i \in 1 .. m : h[i] = freq[i][1] /\ h[i] \in Occurring(s, n)
    BY <1>1, <1>2, CountsAre
  <2>2. ASSUME NEW key \in Occurring(s, n) PROVE \E i \in 1 .. m : h[i] = key
    <3>1. key \in Times /\ OccurrencesIn(s)[key] # 0
      BY <1>3 DEF OccurrencesIn, n
    <3>2. \E i \in 1 .. m : freq[i][1] = key
      BY <1>1, <3>1 DEF Holds
    <3>3. QED
      BY <2>1, <3>2
  <2> HIDE DEF h
  <2>3. QED
    BY <1>1, <2>1, <2>2
<1>5. \A x, y \in DOMAIN freq : h[x] = h[y] => x = y
  <2> SUFFICES ASSUME NEW x \in 1 .. m, NEW y \in 1 .. m, h[x] = h[y] PROVE x = y
    BY <1>1
  <2>1. freq[x][1] = freq[y][1]
    BY <1>1
  <2>2. ~(freq[x][1] < freq[y][1]) /\ ~(freq[y][1] < freq[x][1])
    BY <1>2, <2>1
  <2>3. ~(x < y) /\ ~(y < x)
    BY <1>1, <2>2 DEF Sorted
  <2>4. QED
    BY <1>1, <2>3
<1>6. \A key \in Occurring(s, n) : Count(s, key, n) * Log2[Count(s, key, n)] \in Int
  <2> TAKE key \in Occurring(s, n)
  <2>1. Count(s, key, n) \in 0 .. n /\ Count(s, key, n) # 0
    BY <1>1, <1>3, CountsAre
  <2>2. Count(s, key, n) \in 1 .. Len(Log2) /\ Count(s, key, n) \in Int
    BY <1>1, <2>1, Logarithms
  <2>3. Log2[Count(s, key, n)] \in Int
    BY <2>2, Logarithms
  <2>4. QED
    BY <2>2, <2>3
<1>7. w \in [Occurring(s, n) -> Int]
  BY <1>6 DEF Terms
<1>8. \A i \in DOMAIN freq : w[h[i]] = v[i] /\ v[i] \in Int
  <2> TAKE i \in DOMAIN freq
  <2>1. h[i] = freq[i][1] /\ h[i] \in Occurring(s, n)
    BY <1>4
  <2>2. w[h[i]] = Count(s, h[i], n) * Log2[Count(s, h[i], n)]
    BY <2>1 DEF Terms
  <2>3. freq[i][2] = Count(s, h[i], n)
    BY <1>1, <1>2, <2>1
  <2>4. w[h[i]] \in Int
    BY <1>7, <2>1
  <2>5. QED
    BY <2>2, <2>3, <2>4
<1>9. v \in [DOMAIN freq -> Int]
  BY <1>8
<1>10. IsFiniteSet(DOMAIN freq)
  BY <1>1, FS_Interval
<1>11. SumFunction(v) = SumFunction(w)
  <2> HIDE DEF v, w, h
  <2>1. \A e \in Occurring(s, n) : \E x \in DOMAIN freq : h[x] = e
    BY <1>4
  <2>2. \A x \in DOMAIN freq : h[x] \in Occurring(s, n)
    BY <1>4
  <2>3. Renamed(DOMAIN freq, v, h, Occurring(s, n), w)
    BY <1>5, <1>7, <1>8, <1>9, <1>10, <2>1, <2>2 DEF Renamed
  <2>4. QED
    BY <2>3, SumIsMoved
<1>12. Entropy!compute_entropy(freq, n) = Log2[n] - SumFunction(v) \div n
  BY SumIsSame DEF Entropy!compute_entropy
<1>13. QED
  BY <1>11, <1>12 DEF EntropyOf, n

-----------------------------------------------------------------------------
(* The entropies of a measurement                                          *)

\* The members of the entropy criterion are what its history makes them: the
\* table counts the times added since the last initialize, and the tracker
\* holds the most recent of the entropies after each of them.
EntropyIs(n, freq, b, s) ==
  /\ s \in Seq(Times) /\ n = Len(s) /\ n \in 0 .. MaxEntropySamples
  /\ freq \in Seq(Row) /\ Sorted(freq) /\ Holds(freq, OccurrencesIn(s))
  /\ EntropyBuffer!Tracks(b, EntropiesOf(s))

EntropyInv == EntropyIs(samples, freqTracker, entropyTracker, added)

\* A new criterion and an initialized one know nothing.
LEMMA NothingAdded ==
  ASSUME NEW b, EntropyBuffer!Tracks(b, <<>>)
  PROVE  EntropyIs(0, <<>>, b, <<>>)
<1>1. /\ <<>> \in Seq(Times) /\ Len(<<>>) = 0 /\ <<>> \in Seq(Row) /\ DOMAIN <<>> = {}
      /\ 0 \in 0 .. MaxEntropySamples
  <2>1. MaxEntropySamples \in Nat
    BY CriteriaAssumption, Logarithms
  <2>2. QED
    BY <2>1
<1>2. Holds(<<>>, OccurrencesIn(<<>>))
  <2>1. ASSUME NEW key \in Times PROVE OccurrencesIn(<<>>)[key] = 0
    <3>1. Count(<<>>, key, 0) \in 0 .. 0
      BY CountsAre
    <3>2. Count(<<>>, key, 0) = 0
      BY <3>1
    <3>3. QED
      BY <1>1, <3>2 DEF OccurrencesIn
  <2>2. QED
    BY <1>1, <2>1 DEF Holds
<1>3. EntropiesOf(<<>>) = <<>>
  BY DEF EntropiesOf
<1>4. Sorted(<<>>)
  BY <1>1 DEF Sorted
<1>5. QED
  BY <1>1, <1>2, <1>3, <1>4 DEF EntropyIs

\* The entropy that is tracked is that of the history with the new time.
LEMMA TimeAdded ==
  ASSUME NEW n, NEW freq, NEW b, NEW s, EntropyIs(n, freq, b, s),
         n < MaxEntropySamples, NEW t \in Times
  PROVE  LET r == Append(s, t)
             table == Entropy!Counted(freq, t)
             e == Entropy!compute_entropy(table, n + 1)
         IN  /\ EntropyIs(n + 1, table, Entropy!Tracker!Pushed(b, e), r)
             /\ e \in Entropy!Entropies
<1> DEFINE r == Append(s, t)
           table == Entropy!Counted(freq, t)
           e == Entropy!compute_entropy(table, n + 1)
<1>1. /\ s \in Seq(Times) /\ n = Len(s) /\ n \in Nat /\ freq \in Seq(Row) /\ Sorted(freq)
      /\ Holds(freq, OccurrencesIn(s)) /\ EntropyBuffer!Tracks(b, EntropiesOf(s))
      /\ n + 1 \in 0 .. MaxEntropySamples /\ n + 1 \in 1 .. Len(Log2) /\ n < Len(Log2)
  <2>1. MaxEntropySamples \in 0 .. Len(Log2) /\ Len(Log2) \in Nat
    BY CriteriaAssumption, Logarithms
  <2>2. QED
    BY <2>1 DEF EntropyIs
<1>2. r \in Seq(Times) /\ Len(r) = n + 1
  BY <1>1, AppendProperties
<1>3. /\ OccurrencesIn(s) \in [Times -> Nat]
      /\ OccurrencesIn(r) = [OccurrencesIn(s) EXCEPT ![t] = @ + 1]
  BY <1>1, OccurrencesOfAppend
<1>4. table \in Seq(Row) /\ Sorted(table) /\ Holds(table, OccurrencesIn(r)) /\ table # <<>>
  <2>1. /\ table \in Seq(Row) /\ Sorted(table) /\ table # <<>>
        /\ Holds(table, [OccurrencesIn(s) EXCEPT ![t] = @ + 1])
    BY <1>1, <1>3, CountedIs
  <2>2. QED
    BY <1>3, <2>1
<1> HIDE DEF r, table
<1>5. e = EntropyOf(r, n + 1)
  BY <1>1, <1>2, <1>4, TableHasEntropy
<1> HIDE DEF e
<1>6. e \in Entropy!Entropies /\ EntropiesOf(r) = Append(EntropiesOf(s), e)
  BY <1>1, <1>5, EntropiesOfAppend DEF r
<1>7. EntropyBuffer!Tracks(Entropy!Tracker!Pushed(b, e), EntropiesOf(r))
  <2>1. EntropyBuffer!Tracks(EntropyBuffer!Pushed(b, e), Append(EntropiesOf(s), e))
    BY <1>1, <1>6, EntropyBufferIs, EntropyBuffer!TracksPushed
  <2>2. QED
    BY <1>6, <2>1, EntropyBufferIs
<1>8. EntropyIs(n + 1, table, Entropy!Tracker!Pushed(b, e), r)
  BY <1>1, <1>2, <1>4, <1>7 DEF EntropyIs
<1>9. QED
  BY <1>6, <1>8 DEF r, table, e

LEMMA EntropyIsInvariant == CriteriaSpec => []EntropyInv
<1>1. CriteriaInit => EntropyInv
  <2> SUFFICES ASSUME CriteriaInit PROVE EntropyInv
    OBVIOUS
  <2>1. /\ samples = 0 /\ freqTracker = <<>> /\ added = <<>>
        /\ entropyTracker = Entropy!Tracker!NewBuffer
    BY DEF CriteriaInit, Entropy!Init
  <2>2. EntropyBuffer!Tracks(entropyTracker, <<>>)
    BY <2>1, EntropyBufferIs, EntropyBuffer!TracksNothing
  <2>3. QED
    BY <2>1, <2>2, NothingAdded DEF EntropyInv
<1>2. EntropyInv /\ [CriteriaNext]_all => EntropyInv'
  <2> SUFFICES ASSUME EntropyInv, [CriteriaNext]_all PROVE EntropyInv'
    OBVIOUS
  <2>1. CASE UNCHANGED entropy
    BY <2>1 DEF entropy, EntropyInv
  <2>2. CASE EntropyInitialize
    <3>1. /\ samples' = 0 /\ freqTracker' = <<>> /\ added' = <<>>
          /\ entropyTracker' = Entropy!Tracker!Cleared(entropyTracker)
      BY <2>2 DEF EntropyInitialize, Entropy!DoInitialize
    <3>2. entropyTracker \in EntropyBuffer!Buffers
      BY DEF EntropyInv, EntropyIs, EntropyBuffer!Tracks
    <3>3. EntropyBuffer!Tracks(entropyTracker', <<>>)
      BY <3>1, <3>2, EntropyBufferIs, EntropyBuffer!TracksNothing
    <3>4. EntropyIs(0, <<>>, entropyTracker', <<>>)
      BY <3>3, NothingAdded
    <3>5. QED
      BY <3>1, <3>4 DEF EntropyInv
  <2>3. ASSUME NEW t \in Times, EntropyAddMeasurement(t) PROVE EntropyInv'
    <3> DEFINE table == Entropy!Counted(freqTracker, t)
               e == Entropy!compute_entropy(table, samples + 1)
    <3>1. /\ samples < MaxEntropySamples /\ samples' = samples + 1
          /\ freqTracker' = table /\ added' = Append(added, t)
          /\ entropyTracker' = Entropy!Tracker!Pushed(entropyTracker,
                                 Entropy!compute_entropy(freqTracker', samples'))
      BY <2>3 DEF EntropyAddMeasurement, Entropy!DoAddMeasurement
    <3>2. EntropyIs(samples + 1, table, Entropy!Tracker!Pushed(entropyTracker, e), Append(added, t))
      BY <3>1, TimeAdded DEF EntropyInv
    <3>3. QED
      BY <3>1, <3>2 DEF EntropyInv
  <2>4. QED
    BY <2>1, <2>2, <2>3 DEF CriteriaNext, Stdrel, EntropyIsFinished, EntropyGiveUp,
                            CriteriaFinished, all
<1>3. QED
  BY <1>1, <1>2, PTL DEF CriteriaSpec

\* The variables of both criteria keep their types, for any times, any number
\* of samples and measurements, and any logarithm that grows: no entropy that
\* compute_entropy makes is negative or more than the largest possible.
THEOREM CriteriaTypeCorrect == CriteriaSpec => []CriteriaTypeOK
<1>1. EntropyInv /\ LoopTypeOK => CriteriaTypeOK
  <2> SUFFICES ASSUME EntropyInv, LoopTypeOK PROVE CriteriaTypeOK
    OBVIOUS
  <2>1. /\ samples = Len(added) /\ samples \in 0 .. MaxEntropySamples
        /\ freqTracker \in Seq(Row) /\ entropyTracker \in EntropyBuffer!Buffers
    BY DEF EntropyInv, EntropyIs, EntropyBuffer!Tracks
  <2>2. QED
    BY <2>1, EntropyBufferIs DEF CriteriaTypeOK, LoopTypeOK, Entropy!TypeOK, Row
<1>2. QED
  BY <1>1, EntropyIsInvariant, LoopTypeCorrect, PTL

\* The table that entropies are computed from has an entry for each time of
\* this measurement with its number of occurrences, and no other: the binary
\* search of do_add_measurement finds the place, whatever order times come in.
THEOREM FrequenciesAreExact == CriteriaSpec => []FrequenciesAreOwn
<1>1. EntropyInv => FrequenciesAreOwn
  <2> SUFFICES ASSUME EntropyInv PROVE FrequenciesAreOwn
    OBVIOUS
  <2>1. /\ added \in Seq(Times) /\ freqTracker \in Seq(Row)
        /\ Sorted(freqTracker) /\ Holds(freqTracker, OccurrencesIn(added))
    BY DEF EntropyInv, EntropyIs
  <2>2. \A key \in Times : OccurrencesIn(added)[key] = Entropy!Occurrences(key, Len(added))
    BY HistoryIs DEF OccurrencesIn
  <2>3. \A i \in DOMAIN freqTracker :
          /\ freqTracker[i] \in Row /\ freqTracker[i][1] \in Times /\ freqTracker[i][2] # 0
          /\ freqTracker[i] = <<freqTracker[i][1], freqTracker[i][2]>>
    <3>1. \A r \in Row : r[1] \in Times /\ r[2] # 0 /\ r = <<r[1], r[2]>>
      BY DEF Row
    <3>2. \A i \in DOMAIN freqTracker : freqTracker[i] \in Row
      BY <2>1, ElementOfSeq, LenProperties
    <3>3. QED
      BY <3>1, <3>2
  <2>4. ASSUME NEW key \in Times, OccurrencesIn(added)[key] = 0
        PROVE  \A i \in DOMAIN freqTracker : freqTracker[i][1] # key
    BY <2>1, <2>3, <2>4 DEF Holds
  <2>5. ASSUME NEW key \in Times, OccurrencesIn(added)[key] # 0
        PROVE  \E i \in DOMAIN freqTracker : freqTracker[i] = <<key, OccurrencesIn(added)[key]>>
    <3>1. PICK i \in DOMAIN freqTracker : freqTracker[i][1] = key
      BY <2>1, <2>5 DEF Holds
    <3>2. freqTracker[i][2] = OccurrencesIn(added)[key]
      BY <2>1, <3>1 DEF Holds
    <3>3. QED
      BY <2>3, <3>1, <3>2
  <2>6. QED
    BY <2>1, <2>2, <2>4, <2>5 DEF FrequenciesAreOwn, Entropy!FrequenciesAreOwn, Sorted
<1>2. QED
  BY <1>1, EntropyIsInvariant, PTL

-----------------------------------------------------------------------------
(* Stopped by the entropies of the measurement                             *)

\* What a history has to be for the entropy criterion to stop.
Stops(s) ==
  LET y == EntropyBuffer!Latest(EntropiesOf(s)) IN
  /\ Len(s) > MinSamples /\ Len(s) % 2 = 0
  /\ Len(y) >= 2 /\ Entropy!Flat(y) /\ Entropy!Linear(y)

\* The entropies that the criterion ought to look at are those in the window.
LEMMA OwnEntropiesAre ==
  ASSUME EntropyInv
  PROVE  Entropy!OwnEntropies = EntropyBuffer!Latest(EntropiesOf(added))
<1> DEFINE n == Len(added)
           first == IF n > WindowSize THEN n - WindowSize + 1 ELSE 1
           h == EntropiesOf(added)
<1>1. n \in Nat /\ WindowSize \in Nat \ {0} /\ h \in Seq(Entropy!Entropies) /\ Len(h) = n
  <2>1. added \in Seq(Times) /\ h \in Seq(Entropy!Entropies)
    BY DEF EntropyInv, EntropyIs, EntropyBuffer!Tracks
  <2>2. n \in Nat
    BY <2>1, LenProperties
  <2>3. DOMAIN h = 1 .. n
    BY DEF EntropiesOf
  <2>4. Len(h) = n
    <3> HIDE DEF h, n
    <3>1. QED
      BY <2>1, <2>2, <2>3, LenProperties
  <2>5. QED
    BY <2>1, <2>2, <2>4, CriteriaAssumption DEF Entropy!ParametersOK
<1>2. \A i \in 1 .. n : h[i] = Entropy!EntropyAfter(i)
  BY HistoryIs DEF EntropiesOf
<1> HIDE DEF h, n
<1>3. first \in 1 .. n + 1
  BY <1>1
<1> DEFINE l == SubSeq(h, first, n)
<1>4. EntropyBuffer!Latest(h) = l
  BY <1>1, Zenon DEF EntropyBuffer!Latest
<1>5. Entropy!OwnEntropies = [i \in 1 .. n - first + 1 |-> Entropy!EntropyAfter(first + i - 1)]
  BY DEF Entropy!OwnEntropies, n
<1> HIDE DEF first
<1>6. l = [i \in 1 .. n - first + 1 |-> h[first + i - 1]]
  <2>1. l \in Seq(Entropy!Entropies) /\ Len(l) = n - first + 1
        /\ \A i \in 1 .. n - first + 1 : l[i] = h[first + i - 1]
    <3>1. CASE first <= n
      BY <1>1, <1>3, <3>1, SubSeqProperties
    <3>2. CASE ~(first <= n)
      <4>1. first = n + 1
        BY <1>1, <1>3, <3>2
      <4>2. l = <<>> /\ n - first + 1 = 0
        BY <1>1, <4>1, SubSeqProperties
      <4> HIDE DEF l
      <4>3. QED
        BY <4>2
    <3>3. QED
      BY <3>1, <3>2
  <2> HIDE DEF l
  <2>2. DOMAIN l = 1 .. n - first + 1 /\ l = [i \in DOMAIN l |-> l[i]]
    <3>1. DOMAIN l = 1 .. Len(l) /\ l \in [1 .. Len(l) -> Entropy!Entropies]
      BY <2>1, LenProperties
    <3>2. QED
      BY <2>1, <3>1
  <2>3. QED
    BY <2>1, <2>2
<1>7. \A i \in 1 .. n - first + 1 : h[first + i - 1] = Entropy!EntropyAfter(first + i - 1)
  <2> TAKE i \in 1 .. n - first + 1
  <2>1. first + i - 1 \in 1 .. n
    BY <1>1, <1>3
  <2>2. QED
    BY <1>2, <2>1
<1> HIDE DEF l
<1>8. l = Entropy!OwnEntropies
  BY <1>5, <1>6, <1>7
<1>9. QED
  BY <1>4, <1>8 DEF h

\* A measurement that goes on has not been stopped, and entropy stops one only
\* by its own history.
EntropyStops ==
  /\ phase # "idle" => verdict = FALSE
  /\ chosen = "entropy" /\ verdict => Stops(added)

LEMMA EntropyStopsIsInvariant == CriteriaSpec => []EntropyStops
<1>1. CriteriaInit => EntropyStops
  BY DEF CriteriaInit, Init, EntropyStops
<1>2. EntropyStops /\ EntropyInv /\ [CriteriaNext]_all => EntropyStops'
  <2> SUFFICES ASSUME EntropyStops, EntropyInv, [CriteriaNext]_all PROVE EntropyStops'
    OBVIOUS
  <2>1. CASE Initialize
    BY <2>1 DEF Initialize, EntropyStops
  <2>2. CASE EntropyInitialize
    BY <2>2 DEF EntropyInitialize, EntropyStops
  <2>3. CASE EntropyIsFinished
    <3>1. added' = added /\ (phase' # "idle" => verdict' = FALSE)
      BY <2>3 DEF EntropyIsFinished, entropy
    <3>2. ASSUME verdict' PROVE Stops(added)
      <4>1. samples > MinSamples /\ Entropy!DoIsFinished
        BY <2>3, <3>2 DEF EntropyIsFinished
      <4> DEFINE y == Entropy!Tracker!Contents(entropyTracker)
      <4>2. /\ Entropy!Tracker!Size(entropyTracker) >= 2 /\ samples % 2 = 0
            /\ Entropy!Flat(y) /\ Entropy!Linear(y)
        BY <4>1 DEF Entropy!DoIsFinished
      <4>3. /\ samples = Len(added) /\ entropyTracker \in EntropyBuffer!Buffers
            /\ y = EntropyBuffer!Latest(EntropiesOf(added))
        BY EntropyBufferIs DEF EntropyInv, EntropyIs, EntropyBuffer!Tracks
      <4>4. Len(y) = Entropy!Tracker!Size(entropyTracker)
        BY <4>3, EntropyBufferIs, EntropyBuffer!ContentsIsSequence
      <4> HIDE DEF y
      <4>5. QED
        BY <4>1, <4>2, <4>3, <4>4 DEF Stops
    <3>3. QED
      BY <3>1, <3>2 DEF EntropyStops
  <2>4. CASE chosen = "stdrel" /\ chosen' = chosen /\ (phase' # "idle" => verdict' = FALSE)
    BY <2>4 DEF EntropyStops
  <2>5. CASE UNCHANGED <<chosen, verdict, added>> /\ (phase' # "idle" => phase # "idle")
    BY <2>5 DEF EntropyStops
  <2>6. ASSUME chosen = "stdrel", chosen' = chosen,
               \/ \E t \in Times, noise \in NoiseLevels : AddMeasurement(t, noise)
               \/ IsFinished
               \/ GiveUp
        PROVE  phase' # "idle" => verdict' = FALSE
    BY <2>6 DEF AddMeasurement, IsFinished, GiveUp, EntropyStops
  <2>7. ASSUME NEW t \in Times, EntropyAddMeasurement(t) PROVE EntropyStops'
    BY <2>7 DEF EntropyAddMeasurement, EntropyStops
  <2>8. CASE EntropyGiveUp
    BY <2>5, <2>8 DEF EntropyGiveUp, entropy
  <2>9. CASE CriteriaFinished \/ UNCHANGED all
    BY <2>5, <2>9 DEF CriteriaFinished, all, vars, entropy
  <2>10. QED
    BY <2>1, <2>2, <2>3, <2>4, <2>6, <2>7, <2>8, <2>9 DEF CriteriaNext, Stdrel
<1>3. QED
  BY <1>1, <1>2, EntropyIsInvariant, PTL DEF CriteriaSpec

\* Whichever criterion stops a measurement stops it by that measurement's own
\* noise or entropies.  The objects are shared by all measurements of the
\* process, and any of them may have been abandoned with what it left there.
THEOREM StopsByOwnMeasurements ==
  ASSUME MinSamples + 1 >= StdevSamples
  PROVE  CriteriaSpec => []StoppedByOwnMeasurements
<1>1. EntropyInv /\ EntropyStops /\ NoiseInv => StoppedByOwnMeasurements
  BY OwnEntropiesAre DEF EntropyStops, NoiseInv, Stops, StoppedByOwnMeasurements
<1>2. QED
  BY <1>1, EntropyIsInvariant, EntropyStopsIsInvariant, NoiseIsInvariant, PTL

-----------------------------------------------------------------------------
(* The trackers implement windows                                          *)

\* As the criteria use them, both ring buffers are windows: every step of a
\* measurement pushes one value, clears the buffer or leaves it alone, for any
\* capacity, and iteration sees the most recent values in order.
THEOREM TrackersImplementWindows == CriteriaSpec => TrackersAreWindows
<1>1. CriteriaInit => Tracker!Window!Init /\ Entropy!Tracker!Window!Init
  <2> SUFFICES ASSUME CriteriaInit
               PROVE  /\ Tracker!Contents(noiseTracker) = <<>>
                      /\ Entropy!Tracker!Contents(entropyTracker) = <<>>
    BY DEF Tracker!Window!Init, Entropy!Tracker!Window!Init
  <2>1. /\ noiseTracker = NoiseBuffer!NewBuffer /\ entropyTracker = EntropyBuffer!NewBuffer
    BY NoiseBufferIs, EntropyBufferIs DEF CriteriaInit, Init, Entropy!Init
  <2>2. \A b \in NoiseBuffer!Buffers : NoiseBuffer!Size(b) = 0 => NoiseBuffer!Contents(b) = <<>>
    BY DEF NoiseBuffer!Contents
  <2>3. NoiseBuffer!Contents(NoiseBuffer!NewBuffer) = <<>>
    BY DEF NoiseBuffer!Contents, NoiseBuffer!Size, NoiseBuffer!NewBuffer
  <2>4. EntropyBuffer!Contents(EntropyBuffer!NewBuffer) = <<>>
    BY DEF EntropyBuffer!Contents, EntropyBuffer!Size, EntropyBuffer!NewBuffer
  <2>5. QED
    BY <2>1, <2>3, <2>4, NoiseBufferIs, EntropyBufferIs
<1>2. LoopTypeOK /\ [CriteriaNext]_all =>
        [Tracker!Window!Next]_(Tracker!Contents(noiseTracker))
  <2> SUFFICES ASSUME LoopTypeOK, [CriteriaNext]_all
               PROVE  \/ Tracker!Window!Next
                      \/ Tracker!Contents(noiseTracker)' = Tracker!Contents(noiseTracker)
    OBVIOUS
  <2>1. noiseTracker \in NoiseBuffer!Buffers /\ NoiseBuffer!Parameters
    BY NoiseBufferIs DEF LoopTypeOK, TypeOK
  <2>2. CASE noiseTracker' = Tracker!Cleared(noiseTracker)
    <3>1. Tracker!Contents(noiseTracker)' = <<>>
      BY <2>1, <2>2, NoiseBufferIs, NoiseBuffer!ClearedIsEmpty
    <3>2. QED
      BY <3>1 DEF Tracker!Window!Next, Tracker!Window!Clear
  <2>3. ASSUME NEW v \in NoiseLevels, noiseTracker' = Tracker!Pushed(noiseTracker, v)
        PROVE  Tracker!Window!Next
    <3>1. Tracker!Contents(noiseTracker)' =
            IF Len(Tracker!Contents(noiseTracker)) < TrackerSize
            THEN Append(Tracker!Contents(noiseTracker), v)
            ELSE Append(Tail(Tracker!Contents(noiseTracker)), v)
      BY <2>1, <2>3, NoiseBufferIs, NoiseBuffer!PushOfWindow
    <3>2. Tracker!Window!Push(v)
      BY <3>1, Zenon DEF Tracker!Window!Push
    <3>3. QED
      BY <3>2 DEF Tracker!Window!Next
  <2>4. CASE noiseTracker' = noiseTracker
    BY <2>4
  <2>5. ASSUME NEW t \in Times, NEW noise \in NoiseLevels, AddMeasurement(t, noise)
        PROVE  \/ noiseTracker' = Tracker!Pushed(noiseTracker, noise)
               \/ noiseTracker' = noiseTracker
    BY <2>5, Zenon DEF AddMeasurement
  <2>6. QED
    BY <2>2, <2>3, <2>4, <2>5
    DEF CriteriaNext, Stdrel, Initialize, DoInitialize, IsFinished, GiveUp, EntropyInitialize,
        EntropyAddMeasurement, EntropyIsFinished, EntropyGiveUp, CriteriaFinished, stdrel,
        all, vars
<1>3. EntropyInv /\ [CriteriaNext]_all =>
        [Entropy!Tracker!Window!Next]_(Entropy!Tracker!Contents(entropyTracker))
  <2> SUFFICES ASSUME EntropyInv, [CriteriaNext]_all
               PROVE  \/ Entropy!Tracker!Window!Next
                      \/ Entropy!Tracker!Contents(entropyTracker)' =
                           Entropy!Tracker!Contents(entropyTracker)
    OBVIOUS
  <2>1. entropyTracker \in EntropyBuffer!Buffers /\ EntropyBuffer!Parameters
    BY EntropyBufferIs DEF EntropyInv, EntropyIs, EntropyBuffer!Tracks
  <2>2. CASE EntropyInitialize
    <3>1. entropyTracker' = Entropy!Tracker!Cleared(entropyTracker)
      BY <2>2 DEF EntropyInitialize, Entropy!DoInitialize
    <3>2. Entropy!Tracker!Contents(entropyTracker)' = <<>>
      BY <2>1, <3>1, EntropyBufferIs, EntropyBuffer!ClearedIsEmpty
    <3>3. QED
      BY <3>2 DEF Entropy!Tracker!Window!Next, Entropy!Tracker!Window!Clear
  <2>3. ASSUME NEW t \in Times, EntropyAddMeasurement(t) PROVE Entropy!Tracker!Window!Next
    <3> DEFINE e == Entropy!compute_entropy(Entropy!Counted(freqTracker, t), samples + 1)
    <3>1. /\ entropyTracker' = Entropy!Tracker!Pushed(entropyTracker, e)
          /\ samples < MaxEntropySamples
      BY <2>3 DEF EntropyAddMeasurement, Entropy!DoAddMeasurement
    <3>2. e \in Entropy!Entropies
      BY <3>1, TimeAdded DEF EntropyInv
    <3> HIDE DEF e
    <3>3. Entropy!Tracker!Contents(entropyTracker)' =
            IF Len(Entropy!Tracker!Contents(entropyTracker)) < WindowSize
            THEN Append(Entropy!Tracker!Contents(entropyTracker), e)
            ELSE Append(Tail(Entropy!Tracker!Contents(entropyTracker)), e)
      BY <2>1, <3>1, <3>2, EntropyBufferIs, EntropyBuffer!PushOfWindow
    <3>4. Entropy!Tracker!Window!Push(e)
      BY <3>3, Zenon DEF Entropy!Tracker!Window!Push
    <3>5. QED
      BY <3>2, <3>4 DEF Entropy!Tracker!Window!Next
  <2>4. CASE UNCHANGED entropy
    BY <2>4 DEF entropy
  <2>5. QED
    BY <2>2, <2>3, <2>4 DEF CriteriaNext, Stdrel, EntropyIsFinished, EntropyGiveUp,
                            CriteriaFinished, all
<1>4. QED
  BY <1>1, <1>2, <1>3, LoopTypeCorrect, EntropyIsInvariant, PTL
  DEF CriteriaSpec, TrackersAreWindows, Tracker!ImplementsWindow,
      Entropy!Tracker!ImplementsWindow, Tracker!Window!Spec, Entropy!Tracker!Window!Spec


-----------------------------------------------------------------------------
(* The registry: named values                                              *)

\* A list without duplicates has one entry with a given name, and that is the
\* one a lookup finds.
LEMMA FoundIs ==
  ASSUME NEW s \in Seq(Entry), NoDuplicates(s), NEW i \in 1 .. Len(s),
         NEW name, s[i].name = name
  PROVE  HasValue(s, name) /\ IndexOf(s, name) = i /\ Lookup(s, name) = s[i]
<1> DEFINE I == {k \in 1 .. Len(s) : s[k].name = name}
<1>1. I = {i}
  BY DEF NoDuplicates
<1>2. Min(I) = i
  <2>1. I \in SUBSET Nat /\ I # {}
    BY <1>1
  <2> HIDE DEF I
  <2>2. Min(I) \in I
    BY <2>1, MinIsLeast
  <2>3. QED
    BY <1>1, <2>2
<1>3. IndexOf(s, name) = IF I # {} THEN Min(I) ELSE 0
  BY DEF IndexOf, SelectInSeq
<1>4. QED
  BY <1>1, <1>2, <1>3 DEF HasValue, Lookup

\* A lookup that finds something finds an entry of that name.
LEMMA HasValueIs ==
  ASSUME NEW s \in Seq(Entry), NEW name
  PROVE  HasValue(s, name) <=> \E i \in 1 .. Len(s) : s[i].name = name
<1> DEFINE I == {k \in 1 .. Len(s) : s[k].name = name}
<1>1. IndexOf(s, name) = IF I # {} THEN Min(I) ELSE 0
  BY DEF IndexOf, SelectInSeq
<1>2. CASE I = {}
  BY <1>1, <1>2 DEF HasValue
<1>3. CASE I # {}
  <2>1. I \in SUBSET Nat /\ 0 \notin I
    OBVIOUS
  <2>2. Min(I) \in I
    BY <1>3, <2>1, MinIsLeast
  <2> HIDE DEF I
  <2>3. IndexOf(s, name) # 0
    BY <1>1, <1>3, <2>1, <2>2
  <2>4. QED
    BY <1>3, <2>3 DEF HasValue, I
<1>4. QED
  BY <1>2, <1>3

Replaced(entries, e) == Append(Removed(entries, e.name), e)

\* What set_from() does to the list when it replaces an entry: the others stay,
\* and names and types are what they were.
LEMMA ReplacedIs ==
  ASSUME NEW s \in Seq(Entry), NoDuplicates(s), NEW i \in 1 .. Len(s),
         NEW e \in Entry, e.name = s[i].name, e.type = s[i].type
  PROVE  /\ Replaced(s, e) \in Seq(Entry) /\ NoDuplicates(Replaced(s, e))
         /\ Shape(Replaced(s, e)) = Shape(s)
         /\ EntryNames(Replaced(s, e)) = EntryNames(s)
         /\ \A k \in 1 .. Len(Replaced(s, e)) :
              \/ Replaced(s, e)[k] = e
              \/ \E j \in 1 .. Len(s) : Replaced(s, e)[k] = s[j] /\ j # i
<1> DEFINE rest == RemoveAt(s, i)
           new  == Append(rest, e)
<1>1. Replaced(s, e) = new
  BY FoundIs DEF Replaced, Removed
<1>2. /\ rest \in Seq(Entry) /\ Len(rest) = Len(s) - 1
      /\ \A k \in 1 .. Len(s) - 1 : rest[k] = IF k < i THEN s[k] ELSE s[k + 1]
  BY RemoveAtIs
<1> HIDE DEF rest
<1>3. /\ new \in Seq(Entry) /\ Len(new) = Len(s) /\ new[Len(s)] = e
      /\ \A k \in 1 .. Len(s) - 1 : new[k] = IF k < i THEN s[k] ELSE s[k + 1]
  BY <1>2, AppendProperties
<1> HIDE DEF new
<1>4. /\ DOMAIN s = 1 .. Len(s) /\ DOMAIN new = 1 .. Len(s)
      /\ Len(s) \in Nat
  BY <1>3, LenProperties
<1>5. \A k \in 1 .. Len(s) :
        new[k] = e \/ \E j \in 1 .. Len(s) : new[k] = s[j] /\ j # i
  <2> TAKE k \in 1 .. Len(s)
  <2>1. CASE k = Len(s)
    BY <1>3, <2>1
  <2>2. CASE k # Len(s)
    <3>1. k \in 1 .. Len(s) - 1 /\ k + 1 \in 1 .. Len(s)
      BY <2>2
    <3>2. QED
      BY <1>3, <3>1
  <2>3. QED
    BY <2>1, <2>2
<1>6. NoDuplicates(new)
  <2> SUFFICES ASSUME NEW k \in 1 .. Len(s), NEW l \in 1 .. Len(s),
                      new[k].name = new[l].name
               PROVE  k = l
    BY <1>4 DEF NoDuplicates
  <2>1. \A m, n \in 1 .. Len(s) : s[m].name = s[n].name => m = n
    BY <1>4 DEF NoDuplicates
  <2>2. CASE k # Len(s) /\ l # Len(s)
    <3>1. k \in 1 .. Len(s) - 1 /\ l \in 1 .. Len(s) - 1
          /\ k + 1 \in 1 .. Len(s) /\ l + 1 \in 1 .. Len(s)
      BY <2>2
    <3> DEFINE at(m) == IF m < i THEN m ELSE m + 1
    <3>2. new[k] = s[at(k)] /\ new[l] = s[at(l)]
      BY <1>3, <3>1
    <3>3. at(k) = at(l)
      BY <2>1, <3>1, <3>2
    <3>4. QED
      BY <3>1, <3>3
  <2>3. ASSUME NEW m \in 1 .. Len(s) - 1 PROVE new[m].name # e.name
    <3>1. PICK j \in 1 .. Len(s) : new[m] = s[j] /\ j # i
      <4>1. m \in 1 .. Len(s) /\ m + 1 \in 1 .. Len(s)
        OBVIOUS
      <4>2. QED
        BY <1>3, <4>1
    <3>2. QED
      BY <2>1, <3>1
  <2>4. k \in 1 .. Len(s) - 1 \/ k = Len(s)
    OBVIOUS
  <2>5. l \in 1 .. Len(s) - 1 \/ l = Len(s)
    OBVIOUS
  <2>6. QED
    BY <1>3, <2>2, <2>3, <2>4, <2>5
<1>7. \A j \in 1 .. Len(s) : \E k \in 1 .. Len(s) :
         new[k].name = s[j].name /\ new[k].type = s[j].type
  <2> TAKE j \in 1 .. Len(s)
  <2>1. CASE j = i
    BY <1>3, <2>1
  <2>2. CASE j < i
    BY <1>3, <2>2
  <2>3. CASE i < j
    <3>1. j - 1 \in 1 .. Len(s) - 1 /\ ~(j - 1 < i) /\ (j - 1) + 1 = j
          /\ j - 1 \in 1 .. Len(s)
      BY <2>3
    <3>2. new[j - 1] = s[j]
      BY <1>3, <3>1
    <3>3. QED
      BY <3>1, <3>2
  <2>4. QED
    BY <2>1, <2>2, <2>3
<1>8. \A k \in 1 .. Len(s) : \E j \in 1 .. Len(s) :
         new[k].name = s[j].name /\ new[k].type = s[j].type
  BY <1>5
<1>9. Shape(new) = Shape(s)
  <2>1. Shape(new) = {[name |-> new[k].name, type |-> new[k].type] : k \in 1 .. Len(s)}
    BY <1>4 DEF Shape, ToSet
  <2>2. Shape(s) = {[name |-> s[k].name, type |-> s[k].type] : k \in 1 .. Len(s)}
    BY <1>4 DEF Shape, ToSet
  <2>3. ASSUME NEW k \in 1 .. Len(s)
        PROVE  [name |-> new[k].name, type |-> new[k].type] \in Shape(s)
    <3>1. PICK j \in 1 .. Len(s) : new[k].name = s[j].name /\ new[k].type = s[j].type
      BY <1>8
    <3>2. [name |-> s[j].name, type |-> s[j].type] \in Shape(s)
      BY <2>2
    <3>3. QED
      BY <3>1, <3>2
  <2>4. ASSUME NEW j \in 1 .. Len(s)
        PROVE  [name |-> s[j].name, type |-> s[j].type] \in Shape(new)
    <3>1. PICK k \in 1 .. Len(s) : new[k].name = s[j].name /\ new[k].type = s[j].type
      BY <1>7
    <3>2. [name |-> new[k].name, type |-> new[k].type] \in Shape(new)
      BY <2>1
    <3>3. QED
      BY <3>1, <3>2
  <2>5. Shape(new) \subseteq Shape(s)
    BY <2>1, <2>3
  <2>6. Shape(s) \subseteq Shape(new)
    BY <2>2, <2>4
  <2>7. QED
    BY <2>5, <2>6
<1>10. EntryNames(new) = EntryNames(s)
  <2>1. EntryNames(new) = {new[k].name : k \in 1 .. Len(s)}
    BY <1>4 DEF EntryNames
  <2>2. EntryNames(s) = {s[k].name : k \in 1 .. Len(s)}
    BY <1>4 DEF EntryNames
  <2>3. \A k \in 1 .. Len(s) : new[k].name \in EntryNames(s)
    BY <1>8, <2>2
  <2>4. \A j \in 1 .. Len(s) : s[j].name \in EntryNames(new)
    BY <1>7, <2>1
  <2>5. QED
    BY <2>1, <2>2, <2>3, <2>4
<1>11. QED
  BY <1>1, <1>3, <1>5, <1>6, <1>9, <1>10

-----------------------------------------------------------------------------
(* The registry: the inductive invariant                                   *)

\* What set_from() has done so far, from which GivenParametersInForce follows
\* once it has no name left to visit: the names left are parameters of the
\* criterion, each once, and the given parameters among the others are in force.
SetSoFar ==
  LET mine == params[current.criterion] IN
  outcome \in {"setting", "running"} =>
    /\ current \in Benchmarks /\ current.criterion \in Criteria
    /\ outcome = "running" => pending = << >>
    /\ \A i \in DOMAIN pending : pending[i] \in EntryNames(mine)
    /\ \A i, j \in DOMAIN pending : pending[i] = pending[j] => i = j
    /\ \A i \in DOMAIN current.given, j \in DOMAIN mine :
         mine[j].name = current.given[i].name /\ mine[j].name \notin ToSet(pending)
           => mine[j] = current.given[i]

RegistryIInv == RegistryTypeOK /\ SetSoFar

LEMMA RegistryInitIInv == RegistryInit => RegistryIInv
<1> SUFFICES ASSUME RegistryInit PROVE RegistryIInv
  OBVIOUS
<1> USE RegistryAssumption DEF RegistryInit
<1>1. \A c \in Criteria : KeepsShape(c)
  BY DEF KeepsShape
<1>2. RegistryTypeOK
  BY <1>1 DEF RegistryTypeOK
<1>3. SetSoFar
  BY DEF SetSoFar
<1>4. QED
  BY <1>2, <1>3 DEF RegistryIInv

\* A measurement begins: every name of the criterion is still to be visited.
LEMMA MeasureIInv ==
  ASSUME RegistryIInv, NEW b \in Benchmarks, Measure(b)
  PROVE  RegistryIInv'
<1> USE RegistryAssumption
<1>1. RegistryTypeOK /\ SetSoFar
  BY DEF RegistryIInv
<1>2. CASE b.criterion \notin Criteria
  <2>1. RegistryTypeOK'
    BY <1>1, <1>2 DEF RegistryTypeOK, Measure, KeepsShape
  <2>2. SetSoFar'
    BY <1>2 DEF SetSoFar, Measure
  <2>3. QED
    BY <2>1, <2>2 DEF RegistryIInv
<1>3. CASE b.criterion \in Criteria
  <2> DEFINE mine == params[b.criterion]
  <2>1. mine \in Seq(Entry) /\ DOMAIN mine = 1 .. Len(mine) /\ NoDuplicates(mine)
    BY <1>1, <1>3, LenProperties DEF RegistryTypeOK, KeepsShape
  <2>2. /\ outcome' = "setting" /\ current' = b /\ params' = params
        /\ pending' = [i \in DOMAIN mine |-> mine[i].name]
        /\ measured < MaxMeasurements /\ measured' = measured + 1
    BY <1>3 DEF Measure
  <2> HIDE DEF mine
  <2>3. pending' \in Seq(Names)
    <3>1. \A i \in 1 .. Len(mine) : mine[i].name \in Names
      <4>1. \A i \in 1 .. Len(mine) : mine[i] \in Entry
        BY <2>1, ElementOfSeq
      <4>2. QED
        BY <4>1 DEF Entry
    <3>2. pending' \in [1 .. Len(mine) -> Names] /\ Len(mine) \in Nat
      BY <2>1, <2>2, <3>1, LenProperties
    <3>3. QED
      BY <3>2, SeqDef
  <2>4. RegistryTypeOK'
    BY <1>1, <2>2, <2>3 DEF RegistryTypeOK, KeepsShape
  <2>5. \A i \in DOMAIN mine : mine[i].name \in ToSet(pending')
    BY <2>2 DEF ToSet
  <2>6. SetSoFar'
    BY <1>3, <2>1, <2>2, <2>5 DEF SetSoFar, mine, EntryNames, NoDuplicates
  <2>7. QED
    BY <2>4, <2>6 DEF RegistryIInv
<1>4. QED
  BY <1>2, <1>3

\* set_from() visits a name: it is not visited again, and the parameters that
\* have been visited before are the ones they were.
LEMMA SetNextIInv ==
  ASSUME RegistryIInv, SetNext
  PROVE  RegistryIInv'
<1> DEFINE c    == current.criterion
           mine == params[c]
           name == Head(pending)
<1> USE RegistryAssumption
<1>1. RegistryTypeOK /\ SetSoFar
  BY DEF RegistryIInv
<1>2. /\ outcome = "setting" /\ pending # << >> /\ pending' = Tail(pending)
      /\ current' = current /\ measured' = measured
  BY DEF SetNext
<1>3. /\ current \in Benchmarks /\ c \in Criteria /\ params \in [Criteria -> Seq(Entry)]
      /\ mine \in Seq(Entry) /\ NoDuplicates(mine) /\ DOMAIN mine = 1 .. Len(mine)
  BY <1>1, <1>2, LenProperties DEF SetSoFar, RegistryTypeOK, KeepsShape
<1>4. current.given \in Seq(Entry) /\ NoDuplicates(current.given)
      /\ DOMAIN current.given = 1 .. Len(current.given)
  BY <1>3, LenProperties
<1>5. /\ pending' \in Seq(Names) /\ Len(pending') = Len(pending) - 1
      /\ Len(pending) \in Nat \ {0}
      /\ \A i \in 1 .. Len(pending) - 1 : pending'[i] = pending[i + 1]
      /\ name = pending[1]
  BY <1>1, <1>2, HeadTailProperties, EmptySeq DEF RegistryTypeOK
<1>6. /\ DOMAIN pending = 1 .. Len(pending) /\ DOMAIN pending' = 1 .. Len(pending) - 1
  BY <1>1, <1>5, LenProperties DEF RegistryTypeOK
<1>7. /\ \A n : n \in ToSet(pending) => n = name \/ n \in ToSet(pending')
  <2> SUFFICES ASSUME NEW i \in 1 .. Len(pending)
               PROVE  pending[i] = name \/ pending[i] \in ToSet(pending')
    BY <1>6 DEF ToSet
  <2>1. CASE i = 1
    BY <1>5, <2>1
  <2>2. CASE i # 1
    <3>1. i - 1 \in DOMAIN pending' /\ pending'[i - 1] = pending[i]
      BY <1>5, <1>6, <2>2
    <3>2. QED
      BY <3>1 DEF ToSet
  <2>3. QED
    BY <2>1, <2>2
<1>8. \A i \in DOMAIN pending' : pending'[i] \in EntryNames(mine)
  <2> TAKE i \in DOMAIN pending'
  <2>1. i + 1 \in DOMAIN pending /\ pending'[i] = pending[i + 1]
    BY <1>5, <1>6
  <2>2. QED
    BY <1>1, <1>2, <2>1 DEF SetSoFar
<1>9. \A i, j \in DOMAIN pending' : pending'[i] = pending'[j] => i = j
  <2> TAKE i, j \in DOMAIN pending'
  <2>1. /\ i + 1 \in DOMAIN pending /\ pending'[i] = pending[i + 1]
        /\ j + 1 \in DOMAIN pending /\ pending'[j] = pending[j + 1]
        /\ i \in Int /\ j \in Int
    BY <1>5, <1>6
  <2>2. pending[i + 1] = pending[j + 1] => i + 1 = j + 1
    BY <1>1, <1>2, <2>1 DEF SetSoFar
  <2>3. QED
    BY <2>1, <2>2
<1>10. PICK m \in 1 .. Len(mine) : mine[m].name = name
  <2>1. name \in EntryNames(mine)
    BY <1>1, <1>2, <1>5, <1>6 DEF SetSoFar
  <2>2. QED
    BY <1>3, <2>1 DEF EntryNames
<1>11. Lookup(mine, name) = mine[m]
  BY <1>3, <1>10, FoundIs
<1>12. \A i \in DOMAIN current.given, j \in DOMAIN mine :
         mine[j].name = current.given[i].name /\ mine[j].name \notin ToSet(pending)
           => mine[j] = current.given[i]
  BY <1>1, <1>2 DEF SetSoFar
<1>13. CASE ~HasValue(current.given, name)
  <2>1. params' = params /\ outcome' = outcome
    BY <1>13 DEF SetNext
  <2>2. \A i \in DOMAIN current.given : current.given[i].name # name
    BY <1>4, <1>13, HasValueIs
  <2>3. RegistryTypeOK'
    BY <1>1, <1>2, <1>5, <2>1 DEF RegistryTypeOK, KeepsShape
  <2>4. ASSUME NEW i \in DOMAIN current.given, NEW j \in DOMAIN mine,
               mine[j].name = current.given[i].name,
               mine[j].name \notin ToSet(pending')
        PROVE  mine[j] = current.given[i]
    <3>1. mine[j].name # name
      BY <2>2, <2>4
    <3>2. mine[j].name \notin ToSet(pending)
      BY <1>7, <2>4, <3>1
    <3>3. QED
      BY <1>12, <2>4, <3>2
  <2>5. SetSoFar'
    <3> HIDE DEF name
    <3>1. outcome' = "setting" /\ current' = current /\ params' = params
      BY <1>2, <2>1
    <3>2. QED
      BY <1>3, <1>8, <1>9, <2>4, <3>1 DEF SetSoFar
  <2>6. QED
    BY <2>3, <2>5 DEF RegistryIInv
<1>14. CASE HasValue(current.given, name)
            /\ Lookup(mine, name).type # Lookup(current.given, name).type
  <2>1. params' = params /\ outcome' = "mismatch"
    BY <1>14 DEF SetNext
  <2>2. RegistryTypeOK'
    BY <1>1, <1>2, <1>5, <2>1 DEF RegistryTypeOK, KeepsShape
  <2>3. SetSoFar'
    BY <2>1 DEF SetSoFar
  <2>4. QED
    BY <2>2, <2>3 DEF RegistryIInv
<1>15. CASE HasValue(current.given, name)
            /\ Lookup(mine, name).type = Lookup(current.given, name).type
  <2> DEFINE e   == Lookup(current.given, name)
             new == Replaced(mine, e)
  <2>1. PICK g \in 1 .. Len(current.given) : current.given[g].name = name
    BY <1>4, <1>15, HasValueIs
  <2>2. e = current.given[g] /\ e \in Entry /\ e.name = name /\ e.type = mine[m].type
    <3>1. e = current.given[g]
      BY <1>4, <2>1, FoundIs
    <3>2. QED
      BY <1>4, <1>11, <1>15, <2>1, <3>1, ElementOfSeq
  <2>3. params' = [params EXCEPT ![c] = new] /\ outcome' = outcome
    BY <1>15, <2>2 DEF SetNext, Replaced
  <2> HIDE DEF e
  <2>4. /\ new \in Seq(Entry) /\ NoDuplicates(new)
        /\ Shape(new) = Shape(mine) /\ EntryNames(new) = EntryNames(mine)
        /\ \A k \in 1 .. Len(new) :
              new[k] = e \/ \E j \in 1 .. Len(mine) : new[k] = mine[j] /\ j # m
    <3> HIDE DEF c, mine, name
    <3>1. e.name = mine[m].name /\ e.type = mine[m].type /\ e \in Entry
      BY <1>10, <2>2
    <3>2. mine \in Seq(Entry) /\ NoDuplicates(mine) /\ m \in 1 .. Len(mine)
      BY <1>3
    <3>3. QED
      BY <3>1, <3>2, ReplacedIs
  <2> HIDE DEF new
  <2>5. /\ params' \in [Criteria -> Seq(Entry)] /\ params'[c] = new
        /\ \A d \in Criteria : d # c => params'[d] = params[d]
    BY <1>3, <2>3, <2>4
  <2>6. \A d \in Criteria : KeepsShape(d)'
    BY <1>1, <2>4, <2>5 DEF RegistryTypeOK, KeepsShape
  <2>7. RegistryTypeOK'
    BY <1>1, <1>2, <1>5, <2>3, <2>5, <2>6 DEF RegistryTypeOK
  <2>8. ASSUME NEW i \in DOMAIN current.given, NEW k \in DOMAIN new,
               new[k].name = current.given[i].name,
               new[k].name \notin ToSet(pending')
        PROVE  new[k] = current.given[i]
    <3>1. CASE new[k] = e
      <4>1. i = g
        BY <1>4, <2>1, <2>2, <2>8, <3>1 DEF NoDuplicates
      <4>2. QED
        BY <2>2, <3>1, <4>1
    <3>2. CASE new[k] # e
      <4>1. DOMAIN new = 1 .. Len(new)
        BY <2>4, LenProperties
      <4>2. PICK j \in 1 .. Len(mine) : new[k] = mine[j] /\ j # m
        BY <2>4, <3>2, <4>1
      <4>3. mine[j].name # name
        BY <1>3, <1>10, <4>2 DEF NoDuplicates
      <4>4. mine[j].name \notin ToSet(pending)
        BY <1>7, <2>8, <4>2, <4>3
      <4>5. QED
        BY <1>3, <1>12, <2>8, <4>2, <4>4
    <3>3. QED
      BY <3>1, <3>2
  <2>9. SetSoFar'
    BY <1>2, <1>3, <1>8, <1>9, <2>3, <2>4, <2>5, <2>8 DEF SetSoFar
  <2>10. QED
    BY <2>7, <2>9 DEF RegistryIInv
<1>16. QED
  BY <1>13, <1>14, <1>15

LEMMA RegistryNextIInv == RegistryIInv /\ [RegistryNext]_registryVars => RegistryIInv'
<1> SUFFICES ASSUME RegistryIInv, [RegistryNext]_registryVars PROVE RegistryIInv'
  OBVIOUS
<1>1. ASSUME NEW b \in Benchmarks, Measure(b) PROVE RegistryIInv'
  BY <1>1, MeasureIInv
<1>2. CASE SetNext
  BY <1>2, SetNextIInv
<1>3. CASE BeginTrials
  BY <1>3 DEF BeginTrials, RegistryIInv, RegistryTypeOK, KeepsShape, SetSoFar
<1>4. CASE EndMeasurement
  BY <1>4 DEF EndMeasurement, RegistryIInv, RegistryTypeOK, KeepsShape, SetSoFar
<1>5. CASE RegistryFinished \/ UNCHANGED registryVars
  BY <1>5 DEF RegistryFinished, registryVars, RegistryIInv, RegistryTypeOK, KeepsShape, SetSoFar
<1>6. QED
  BY <1>1, <1>2, <1>3, <1>4, <1>5 DEF RegistryNext

THEOREM RegistryInvariance == RegistrySpec => []RegistryIInv
<1>1. RegistryInit => RegistryIInv
  BY RegistryInitIInv
<1>2. RegistryIInv /\ [RegistryNext]_registryVars => RegistryIInv'
  BY RegistryNextIInv
<1>3. QED
  BY <1>1, <1>2, PTL DEF RegistrySpec

-----------------------------------------------------------------------------
(* The registry: the properties                                            *)

\* Every criterion keeps the names and types of its parameters, each once,
\* whatever benchmarks are measured with it (set_from).
THEOREM RegistryTypeCorrect == RegistrySpec => []RegistryTypeOK
<1>1. RegistryIInv => RegistryTypeOK
  BY DEF RegistryIInv
<1>2. QED
  BY <1>1, RegistryInvariance, PTL

\* When the trials of a benchmark begin, every parameter it gives and its
\* criterion knows is in force, whatever ran before it.
THEOREM InForce == RegistrySpec => []GivenParametersInForce
<1>1. RegistryIInv => GivenParametersInForce
  <2> SUFFICES ASSUME RegistryIInv, outcome = "running",
                      NEW e \in ToSet(current.given),
                      HasValue(params[current.criterion], e.name)
               PROVE  Lookup(params[current.criterion], e.name) = e
    BY DEF GivenParametersInForce
  <2> DEFINE mine == params[current.criterion]
  <2>1. /\ current \in Benchmarks /\ current.criterion \in Criteria
        /\ ToSet(pending) = {}
        /\ \A i \in DOMAIN current.given, j \in DOMAIN mine :
             mine[j].name = current.given[i].name /\ mine[j].name \notin ToSet(pending)
               => mine[j] = current.given[i]
    BY EmptySeq DEF RegistryIInv, SetSoFar, ToSet
  <2>2. mine \in Seq(Entry) /\ NoDuplicates(mine) /\ DOMAIN mine = 1 .. Len(mine)
    BY <2>1, LenProperties DEF RegistryIInv, RegistryTypeOK, KeepsShape
  <2>3. PICK i \in DOMAIN current.given : current.given[i] = e
    BY DEF ToSet
  <2>4. PICK j \in 1 .. Len(mine) : mine[j].name = e.name
    BY <2>2, HasValueIs
  <2>5. mine[j] = e
    BY <2>1, <2>2, <2>3, <2>4
  <2>6. QED
    BY <2>2, <2>4, <2>5, FoundIs
<1>2. QED
  BY <1>1, RegistryInvariance, PTL
=============================================================================
