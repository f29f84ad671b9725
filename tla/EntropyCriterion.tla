--------------------------- MODULE EntropyCriterion ---------------------------
(***************************************************************************)
(* The entropy stopping criterion (nvbench/detail/entropy_criterion.cxx)   *)
(* as an object: its members are the variables, its methods actions and    *)
(* state functions that a measurement loop calls.                          *)
(*                                                                         *)
(* Entropies are integers in units of a fraction of a bit, made from the   *)
(* constant Log2; regression and R^2 are rational and compared in integers *)
(* without division.  m_total_cuda_time, which nothing reads, is left out. *)
(***************************************************************************)
EXTENDS Integers, Sequences, SequencesExt

CONSTANTS
  Keys,         \* measured times
  Log2,         \* fixed-point binary logarithm of 1, 2, ...
  WindowSize,   \* capacity of m_entropy_tracker (299)
  MaxSlope,     \* the slope at "max-angle", in those units per sample
  MinR2         \* the "min-r2" parameter, in hundredths

\* What the parameters of the object have to be.
ParametersOK ==
  /\ Keys \subseteq Int /\ WindowSize \in Nat \ {0}
  /\ Log2 \in Seq(Nat) \ {<<>>}
  /\ \A i, j \in DOMAIN Log2 : i <= j => Log2[i] <= Log2[j]
  /\ Log2[1] = 0 /\ MaxSlope \in Nat /\ MinR2 \in 0 .. 100

VARIABLES
  samples,          \* m_total_samples
  freqTracker,      \* m_freq_tracker: pairs <<time, count>> in order of time
  entropyTracker,   \* m_entropy_tracker
  added             \* history: the times added since the last initialize

\* No distribution of n samples has more than log2(n).
Entropies == 0 .. Log2[Len(Log2)]

Tracker == INSTANCE RingBuffer WITH Values <- Entropies,
             Capacity <- WindowSize, Zero <- 0, buf <- entropyTracker

Init ==
  /\ samples = 0 /\ freqTracker = <<>> /\ added = <<>>
  /\ entropyTracker = Tracker!NewBuffer

-----------------------------------------------------------------------------

\* do_initialize.
DoInitialize ==
  /\ samples' = 0 /\ freqTracker' = <<>> /\ added' = <<>>
  /\ entropyTracker' = Tracker!Cleared(entropyTracker)

\* compute_entropy: the sum of -p log2(p), where p = count / n, is
\* log2(n) - (sum of count * log2(count)) / n.
compute_entropy(freq, n) ==
  IF freq = <<>> THEN 0
  ELSE Log2[n] - SumFunction([i \in DOMAIN freq |-> freq[i][2] * Log2[freq[i][2]]]) \div n

\* std::lower_bound of <<key, 0>>: the first entry that is not less.  Counts
\* are positive, so that is where the time is key or more; 0 is the end.
LowerBound(freq, key) == SelectInSeq(freq, LAMBDA f : f[1] >= key)

\* Mutant of Counted: the place found is taken to hold the time sought.
Counted_Near(freq, key) ==
  LET it == LowerBound(freq, key) IN
  IF it # 0 THEN [freq EXCEPT ![it][2] = @ + 1]
  ELSE Append(freq, <<key, 1>>)

Counted(freq, key) ==
  LET it == LowerBound(freq, key) IN
  CASE it # 0 /\ freq[it][1] = key -> [freq EXCEPT ![it][2] = @ + 1]
    [] it # 0 /\ freq[it][1] # key -> InsertAt(freq, it, <<key, 1>>)
    [] OTHER -> Append(freq, <<key, 1>>)

DoAddMeasurement(t) ==
  /\ samples' = samples + 1
  /\ freqTracker' = Counted(freqTracker, t)
  /\ entropyTracker' = Tracker!Pushed(entropyTracker, compute_entropy(freqTracker', samples'))
  /\ added' = Append(added, t)

-----------------------------------------------------------------------------
(* do_is_finished.  With x = 2i - (n - 1) for the i-th value from 0, the   *)
(* slope is 2 Sum(xy) / Sum(xx).                                           *)

Offset(n, i) == 2 * (i - 1) - (n - 1)

SumXY(y) == SumFunction([i \in DOMAIN y |-> Offset(Len(y), i) * y[i]])

SumXX(y) == SumFunction([i \in DOMAIN y |-> Offset(Len(y), i) * Offset(Len(y), i)])

\* compute_linear_regression and slope2deg: a falling line passes.
Flat(y) == 2 * SumXY(y) <= MaxSlope * SumXX(y)

\* n times ss_tot.
Variation(y) ==
  Len(y) * SumFunction([i \in DOMAIN y |-> y[i] * y[i]]) - SumFunction(y) * SumFunction(y)

\* compute_r2: 1 when all values are the same.
Linear(y) ==
  \/ Variation(y) = 0
  \/ 100 * Len(y) * SumXY(y) * SumXY(y) >= MinR2 * SumXX(y) * Variation(y)

\* Two entropies or more, and an even number of samples.
DoIsFinished ==
  LET y == Tracker!Contents(entropyTracker) IN
  /\ Tracker!Size(entropyTracker) >= 2
  /\ samples % 2 = 0
  /\ Flat(y) /\ Linear(y)

-----------------------------------------------------------------------------

TypeOK ==
  /\ samples = Len(added)
  /\ freqTracker \in Seq(Keys \X (Nat \ {0}))
  /\ entropyTracker \in Tracker!Buffers

\* How often the time is among the first n of this measurement.
Occurrences(key, n) == Cardinality({i \in 1 .. n : added[i] = key})

\* The table the entropy is computed from counts exactly the times of this
\* measurement: an entry for each time that occurred and no other, whatever
\* the order they came in and whatever was measured before.
FrequenciesAreOwn ==
  /\ \A i, j \in DOMAIN freqTracker : i < j => freqTracker[i][1] < freqTracker[j][1]
  /\ \A key \in Keys :
       LET n == Occurrences(key, Len(added)) IN
       IF n = 0 THEN \A i \in DOMAIN freqTracker : freqTracker[i][1] # key
       ELSE \E i \in DOMAIN freqTracker : freqTracker[i] = <<key, n>>

\* The entropy after the first n of these times, from the times themselves.
EntropyAfter(n) ==
  LET occurring == {added[i] : i \in 1 .. n} IN
  Log2[n] - SumFunction([key \in occurring |->
                           Occurrences(key, n) * Log2[Occurrences(key, n)]]) \div n

\* What do_is_finished ought to look at: the entropies after each of the most
\* recent samples of this measurement.
OwnEntropies ==
  LET n == Len(added)
      first == IF n > WindowSize THEN n - WindowSize + 1 ELSE 1
  IN  [i \in 1 .. n - first + 1 |-> EntropyAfter(first + i - 1)]
=============================================================================
