------------------------------ MODULE MeasureHot -----------------------------
(***************************************************************************)
(* The batched ("hot") measurement of a state: measure_hot and             *)
(* measure_hot_base (detail/measure_hot.cuh, detail/measure_hot.cu).       *)
(*                                                                         *)
(* A batch of launches is timed as a whole.  The first two of them are     *)
(* queued while the blocking kernel holds the stream; the next batch is as *)
(* long as the remaining time at the mean duration so far.  An exception   *)
(* abandons the measurement: Exec raises it.                               *)
(***************************************************************************)
EXTENDS State

CONSTANT Durations  \* GPU times of a warm-up or of a batch, in ticks

ASSUME DurationsAssumption == Durations \subseteq Nat

VARIABLE hot

hotVars == <<hot>>

Least(a, b)    == IF a < b THEN a ELSE b
Greatest(a, b) == IF a > b THEN a ELSE b

HotIdle ==
  [at |-> "none", min_samples |-> 0, min_time |-> 0, skip_time |-> 0, timeout |-> 0,
   disabled |-> FALSE, batch_size |-> 1, left |-> 0, launched |-> 0, blocked |-> FALSE,
   total_samples |-> 0, total_cuda_time |-> 0, walltime |-> 0, timed_out |-> FALSE]

HotTypeOK ==
  /\ hot.at \in {"none", "check", "warmup", "warming", "batch", "launching", "summaries"}
  /\ hot.batch_size \in Int /\ hot.left \in Nat /\ hot.launched \in Nat
  /\ hot.disabled \in BOOLEAN /\ hot.blocked \in BOOLEAN
  /\ hot.total_samples \in Nat /\ hot.total_cuda_time \in Nat

\* Value of the summary a state gives for a tag.
SummaryValue(s, tag) == s.summaries[get_summary(s, tag)].value

\* Mutant of HotParameters: the samples of the cold measurement are not looked up.
HotParameters_Alone(s) ==
  [HotIdle EXCEPT !.at = "check", !.timeout = s.set.timeout,
                  !.min_samples = s.set.min_samples, !.min_time = s.set.min_time]

\* The constructor.  Without a cold measurement the target time lies between
\* the minimum time and the timeout.
HotParameters(s) ==
  LET cold == get_summary(s, "nv/cold/sample_size") # 0 IN
  [HotIdle EXCEPT
     !.at = "check",
     !.timeout = s.set.timeout,
     !.min_samples = IF cold THEN Greatest(s.set.min_samples,
                                           SummaryValue(s, "nv/cold/sample_size"))
                     ELSE s.set.min_samples,
     !.skip_time = IF cold THEN -1 ELSE s.set.skip_time,
     !.min_time = IF cold THEN s.set.min_time
                  ELSE Least((s.set.min_time + s.set.timeout) \div 2, 5 * s.set.min_time)]

\* check() and initialize(); the warm-up is a batch of one launch.
HotCheck ==
  /\ hot.at = "check"
  /\ hot' = [hot EXCEPT !.at = "warmup", !.total_cuda_time = 0, !.total_samples = 0,
                        !.timed_out = FALSE]
  /\ UNCHANGED st

\* The size of a batch is at least one.
HotStart ==
  /\ hot.at \in {"warmup", "batch"}
  /\ LET size == IF hot.at = "warmup" THEN 1 ELSE Greatest(hot.batch_size, 1)
     IN  hot' = [hot EXCEPT !.at = IF @ = "warmup" THEN "warming" ELSE "launching",
                            !.batch_size = size, !.left = size, !.launched = 0,
                            !.blocked = ~hot.disabled]
  /\ UNCHANGED st

\* Mutant of HotLaunch: one launch too many.
HotLaunch_OneMore ==
  /\ hot.at \in {"warming", "launching"} /\ hot.left >= 0
  /\ hot.blocked => hot.launched < 2
  /\ hot' = [hot EXCEPT !.left = @ - 1, !.launched = @ + 1]
  /\ UNCHANGED st

\* At most two launches are queued while the stream is blocked.
HotLaunch ==
  /\ hot.at \in {"warming", "launching"} /\ hot.left > 0
  /\ hot.blocked => hot.launched < 2
  /\ hot' = [hot EXCEPT !.left = @ - 1, !.launched = @ + 1]
  /\ UNCHANGED st

HotUnblock ==
  /\ hot.at \in {"warming", "launching"} /\ hot.blocked
  /\ hot.launched = Least(hot.batch_size, 2)
  /\ hot' = [hot EXCEPT !.blocked = FALSE]
  /\ UNCHANGED st

Launched == hot.left = 0 /\ ~hot.blocked

SkipsAfter(duration, skip_time) == skip_time > 0 /\ duration < skip_time

\* The warm-up ends: 95% of its duration estimates that of a launch.  A
\* duration of zero gives infinity or NaN, which the conversion to an integer
\* of an x86-64 build makes the least 64-bit integer: a batch of one.
HotWarmupStop(duration) ==
  /\ hot.at = "warming" /\ Launched
  /\ ~SkipsAfter(duration, hot.skip_time)
  /\ hot' = [hot EXCEPT !.at = "batch", !.walltime = 0,
                        !.batch_size = IF duration = 0 THEN 0
                                       ELSE (100 * hot.min_time) \div (95 * duration)]
  /\ UNCHANGED st

\* Launches predicted to reach the minimum time, truncated towards zero.
Remaining(min_time, time, count) ==
  IF time = 0 \/ min_time <= time THEN 0 ELSE ((min_time - time) * count) \div time

\* A batch ends; with its host work it takes a tick longer than on the GPU.
HotBatchStop(duration) ==
  LET time   == hot.total_cuda_time + duration
      count  == hot.total_samples + hot.batch_size
      wall   == hot.walltime + duration + 1
      enough == time > hot.min_time /\ count > hot.min_samples
      late   == ~enough /\ wall > hot.timeout
  IN
  /\ hot.at = "launching" /\ Launched
  /\ hot' = [hot EXCEPT !.total_cuda_time = time, !.total_samples = count,
                        !.batch_size = Remaining(hot.min_time, time, count),
                        !.walltime = wall, !.timed_out = late,
                        !.at = IF enough \/ late THEN "summaries" ELSE "batch"]
  /\ UNCHANGED st

\* generate_summaries.  The mean is known by its dividend and divisor.
HotSummaries(s) ==
  add_summaries(s,
           <<Summary("nv/batch/sample_size", "Samples", hot.total_samples),
             Summary("nv/batch/time/gpu/mean", "Batch GPU",
                     <<hot.total_cuda_time, hot.total_samples>>),
             Summary("nv/batch/walltime", "Walltime", hot.walltime)>>)

\* The warnings of a measurement that timed out.
HotWarnings ==
  IF ~hot.timed_out THEN {}
  ELSE (IF hot.total_samples < hot.min_samples THEN {"min_samples"} ELSE {})
       \cup (IF hot.total_cuda_time < hot.min_time THEN {"min_time"} ELSE {})

HotFinish ==
  /\ hot.at = "summaries"
  /\ st' = HotSummaries(st)
  /\ hot' = HotIdle
=============================================================================
