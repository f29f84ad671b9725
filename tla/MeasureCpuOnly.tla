---------------------------- MODULE MeasureCpuOnly ---------------------------
(***************************************************************************)
(* The measurement of a CPU-only benchmark: measure_cpu_only and           *)
(* measure_cpu_only_base (detail/measure_cpu_only.cuh, .cxx).              *)
(*                                                                         *)
(* The stopping criterion answers as it likes: StdrelCriterion and         *)
(* EntropyCriterion say how the two of this program do.                    *)
(***************************************************************************)
EXTENDS State

CONSTANTS
  CpuTimes,   \* CPU times of a launch, in ticks
  MaxSamples  \* bound: where the sample count saturates; no timeout is as long

ASSUME CpuAssumption == CpuTimes \subseteq Nat /\ MaxSamples \in Nat

VARIABLE cpu

CpuIdle ==
  [at |-> "none", run_once |-> FALSE, min_samples |-> 0, skip_time |-> 0,
   timeout |-> 0, total_samples |-> 0, walltime |-> 0, timed_out |-> FALSE]

CpuTypeOK ==
  /\ cpu.at \in {"none", "initialize", "warmup", "trial", "finished?", "summaries"}
  /\ cpu.total_samples \in 0 .. MaxSamples
  /\ cpu.walltime \in Nat /\ cpu.timed_out \in BOOLEAN

\* The constructor; check() does nothing.
CpuParameters(s) ==
  [CpuIdle EXCEPT !.at = "initialize", !.run_once = s.set.run_once,
                  !.min_samples = s.set.min_samples, !.skip_time = s.set.skip_time,
                  !.timeout = s.set.timeout]

\* A measurement that runs once has no warm-up.
CpuInitialize ==
  /\ cpu.at = "initialize"
  /\ cpu' = [cpu EXCEPT !.total_samples = 0, !.timed_out = FALSE,
                        !.at = IF cpu.run_once THEN "trial" ELSE "warmup"]
  /\ UNCHANGED st

\* The wall clock starts after the warm-up.
CpuWarmup(time) ==
  /\ cpu.at = "warmup"
  /\ ~(cpu.skip_time > 0 /\ time < cpu.skip_time)
  /\ cpu' = [cpu EXCEPT !.at = "trial", !.walltime = 0]
  /\ UNCHANGED st

\* A launch and record_measurements; the host takes a tick more.
CpuTrial(time) ==
  /\ cpu.at = "trial"
  /\ cpu' = [cpu EXCEPT !.total_samples = Min({@ + 1, MaxSamples}),
                        !.walltime = @ + time + 1, !.at = "finished?"]
  /\ UNCHANGED st

\* Mutant of is_finished: only the criterion ends the measurement.
is_finished_Patient(criterion) ==
  cpu.run_once \/ (cpu.total_samples > cpu.min_samples /\ criterion)

\* is_finished, given the criterion's answer.
is_finished(criterion) ==
  \/ cpu.run_once
  \/ cpu.total_samples > cpu.min_samples /\ criterion
  \/ cpu.walltime > cpu.timeout

CpuFinished(criterion) ==
  /\ cpu.at = "finished?"
  /\ cpu' = [cpu EXCEPT !.at = IF is_finished(criterion) THEN "summaries" ELSE "trial",
                        !.timed_out = /\ cpu.walltime > cpu.timeout /\ ~cpu.run_once
                                      /\ ~(cpu.total_samples > cpu.min_samples /\ criterion),
                        !.walltime = Min({@, cpu.timeout + 1})]
  /\ UNCHANGED st

\* generate_summaries.
CpuSummaries(s) ==
  LET rates ==
        (IF s.element_count # 0
           THEN <<Summary("nv/cpu_only/bw/item_rate", "Elem/s", s.element_count)>> ELSE <<>>)
        \o (IF s.global_memory_rw_bytes # 0
              THEN <<Summary("nv/cpu_only/bw/global/bytes_per_second", "GlobalMem BW",
                             s.global_memory_rw_bytes)>> ELSE <<>>)
  IN  add_summaries(s,
        <<Summary("nv/cpu_only/sample_size", "Samples", cpu.total_samples),
          Summary("nv/cpu_only/time/cpu/min", "Min CPU Time", "time"),
          Summary("nv/cpu_only/time/cpu/max", "Max CPU Time", "time"),
          Summary("nv/cpu_only/time/cpu/mean", "CPU Time", "time"),
          Summary("nv/cpu_only/time/cpu/stdev/absolute", "Noise", "time"),
          Summary("nv/cpu_only/time/cpu/stdev/relative", "Noise", "ratio")>>
        \o rates \o <<Summary("nv/cpu_only/walltime", "Walltime", cpu.walltime)>>)

CpuFinish ==
  /\ cpu.at = "summaries"
  /\ st' = CpuSummaries(st)
  /\ cpu' = CpuIdle
=============================================================================
