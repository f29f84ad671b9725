-------------------------------- MODULE MCExec -------------------------------
(***************************************************************************)
(* Instance of Exec for TLC: benchmarks, tags and metrics.                 *)
(***************************************************************************)
EXTENDS Exec

\* A GPU benchmark, one that runs once, one whose user has disabled the
\* blocking kernel, and a CPU-only one with and without repetition.
BenchmarksValue ==
  LET plain == [is_cpu_only |-> FALSE, run_once |-> FALSE, disable_blocking_kernel |-> FALSE,
                min_samples |-> 0, min_time |-> 3, skip_time |-> 1, timeout |-> 5,
                throttle_threshold |-> 1]
  IN  {plain, [plain EXCEPT !.run_once = TRUE], [plain EXCEPT !.is_cpu_only = TRUE, !.timeout = 2],
       [plain EXCEPT !.is_cpu_only = TRUE, !.run_once = TRUE],
       [plain EXCEPT !.disable_blocking_kernel = TRUE, !.skip_time = 0]}

\* Public tags and combinations of them, and single measurements, as tests
\* of the repository ask for.
TagSetsValue ==
  {{}, {"sync", "timer", "no_batch"}, {"gpu"}, {"no_gpu"}, {"hot"}}

RequestsValue == {{"loads_efficiency", "stores_efficiency"}}
=============================================================================
