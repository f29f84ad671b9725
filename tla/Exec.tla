-------------------------------- MODULE Exec ---------------------------------
(***************************************************************************)
(* Runs of a benchmark's generator on one state after the other, as far as *)
(* state::exec sees them (detail/state_exec.cuh, exec_tag.cuh): it skips   *)
(* the state, adds counts, asks for metrics, and calls exec; exec picks    *)
(* the measurements its tags and the state select and runs them one after  *)
(* the other; an exception leaves the generator and reaches the runner,    *)
(* which goes on to the next state in the same process (runner.cuh).       *)
(*                                                                         *)
(* The batched, CPU-only and profiled measurements are the ones of the     *)
(* extended modules.  The isolated one is seen from outside: MeasureCold   *)
(* says how it arrives at its number of samples.                           *)
(***************************************************************************)
EXTENDS MeasureHot, MeasureCpuOnly, MeasureCupti

CONSTANTS
  HasCupti,     \* NVBENCH_HAS_CUPTI
  TagSets,      \* tags the generator passes to exec, as sets of exec_flag
  Requests,     \* sets of metrics the generator asks for
  ColdSamples,  \* sample counts an isolated measurement may end with
  MaxCalls      \* bound: calls the generator makes, on all states together

VARIABLES
  tags,     \* tags of the call of exec in progress
  plan,     \* measurements it has yet to finish
  started,  \* the first of them has been constructed
  blocked,  \* the isolated measurement holds the stream
  outcome,  \* of the generator
  calls,
  left      \* history: what profiled measurements that threw have left acquired

vars == <<st, hot, cpu, cuptiVars, tags, plan, started, blocked, outcome, calls, left>>

-----------------------------------------------------------------------------
(* Tags *)

Modifiers == {"timer", "sync", "gpu", "no_gpu", "no_batch"}
Measures  == {"cold", "hot", "cpu_only"}

\* nvbench::exec_tag: what a benchmark combines with operator|.
exec_tag ==
  {{}, {"timer", "no_batch"}, {"sync", "no_batch"}, {"no_batch"}, {"gpu"}, {"no_gpu"}}

\* Combinations of tags that compile: the static_asserts on them.
Compiles(t) ==
  /\ t \subseteq Modifiers \cup Measures
  /\ ~({"gpu", "no_gpu"} \subseteq t)
  /\ "cpu_only" \in t => "gpu" \notin t
  /\ "cold" \in t => "no_gpu" \notin t
  /\ "hot" \in t => t \cap {"sync", "timer", "no_batch", "no_gpu"} = {}

\* Without measurement tags some are picked by the modifiers.
Selected(t) ==
  LET batch == IF "no_batch" \in t THEN {} ELSE {"hot"} IN
  CASE t \cap Measures # {} -> t
    [] t \cap Measures = {} /\ "gpu" \in t -> t \cup {"cold"} \cup batch
    [] t \cap Measures = {} /\ "gpu" \notin t /\ "no_gpu" \in t -> t \cup {"cpu_only"}
    [] OTHER -> t \cup {"cold", "cpu_only"} \cup batch

\* Measurements of a call, in order.
Plan(t, s) ==
  LET only(m, runs) == IF m \in t /\ runs THEN <<m>> ELSE <<>>
      profiled == HasCupti /\ "cold" \in t /\ s.collected # {} /\ ~s.set.run_once
  IN  IF s.set.is_cpu_only THEN only("cpu_only", TRUE)
      ELSE (IF profiled THEN <<"cupti">> ELSE <<>>)
             \o only("cold", TRUE) \o only("hot", ~s.set.run_once)

\* Mutant of synced: the stream may still be blocked.
synced_Throttle(t, s) ==
  IF "sync" \in t THEN [s EXCEPT !.set.throttle_threshold = 0] ELSE s

\* Settings a call with the sync tag leaves behind on the state.
synced(t, s) ==
  IF "sync" \in t
    THEN [s EXCEPT !.set.disable_blocking_kernel = TRUE, !.set.throttle_threshold = 0]
    ELSE s

-----------------------------------------------------------------------------
(* The generator *)

ASSUME ExecAssumption ==
  /\ HasCupti \in BOOLEAN /\ MaxCalls \in Nat /\ ColdSamples \subseteq Nat
  /\ \A t \in TagSets : Compiles(t) /\ Compiles(Selected(t))
  /\ \A r \in Requests : r \subseteq ToSet(Metrics)

\* Tags that are put together from names are none of the ones looked for by
\* measure_hot and the properties: the provers know nothing of the
\* concatenation of strings.
ASSUME TagAssumption ==
  LET sought == {"nv/cold/sample_size", "nv/batch/sample_size", "nv/cold/walltime",
                 "nv/batch/walltime", "nv/cpu_only/walltime", "nv/cupti/walltime"} IN
  /\ gmem_tag("reads", "a") \notin sought
  /\ \A m \in ToSet(Metrics) : cupti_tag(m) \notin sought

Init ==
  /\ \E bench \in Benchmarks : st = NewState(bench)
  /\ hot = HotIdle /\ cpu = CpuIdle /\ CuptiInit
  /\ tags = {} /\ plan = <<>> /\ started = FALSE /\ blocked = FALSE
  /\ outcome = "running" /\ calls = 0 /\ left = {}

measuring == <<hot, cpu, cuptiVars, left>>
control   == <<tags, plan, started, blocked>>

Generating == outcome = "running" /\ plan = <<>>

GeneratorCalls ==
  /\ Generating /\ calls < MaxCalls /\ calls' = calls + 1
  /\ UNCHANGED <<measuring, started, blocked>>

GeneratorSkips ==
  /\ GeneratorCalls /\ st' = skip(st, "generator")
  /\ UNCHANGED <<tags, plan, outcome>>

\* add_element_count and add_global_memory_reads, one with a column.
GeneratorAdds(column) ==
  /\ GeneratorCalls
  /\ st' = add_global_memory(add_element_count(st, 1, unnamed), 1, "reads", column)
  /\ UNCHANGED <<tags, plan, outcome>>

GeneratorCollects(metrics) ==
  /\ GeneratorCalls /\ st' = collect(st, metrics)
  /\ UNCHANGED <<tags, plan, outcome>>

\* The runner: an exception skips the state unless what threw it did already.
Caught(s) ==
  /\ outcome' = "caught"
  /\ st' = IF s.skip_reason # "" THEN s ELSE skip(s, "unexpected error")

GeneratorThrows ==
  /\ Generating /\ Caught(st)
  /\ UNCHANGED <<measuring, control, calls>>

GeneratorReturns ==
  /\ Generating /\ outcome' = "returned"
  /\ UNCHANGED <<st, measuring, control, calls>>

\* The runner goes on to another state, of this benchmark or a later one,
\* whatever became of this one.  What the profiler has acquired and not released
\* stays with the process.
NextState ==
  /\ outcome \in {"caught", "returned"} /\ outcome' = "running" /\ tags' = {}
  /\ \E bench \in Benchmarks : st' = NewState(bench)
  /\ UNCHANGED <<measuring, plan, started, blocked, calls>>

\* The device hints must agree with the benchmark.
Mismatch(t, s) ==
  \/ "no_gpu" \in t /\ ~s.set.is_cpu_only
  \/ "gpu" \in t /\ s.set.is_cpu_only

\* The tag settings precede the look at the skip reason.
GeneratorExecs(t) ==
  /\ GeneratorCalls
  /\ IF Mismatch(Selected(t), st)
       THEN Caught(st) /\ UNCHANGED <<tags, plan>>
       ELSE /\ st' = synced(t, st) /\ tags' = Selected(t)
            /\ plan' = IF is_skipped THEN <<>> ELSE Plan(Selected(t), st')
            /\ UNCHANGED outcome

-----------------------------------------------------------------------------
(* The measurements *)

Measuring(m) == started /\ plan # <<>> /\ Head(plan) = m

unbound == <<tags, outcome, calls, left>>

\* The constructor of the next measurement reads the state.
Construct ==
  /\ plan # <<>> /\ ~started /\ started' = TRUE
  /\ hot' = IF Head(plan) = "hot" THEN HotParameters(st) ELSE hot
  /\ cpu' = IF Head(plan) = "cpu_only" THEN CpuParameters(st) ELSE cpu
  /\ blocked' = (Head(plan) = "cold" /\ ~st.set.disable_blocking_kernel)
  /\ IF Head(plan) = "cupti" THEN CuptiConstruct ELSE UNCHANGED cuptiVars
  /\ UNCHANGED <<st, plan, unbound>>

Finished == plan' = Tail(plan) /\ started' = FALSE /\ blocked' = FALSE

\* An exception out of a measurement ends the call and the generator; s is the
\* state it leaves.
Raise(s) ==
  /\ Caught(s)
  /\ plan' = <<>> /\ started' = FALSE /\ blocked' = FALSE
  /\ hot' = HotIdle /\ cpu' = CpuIdle /\ code' = <<>> /\ guarded' = {}
  /\ held' = Unwound
  /\ UNCHANGED <<passes, samples, tags, calls>>

\* The last trial is over: generate_summaries of measure_cold.
ColdSummaries(s, n) ==
  add_summaries(s,
           <<Summary("nv/cold/sample_size", "Samples", n),
             Summary("nv/cold/time/gpu/mean", "GPU Time", "time"),
             Summary("nv/cold/walltime", "Walltime", "time")>>)

ColdFinish(n) ==
  /\ Measuring("cold") /\ st' = ColdSummaries(st, n) /\ Finished
  /\ st.set.run_once => n <= 1
  /\ UNCHANGED <<measuring, unbound>>

\* A launch that throws, or a warm-up shorter than skip_time.
ColdFails ==
  /\ Measuring("cold")
  /\ \/ Raise(st)
     \/ st.set.skip_time > 0 /\ ~st.set.run_once /\ Raise(skip(st, "skip_time"))
  /\ UNCHANGED left

HotSteps ==
  /\ Measuring("hot")
  /\ \/ HotCheck \/ HotStart \/ HotLaunch \/ HotUnblock
     \/ \E d \in Durations : HotWarmupStop(d) \/ HotBatchStop(d)
  /\ UNCHANGED <<cpu, cuptiVars, control, outcome, calls, left>>

HotEnds ==
  /\ Measuring("hot") /\ HotFinish /\ Finished
  /\ UNCHANGED <<cpu, cuptiVars, unbound>>

\* No active device, a launch that throws, or a warm-up shorter than skip_time.
HotFails ==
  /\ Measuring("hot")
  /\ \/ hot.at \in {"check", "warming", "launching"} /\ Raise(st)
     \/ /\ hot.at = "warming" /\ Launched
        /\ \E d \in Durations : SkipsAfter(d, hot.skip_time)
        /\ Raise(skip(st, "skip_time"))
  /\ UNCHANGED left

CpuSteps ==
  /\ Measuring("cpu_only")
  /\ \/ CpuInitialize
     \/ \E time \in CpuTimes : CpuWarmup(time) \/ CpuTrial(time)
     \/ \E answer \in BOOLEAN : CpuFinished(answer)
  /\ UNCHANGED <<hot, cuptiVars, control, outcome, calls, left>>

CpuEnds ==
  /\ Measuring("cpu_only") /\ CpuFinish /\ Finished
  /\ UNCHANGED <<hot, cuptiVars, unbound>>

CpuFails ==
  /\ Measuring("cpu_only")
  /\ \/ cpu.at \in {"warmup", "trial"} /\ Raise(st)
     \/ /\ cpu.at = "warmup" /\ \E time \in CpuTimes : SkipsAfter(time, cpu.skip_time)
        /\ Raise(skip(st, "skip_time"))
  /\ UNCHANGED left

CuptiSteps ==
  /\ Measuring("cupti") /\ CuptiStep
  /\ UNCHANGED <<st, hot, cpu, control, outcome, calls, left>>

\* The destructor of the measurement de-initializes the profiler.
CuptiDestroyed ==
  /\ held' = Unwound \ {"profiler"} /\ guarded' = {} /\ code' = <<>>
  /\ UNCHANGED <<passes, samples>>

CuptiEnds ==
  /\ Measuring("cupti") /\ code = <<>>
  /\ st' = generate_cupti_summaries(st) /\ Finished /\ CuptiDestroyed
  /\ UNCHANGED <<hot, cpu, unbound>>

\* Counters that cannot be read are a warning; any other failure is thrown.
CuptiFails ==
  /\ Measuring("cupti") /\ CanFail /\ Head(code) # Release("evaluator")
  /\ \/ /\ Collected /\ Finished /\ CuptiDestroyed
        /\ UNCHANGED <<st, hot, cpu, unbound>>
     \/ ~Collected /\ Raise(st) /\ left' = left \cup Unwound

\* The error meets a second one in a destructor.
CuptiTerminates ==
  /\ Measuring("cupti") /\ CanFail /\ Terminates
  /\ outcome' = "terminated" /\ plan' = <<>> /\ started' = FALSE
  /\ UNCHANGED <<st, measuring, tags, blocked, calls>>

-----------------------------------------------------------------------------
Program ==
  \/ Construct
  \/ \E n \in ColdSamples : ColdFinish(n)
  \/ HotSteps \/ HotEnds \/ CpuSteps \/ CpuEnds \/ CuptiSteps \/ CuptiEnds

Failure == ColdFails \/ HotFails \/ CpuFails \/ CuptiFails \/ CuptiTerminates

Generator ==
  \/ GeneratorSkips \/ GeneratorThrows \/ GeneratorReturns
  \/ GeneratorAdds("a")
  \/ \E metrics \in Requests : GeneratorCollects(metrics)
  \/ \E t \in TagSets : GeneratorExecs(t)

Next == Program \/ Failure \/ Generator \/ NextState

\* Launchers and library calls return: exec never waits for anything else.
Spec == Init /\ [][Next]_vars /\ WF_vars(Program)

-----------------------------------------------------------------------------

\* Every variable keeps its type, whatever the generator calls and whatever
\* fails.
TypeOK ==
  /\ StateTypeOK /\ HotTypeOK /\ CpuTypeOK
  /\ tags \subseteq Modifiers \cup Measures
  /\ plan \in Seq(Measures \cup {"cupti"}) /\ started \in BOOLEAN /\ blocked \in BOOLEAN
  /\ outcome \in {"running", "caught", "returned", "terminated"}
  /\ guarded \subseteq held /\ passes \in 1 .. MaxPasses

\* While a launcher that synchronizes is measured, no blocking kernel holds
\* the stream (state_exec.cuh: it would deadlock), whatever calls of exec came
\* before.
SyncNeverBlocked == (blocked \/ hot.blocked) => "sync" \notin tags

\* A batched measurement that follows an isolated one ends with more samples
\* than that one or after the timeout, also when exec is called repeatedly.
HotMatchesCold ==
  \A i \in DOMAIN st.summaries :
    LET before == [st EXCEPT !.summaries = SubSeq(@, 1, i - 1)] IN
    (st.summaries[i].tag = "nv/batch/sample_size"
       /\ get_summary(before, "nv/cold/sample_size") # 0)
      => \/ st.summaries[i].value > SummaryValue(before, "nv/cold/sample_size")
         \/ st.summaries[i + 2].value > st.set.timeout

\* A profiled measurement that ends, with its metrics or with the warning that
\* they cannot be read, has closed its session and released all it acquired
\* before another measurement, of this state or a later one, launches a kernel.
\* What is open then was left by a failure of the library that was thrown: the
\* profiler's destructor ends no session.
ProfilerClosed ==
  (started /\ plan # <<>> /\ Head(plan) # "cupti") => held \subseteq left

\* A measurement is known by the summary it adds last; a profiled one reports
\* only if every metric has the metric's own value.
ReportedAs(s, summary) ==
  CASE summary.tag = "nv/cold/walltime"     -> <<"cold">>
    [] summary.tag = "nv/batch/walltime"    -> <<"hot">>
    [] summary.tag = "nv/cpu_only/walltime" -> <<"cpu_only">>
    [] summary.tag = "nv/cupti/walltime"    ->
         IF \A x \in ToSet(s.summaries) : x.name \in ToSet(Metrics) => x.value = x.name
           THEN <<"cupti">> ELSE <<"wrong metrics">>
    [] OTHER -> <<>>

\* The measurements that have reported on a state, in order.
Reported(s) ==
  FlattenSeq([i \in DOMAIN s.summaries |-> ReportedAs(s, s.summaries[i])])

Contract == INSTANCE ExecContract
  WITH owed <- plan, reported <- Reported(st), over <- outcome # "running",
       Plans <- {<<"cpu_only">>, <<"cold">>, <<"hot">>, <<"cold", "hot">>,
                 <<"cupti", "cold">>, <<"cupti", "cold", "hot">>}

\* The measurements a call owes are reported in order, none twice, each with
\* its own values; what ends one early ends the call and the generator, and
\* what a state reported stays until then (ExecContract).
ImplementsContract == Contract!Spec

\* Every call of exec comes to an end: timeouts bound both loops, whatever the
\* stopping criterion answers.
ExecEnds == (plan # <<>>) ~> (plan = <<>>)

\* --disable-blocking-kernel: "Don't use the `blocking_kernel`"
\* (docs/cli_help.md).
DisabledMeansUnblocked ==
  (blocked \/ hot.blocked) => ~st.set.disable_blocking_kernel
=============================================================================
