---------------------------- MODULE MeasureCupti ----------------------------
(***************************************************************************)
(* The CUPTI measurement (detail/measure_cupti.cu, .cuh) and the profiler  *)
(* it drives (cupti_profiler.cxx).                                         *)
(*                                                                         *)
(* The profiler is almost nothing but calls of a C library, any of which   *)
(* may return an error, and guards that release what the calls acquired.   *)
(* Each method is therefore a sequence of instructions: "call", "acquire"  *)
(* and "release" are library calls, and "guard" is the point from which a  *)
(* destructor releases the resource when an exception unwinds the stack.   *)
(***************************************************************************)
EXTENDS State

CONSTANT MaxPasses  \* bound: passes the profiler may ask for

ASSUME PassesAssumption == MaxPasses \in Nat \ {0}

VARIABLES
  code,     \* instructions still to be executed
  held,     \* library resources acquired and not released
  guarded,  \* the ones a destructor would release
  passes,   \* passes the metrics need
  samples   \* m_total_samples

cuptiVars == <<code, held, guarded, passes, samples>>

Op(op, what)   == [op |-> op, what |-> what]
Call           == Op("call", "none")
Acquire(r)     == Op("acquire", r)
Release(r)     == Op("release", r)
Guard(r)       == Op("guard", r)
Times(n, ops)  == FlattenSeq([i \in 1 .. n |-> ops])

-----------------------------------------------------------------------------
(* cupti_profiler::cupti_profiler *)

initialize_profiler          == <<Acquire("profiler")>>
initialize_chip_name         == <<Call>>
initialize_availability_image == <<Call, Call>>
initialize_nvpw              == <<Call>>

metric_evaluator == <<Call, Acquire("evaluator"), Guard("evaluator")>>
eval_request     == <<Call>>

\* The evaluator's destructor checks the call that destroys it.
get_raw_metric_requests(metrics) ==
  metric_evaluator
    \o Times(Len(metrics), eval_request \o <<Call, Call>>)   \* get_raw_dependencies
    \o <<Release("evaluator")>>

\* create(), then five calls before the constructor is complete.
metrics_config ==
  <<Acquire("config")>> \o Times(5, <<Call>>) \o <<Guard("config")>>

get_config_image == <<Call, Call>>

initialize_config_image(metrics) ==
  get_raw_metric_requests(metrics) \o metrics_config \o get_config_image
    \o <<Op("drop", "config")>>

counter_data_builder == <<Acquire("builder"), Guard("builder")>>

initialize_counter_data_prefix_image(metrics) ==
  get_raw_metric_requests(metrics) \o counter_data_builder
    \o Times(3, <<Call>>) \o <<Op("drop", "builder")>>

get_counter_data_image_size   == <<Call>>
initialize_counter_data_image == get_counter_data_image_size \o Times(3, <<Call>>)

cupti_profiler(metrics) ==
  initialize_profiler \o initialize_chip_name \o initialize_availability_image
    \o initialize_nvpw \o initialize_config_image(metrics)
    \o initialize_counter_data_prefix_image(metrics)
    \o initialize_counter_data_image \o <<Guard("profiler")>>

-----------------------------------------------------------------------------
(* The loop over passes *)

prepare_user_loop == <<Acquire("session"), Call>>

start_user_loop == <<Acquire("pass"), Acquire("profiling"), Acquire("range")>>

stop_user_loop == <<Release("range"), Release("profiling")>>

\* Mutant of process_user_loop: the session is left open.
process_user_loop_Open == <<Call, Call>>

\* FlushCounterData, UnsetConfig, EndSession.
process_user_loop == <<Call, Call, Release("session")>>

\* A launcher runs between the start and the stop of its timer.
launch == start_user_loop \o <<Op("launch", "none")>> \o stop_user_loop

\* is_replay_required: EndPass; the answer decides what follows.
one_pass == launch \o <<Release("pass"), Op("sample", "none")>>

get_counter_values(metrics) ==
  metric_evaluator \o <<Call>> \o Times(Len(metrics), eval_request \o <<Call, Call>>)
    \o <<Release("evaluator")>>

-----------------------------------------------------------------------------
(* measure_cupti *)

\* What of holds for each collected metric, in the order of metric_id.
PerMetric(s, of) ==
  FlattenSeq([m \in DOMAIN Metrics |->
                IF Metrics[m] \in s.collected THEN <<of[m]>> ELSE <<>>])

add_metrics(s) == PerMetric(s, Metrics)

\* Numbers of the collected metrics.
ids(s) == PerMetric(s, [m \in DOMAIN Metrics |-> m])

cupti_tag(metric) == "nv/cupti/" \o metric

\* Mutant of gen_summaries: results are indexed by metric, not by request.
gen_summaries_ByMetric(s, result) ==
  add_summaries(s, [k \in DOMAIN ids(s) |->
    Summary(cupti_tag(Metrics[ids(s)[k]]), Metrics[ids(s)[k]],
            IF ids(s)[k] \in DOMAIN result THEN result[ids(s)[k]] ELSE "out of range")])

\* One summary per collected metric, in the order of metric_id, each with the
\* next result.
gen_summaries(s, result) ==
  add_summaries(s, [k \in DOMAIN ids(s) |->
    Summary(cupti_tag(Metrics[ids(s)[k]]), Metrics[ids(s)[k]], result[k])])

\* The value of a metric is known by its name, as the library returns it.
generate_cupti_summaries(s) ==
  add_summary(add_summary(gen_summaries(s, add_metrics(s)),
                          Summary("nv/cupti/sample_size", "Samples", samples)),
              Summary("nv/cupti/walltime", "Walltime", "time"))

CuptiInit ==
  code = <<>> /\ held = {} /\ guarded = {} /\ passes = 1 /\ samples = 0

CuptiConstruct ==
  /\ code' = cupti_profiler(add_metrics(st)) \o prepare_user_loop \o one_pass
  /\ passes' \in 1 .. MaxPasses /\ samples' = 0
  /\ UNCHANGED <<held, guarded>>

\* An instruction succeeds.  The last pass is followed by the end of the loop.
CuptiStep ==
  LET ins == Head(code) IN
  /\ code # <<>>
  /\ held' = CASE ins.op = "acquire" -> held \cup {ins.what}
               [] ins.op \in {"release", "drop"} -> held \ {ins.what}
               [] OTHER -> held
  /\ guarded' = CASE ins.op = "guard" -> guarded \cup {ins.what}
                  [] ins.op \in {"release", "drop"} -> guarded \ {ins.what}
                  [] OTHER -> guarded
  /\ samples' = IF ins.op = "sample" THEN samples + 1 ELSE samples
  /\ code' = CASE ins.op = "sample" /\ samples' < passes -> one_pass
               [] ins.op = "sample" /\ samples' >= passes ->
                    process_user_loop \o <<Op("summaries", "none")>> \o get_counter_values(add_metrics(st))
               [] OTHER -> Tail(code)
  /\ UNCHANGED passes

\* Instructions that can fail, and what is left once the stack is unwound.
CanFail == code # <<>> /\ Head(code).op \in {"call", "acquire", "release", "launch"}
Unwound == held \ guarded

\* A destructor that throws ends the process: std::terminate.
Terminates ==
  \/ Head(code) = Release("evaluator")
  \/ "evaluator" \in guarded

\* The launches are over: an error of get_counter_values is caught.
Collected == Op("summaries", "none") \notin ToSet(code) /\ samples >= passes
=============================================================================
