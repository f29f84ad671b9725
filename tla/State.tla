-------------------------------- MODULE State --------------------------------
(***************************************************************************)
(* A benchmark state (state.cuh, state.cxx): the settings it inherits, the *)
(* counts and summaries it collects, and the reason it is skipped.         *)
(*                                                                         *)
(* A summary is a record [tag, name, value].  Times are ticks.             *)
(***************************************************************************)
EXTENDS Integers, Sequences, FiniteSets, SequencesExt, FiniteSetsExt

CONSTANT Benchmarks  \* records of the settings a state inherits

\* Times and counts of the settings; a skip_time of -1 skips nothing.
ASSUME BenchmarksAssumption ==
  \A bench \in Benchmarks :
    /\ \A k \in {"is_cpu_only", "run_once", "disable_blocking_kernel"} : bench[k] \in BOOLEAN
    /\ bench.min_samples \in Nat /\ bench.timeout \in Nat
    /\ bench.min_time \in Nat /\ bench.skip_time \in Int

VARIABLE st          \* the nvbench::state

Inherited ==
  {"is_cpu_only", "run_once", "disable_blocking_kernel", "min_samples",
   "min_time", "skip_time", "timeout", "throttle_threshold"}

\* state::state.
NewState(bench) ==
  [set |-> [k \in Inherited |-> bench[k]], skip_reason |-> "", summaries |-> <<>>,
   element_count |-> 0, global_memory_rw_bytes |-> 0, collected |-> {}]

is_skipped == st.skip_reason # ""

skip(s, reason) == [s EXCEPT !.skip_reason = reason]

Summary(tag, name, value) == [tag |-> tag, name |-> name, value |-> value]

add_summaries(s, summaries) == [s EXCEPT !.summaries = @ \o summaries]

add_summary(s, summary) == add_summaries(s, <<summary>>)

\* The name of a summary without one, and of a column that is not asked for.
unnamed == ""

\* Number of the summary get_summary returns, by tag and then by name: 0 when
\* it throws, which it also does when it meets a summary without a name.
get_summary(s, tag) ==
  LET byTag  == SelectInSeq(s.summaries, LAMBDA x : x.tag = tag)
      byName == SelectInSeq(s.summaries, LAMBDA x : x.name \in {tag, unnamed})
  IN  CASE byTag # 0 -> byTag
        [] byTag = 0 /\ byName # 0 ->
             IF s.summaries[byName].name = unnamed THEN 0 ELSE byName
        [] OTHER -> 0

\* add_buffer_size: without a column name the summary is named "None".
add_buffer_size(s, bytes, tag, column) ==
  add_summary(s, Summary(tag, IF column = unnamed THEN "None" ELSE column, bytes))

add_element_count(s, elements, column) ==
  LET t == [s EXCEPT !.element_count = @ + elements]
  IN  IF column = unnamed THEN t
      ELSE add_summary(t, Summary("nv/element_count/" \o column, column, elements))

gmem_tag(direction, column) == "nv/gmem/" \o direction \o "/" \o column

add_global_memory(s, bytes, direction, column) ==
  LET t == [s EXCEPT !.global_memory_rw_bytes = @ + bytes]
  IN  IF column = unnamed THEN t
      ELSE add_buffer_size(t, bytes, gmem_tag(direction, column), column)

\* In the order of metric_id (detail/measure_cupti.cu).
Metrics == <<"dram_throughput", "loads_efficiency", "stores_efficiency",
             "l1_hit_rate", "l2_hit_rate">>

collect(s, metrics) == [s EXCEPT !.collected = @ \cup metrics]

is_cupti_required == st.collected # {}

StateTypeOK ==
  /\ \A k \in {"is_cpu_only", "run_once", "disable_blocking_kernel"} : st.set[k] \in BOOLEAN
  /\ st.set.min_samples \in Nat /\ st.set.timeout \in Nat
  /\ st.set.min_time \in Nat /\ st.set.skip_time \in Int
  /\ st.collected \subseteq ToSet(Metrics)
  /\ st.element_count \in Nat /\ st.global_memory_rw_bytes \in Nat
=============================================================================
