------------------------------ MODULE ExecProofs -----------------------------
(***************************************************************************)
(* Proofs about Exec, for every benchmark, every set of tags that compiles *)
(* and every sequence of calls the generator makes on its state.           *)
(***************************************************************************)
EXTENDS Exec, SequenceLemmas

-----------------------------------------------------------------------------
(* Tags *)

\* operator| of the public tags never leads to a static_assert of exec, unless
\* gpu and no_gpu are combined: the measurements the modifiers select are the
\* ones they allow (exec_tag.cuh, the recursive call of state::exec).
THEOREM PublicTagsCompile ==
  ASSUME NEW T \in SUBSET exec_tag, ~({{"gpu"}, {"no_gpu"}} \subseteq T)
  PROVE  Compiles(UNION T) /\ Compiles(Selected(UNION T))
<1> DEFINE t == UNION T
<1>1. t \subseteq Modifiers
  BY DEF exec_tag, Modifiers
<1>2. "sync" \in t \/ "timer" \in t => "no_batch" \in t
  <2>1. \A x \in T : "sync" \in x \/ "timer" \in x => "no_batch" \in x
    BY DEF exec_tag
  <2>2. QED
    BY <2>1
<1>3. ~({"gpu", "no_gpu"} \subseteq t)
  <2>1. \A x \in T : /\ "gpu" \in x => x = {"gpu"}
                     /\ "no_gpu" \in x => x = {"no_gpu"}
    BY DEF exec_tag
  <2>2. QED
    BY <2>1
<1>4. t \cap Measures = {}
  BY <1>1 DEF Modifiers, Measures
<1>5. Compiles(t)
  BY <1>1, <1>3, <1>4 DEF Compiles, Modifiers, Measures
<1> HIDE DEF t
<1>6. Compiles(Selected(t))
  <2>1. CASE "gpu" \in t
    <3>1. Selected(t) = t \cup {"cold"} \cup (IF "no_batch" \in t THEN {} ELSE {"hot"})
      BY <1>4, <2>1 DEF Selected
    <3>2. QED
      BY <1>1, <1>2, <1>3, <2>1, <3>1 DEF Compiles, Modifiers, Measures
  <2>2. CASE "gpu" \notin t /\ "no_gpu" \in t
    <3>1. Selected(t) = t \cup {"cpu_only"}
      BY <1>4, <2>2 DEF Selected
    <3>2. QED
      BY <1>1, <1>2, <2>2, <3>1 DEF Compiles, Modifiers, Measures
  <2>3. CASE "gpu" \notin t /\ "no_gpu" \notin t
    <3>1. Selected(t) = t \cup {"cold", "cpu_only"}
                          \cup (IF "no_batch" \in t THEN {} ELSE {"hot"})
      BY <1>4, <2>3 DEF Selected
    <3>2. QED
      BY <1>1, <1>2, <2>3, <3>1 DEF Compiles, Modifiers, Measures
  <2>4. QED
    BY <2>1, <2>2, <2>3
<1>7. QED
  BY <1>5, <1>6 DEF t
-----------------------------------------------------------------------------
(* The state *)

StateFields ==
  {"set", "skip_reason", "summaries", "element_count", "global_memory_rw_bytes", "collected"}

IsState(s) == DOMAIN s = StateFields /\ DOMAIN s.set = Inherited

\* What the generator, the runner and the measurements do to a state leaves
\* its settings alone; only skip touches the reason it is skipped for.
SameSettings(s, r) == IsState(r) /\ r.set = s.set /\ r.skip_reason = s.skip_reason

\* A skipped state keeps its settings (state::skip).
LEMMA SkipKeepsSettings ==
  ASSUME NEW s, IsState(s), NEW reason
  PROVE  /\ IsState(skip(s, reason)) /\ skip(s, reason).set = s.set
         /\ skip(s, reason).skip_reason = reason
BY DEF IsState, StateFields, skip

\* Summaries are added to a state without a change of its settings
\* (state::add_summary).
LEMMA SummariesKeepSettings ==
  ASSUME NEW s, IsState(s), NEW new
  PROVE  /\ SameSettings(s, add_summaries(s, new))
         /\ SameSettings(s, add_summary(s, new))
BY DEF IsState, StateFields, SameSettings, add_summaries, add_summary

\* So are counts and collected metrics (state::add_element_count,
\* add_global_memory_reads, collect_*).
LEMMA CountsKeepSettings ==
  ASSUME NEW s, IsState(s), NEW n, NEW column, NEW direction, NEW metrics
  PROVE  /\ SameSettings(s, add_element_count(s, n, column))
         /\ SameSettings(s, add_global_memory(s, n, direction, column))
         /\ SameSettings(s, collect(s, metrics))
<1>1. SameSettings(s, [s EXCEPT !.element_count = @ + n])
  BY DEF IsState, StateFields, SameSettings
<1>2. SameSettings(s, [s EXCEPT !.global_memory_rw_bytes = @ + n])
  BY DEF IsState, StateFields, SameSettings
<1>3. SameSettings(s, collect(s, metrics))
  BY DEF IsState, StateFields, SameSettings, collect
<1>4. SameSettings(s, add_element_count(s, n, column))
  BY <1>1, SummariesKeepSettings DEF SameSettings, add_element_count
<1>5. SameSettings(s, add_global_memory(s, n, direction, column))
  BY <1>2, SummariesKeepSettings DEF SameSettings, add_global_memory, add_buffer_size
<1>6. QED
  BY <1>3, <1>4, <1>5

\* The summaries of every kind of measurement (generate_summaries).
LEMMA ResultsKeepSettings ==
  ASSUME NEW s, IsState(s), NEW n
  PROVE  /\ SameSettings(s, ColdSummaries(s, n)) /\ SameSettings(s, HotSummaries(s))
         /\ SameSettings(s, CpuSummaries(s)) /\ SameSettings(s, generate_cupti_summaries(s))
<1>1. SameSettings(s, ColdSummaries(s, n)) /\ SameSettings(s, HotSummaries(s))
  BY SummariesKeepSettings DEF ColdSummaries, HotSummaries
<1>2. SameSettings(s, CpuSummaries(s))
  BY SummariesKeepSettings DEF CpuSummaries
<1>3. SameSettings(s, generate_cupti_summaries(s))
  <2> DEFINE r1 == gen_summaries(s, add_metrics(s))
             x1 == Summary("nv/cupti/sample_size", "Samples", samples)
             r2 == add_summary(r1, x1)
             x2 == Summary("nv/cupti/walltime", "Walltime", "time")
  <2>1. SameSettings(s, r1)
    BY SummariesKeepSettings DEF gen_summaries
  <2> HIDE DEF r1, x1, x2
  <2>2. SameSettings(r1, r2)
    BY <2>1, SummariesKeepSettings DEF SameSettings
  <2>3. SameSettings(r2, add_summary(r2, x2))
    BY <2>2, SummariesKeepSettings DEF SameSettings
  <2>4. QED
    BY <2>1, <2>2, <2>3 DEF SameSettings, generate_cupti_summaries, r1, x1, x2
<1>4. QED
  BY <1>1, <1>2, <1>3

\* What the runner makes of a state whose generator threw keeps the settings,
\* and is skipped (runner::run_device).
LEMMA CaughtKeepsSettings ==
  ASSUME NEW s, IsState(s), Caught(s)
  PROVE  IsState(st') /\ st'.set = s.set /\ st'.skip_reason # ""
<1>1. CASE s.skip_reason # ""
  BY <1>1 DEF Caught
<1>2. CASE s.skip_reason = ""
  <2>1. st' = skip(s, "unexpected error")
    BY <1>2 DEF Caught
  <2>2. /\ IsState(skip(s, "unexpected error"))
        /\ skip(s, "unexpected error").set = s.set
        /\ skip(s, "unexpected error").skip_reason = "unexpected error"
    BY SkipKeepsSettings
  <2>3. QED
    BY <2>1, <2>2
<1>3. QED
  BY <1>1, <1>2
-----------------------------------------------------------------------------
(* The invariant *)

StateShape == IsState(st)
HotShape   == DOMAIN hot = DOMAIN HotIdle

\* What a call still owes are measurements its tags select.
PlanOfTags ==
  /\ plan \in Seq(Measures \cup {"cupti"}) /\ Compiles(tags)
  /\ \A i \in DOMAIN plan : plan[i] = "hot" => "hot" \in tags

StartedOwes == started => plan # <<>>

\* The settings a call with the sync tag left behind are still there.
SyncDisables == "sync" \in tags => st.set.disable_blocking_kernel

\* Only the measurement in progress holds the stream.
ColdHolds == blocked => Measuring("cold") /\ ~st.set.disable_blocking_kernel
HotHolds  == /\ hot.at # "none" => Measuring("hot")
             /\ hot.blocked => hot.at # "none"

SkippedOwesNothing == is_skipped => plan = <<>>

ExecInv ==
  /\ StateShape /\ HotShape /\ PlanOfTags /\ StartedOwes
  /\ SyncDisables /\ ColdHolds /\ HotHolds /\ SkippedOwesNothing

\* Without a call in progress no measurement holds the stream.
LEMMA IdleIsUnblocked ==
  ASSUME ExecInv, ~started
  PROVE  hot.at = "none" /\ ~hot.blocked /\ ~blocked
BY DEF ExecInv, ColdHolds, HotHolds, Measuring

\* The plan of a call: measurements its tags select (state::exec).
LEMMA PlanIsOfTags ==
  ASSUME NEW t, NEW s
  PROVE  /\ Plan(t, s) \in Seq(Measures \cup {"cupti"})
         /\ \A i \in DOMAIN Plan(t, s) : Plan(t, s)[i] = "hot" => "hot" \in t
<1> DEFINE OfTags(p) == p \in Seq(Measures \cup {"cupti"}) /\ \A i \in DOMAIN p : p[i] = "hot" => "hot" \in t
<1>1. \A p, q : OfTags(p) /\ OfTags(q) => OfTags(p \o q)
  OBVIOUS
<1>2. /\ OfTags(<<>>)
      /\ \A m \in {"cupti", "cold", "cpu_only"} : OfTags(<<m>>)
  BY DEF Measures
<1>3. "hot" \in t => OfTags(<<"hot">>)
  BY DEF Measures
<1> HIDE DEF OfTags
<1>4. OfTags(Plan(t, s))
  BY <1>1, <1>2, <1>3 DEF Plan
<1>5. QED
  BY <1>4 DEF OfTags
\* A step of the batched measurement leaves it in progress.
LEMMA HotStepStays ==
  ASSUME HotShape, HotSteps
  PROVE  HotShape' /\ hot'.at # "none" /\ st' = st
<1> USE DEF HotShape, HotIdle
<1>1. CASE HotCheck
  BY <1>1 DEF HotCheck
<1>2. CASE HotStart
  BY <1>2 DEF HotStart
<1>3. CASE HotLaunch
  BY <1>3 DEF HotLaunch
<1>4. CASE HotUnblock
  BY <1>4 DEF HotUnblock
<1>5. CASE \E d \in Durations : HotWarmupStop(d)
  BY <1>5 DEF HotWarmupStop
<1>6. CASE \E d \in Durations : HotBatchStop(d)
  BY <1>6 DEF HotBatchStop
<1>7. QED
  BY <1>1, <1>2, <1>3, <1>4, <1>5, <1>6 DEF HotSteps

\* An exception leaves no measurement behind, and the state skipped.
LEMMA RaiseKeepsInv ==
  ASSUME ExecInv, NEW s, IsState(s), s.set = st.set, Raise(s)
  PROVE  ExecInv'
<1> USE DEF ExecInv, Raise
<1>1. StateShape' /\ st'.set = st.set
  BY CaughtKeepsSettings DEF StateShape
<1>2. HotShape' /\ hot'.at = "none" /\ ~hot'.blocked
  BY DEF HotShape, HotIdle
<1>3. PlanOfTags'
  BY DEF PlanOfTags
<1>4. StartedOwes' /\ ColdHolds' /\ HotHolds'
  BY <1>2 DEF StartedOwes, ColdHolds, HotHolds
<1>5. SyncDisables' /\ SkippedOwesNothing'
  BY <1>1 DEF SyncDisables, SkippedOwesNothing
<1>6. QED
  BY <1>1, <1>2, <1>3, <1>4, <1>5

\* A measurement that reports makes way for the next.
LEMMA FinishedKeepsInv ==
  ASSUME ExecInv, plan # <<>>, Finished, SameSettings(st, st'), tags' = tags,
         hot' = HotIdle \/ (hot' = hot /\ hot.at = "none")
  PROVE  ExecInv'
<1> USE DEF ExecInv, Finished
<1>1. StateShape' /\ st'.set = st.set /\ st'.skip_reason = st.skip_reason
  BY DEF StateShape, SameSettings
<1>2. HotShape' /\ hot'.at = "none" /\ ~hot'.blocked
  BY DEF HotShape, HotIdle, HotHolds
<1>3. PlanOfTags'
  <2>1. /\ Tail(plan) \in Seq(Measures \cup {"cupti"})
        /\ \A i \in DOMAIN Tail(plan) : Tail(plan)[i] = plan[i + 1] /\ i + 1 \in DOMAIN plan
    BY DEF PlanOfTags
  <2>2. QED
    BY <2>1 DEF PlanOfTags
<1>4. StartedOwes' /\ ColdHolds' /\ HotHolds'
  BY <1>2 DEF StartedOwes, ColdHolds, HotHolds
<1>5. SyncDisables' /\ SkippedOwesNothing'
  BY <1>1 DEF SyncDisables, SkippedOwesNothing, is_skipped
<1>6. QED
  BY <1>1, <1>2, <1>3, <1>4, <1>5

\* A call of the generator that leaves the settings and the tags alone.
LEMMA GeneratorKeepsInv ==
  ASSUME ExecInv, Generating, IsState(st'), st'.set = st.set,
         UNCHANGED <<hot, tags, plan, started, blocked>>
  PROVE  ExecInv'
BY DEF ExecInv, Generating, StateShape, HotShape, PlanOfTags, StartedOwes, SyncDisables,
       ColdHolds, HotHolds, SkippedOwesNothing, Measuring
\* The generator calls exec: a state that is skipped owes nothing, and the
\* settings of the sync tag come before the plan.
LEMMA ExecsKeepsInv ==
  ASSUME ExecInv, NEW t \in TagSets, GeneratorExecs(t)
  PROVE  ExecInv'
<1> USE DEF GeneratorExecs, GeneratorCalls, measuring
<1>1. CASE Mismatch(Selected(t), st)
  <2>1. Generating /\ Caught(st) /\ UNCHANGED <<hot, tags, plan, started, blocked>>
    BY <1>1
  <2>2. IsState(st') /\ st'.set = st.set
    BY <2>1, CaughtKeepsSettings DEF ExecInv, StateShape
  <2>3. QED
    BY <2>1, <2>2, GeneratorKeepsInv
<1>2. CASE ~Mismatch(Selected(t), st)
  <2>1. /\ Generating /\ UNCHANGED <<hot, started, blocked>>
        /\ st' = synced(t, st) /\ tags' = Selected(t)
        /\ plan' = IF is_skipped THEN <<>> ELSE Plan(Selected(t), st')
    BY <1>2
  <2>2. /\ StateShape' /\ st'.skip_reason = st.skip_reason
        /\ "sync" \in t => st'.set.disable_blocking_kernel
    BY <2>1 DEF ExecInv, StateShape, IsState, StateFields, Inherited, synced
  <2>3. "sync" \in Selected(t) => "sync" \in t
    BY DEF Selected
  <2>4. PlanOfTags'
    <3>1. Compiles(Selected(t))
      BY ExecAssumption
    <3>2. CASE is_skipped
      BY <2>1, <3>1, <3>2 DEF PlanOfTags
    <3>3. CASE ~is_skipped
      <4>1. plan' = Plan(Selected(t), st')
        BY <2>1, <3>3
      <4>2. QED
        BY <2>1, <3>1, <4>1, PlanIsOfTags DEF PlanOfTags
    <3>4. QED
      BY <3>2, <3>3
  <2>5. ~started
    BY <2>1 DEF ExecInv, StartedOwes, Generating
  <2>6. hot.at = "none" /\ ~hot.blocked /\ ~blocked
    BY <2>5, IdleIsUnblocked
  <2>7. HotShape' /\ HotHolds' /\ ColdHolds' /\ StartedOwes'
    BY <2>1, <2>5, <2>6 DEF ExecInv, HotShape, StartedOwes, ColdHolds, HotHolds
  <2>8. SyncDisables'
    BY <2>1, <2>2, <2>3 DEF SyncDisables
  <2>9. SkippedOwesNothing'
    <3>1. is_skipped' = is_skipped
      BY <2>2 DEF is_skipped
    <3>2. is_skipped => plan' = <<>>
      BY <2>1
    <3>3. QED
      BY <3>1, <3>2 DEF SkippedOwesNothing
  <2>10. QED
    BY <2>2, <2>4, <2>7, <2>8, <2>9 DEF ExecInv
<1>3. QED
  BY <1>1, <1>2

\* When the generator is through with a state no measurement is owed.
EndedOwesNothing == outcome # "running" => plan = <<>>

LEMMA StepKeepsEnded ==
  ASSUME EndedOwesNothing, [Next]_vars
  PROVE  EndedOwesNothing'
<1> USE DEF EndedOwesNothing, measuring, control, unbound
<1>1. CASE Construct \/ HotSteps \/ CpuSteps \/ CuptiSteps
  <2>1. UNCHANGED <<plan, outcome>>
    BY <1>1 DEF Construct, HotSteps, CpuSteps, CuptiSteps
  <2>2. QED
    BY <2>1
<1>2. CASE \/ (\E n \in ColdSamples : ColdFinish(n)) \/ HotEnds \/ CpuEnds \/ CuptiEnds
           \/ (Measuring("cupti") /\ Finished /\ outcome' = outcome)
  <2>1. plan # <<>> /\ outcome' = outcome
    BY <1>2 DEF ColdFinish, HotEnds, CpuEnds, CuptiEnds, Measuring
  <2>2. QED
    BY <2>1
<1>3. CASE ColdFails \/ HotFails \/ CpuFails \/ CuptiTerminates \/ Raise(st)
  <2>1. plan' = <<>>
    BY <1>3 DEF ColdFails, HotFails, CpuFails, CuptiTerminates, Raise
  <2>2. QED
    BY <2>1
<1>4. CASE CuptiFails
  <2>1. Raise(st) \/ (Measuring("cupti") /\ Finished /\ outcome' = outcome)
    BY <1>4 DEF CuptiFails
  <2>2. QED
    BY <1>2, <1>3, <2>1
<1>5. CASE \E t \in TagSets : GeneratorExecs(t)
  <2>1. PICK t \in TagSets : GeneratorExecs(t)
    BY <1>5
  <2>2. plan = <<>> /\ outcome = "running" /\ (UNCHANGED plan \/ UNCHANGED outcome)
    BY <2>1 DEF GeneratorExecs, GeneratorCalls, Generating
  <2>3. QED
    BY <2>2
<1>6. CASE \/ GeneratorSkips \/ GeneratorThrows \/ GeneratorReturns \/ GeneratorAdds("a")
           \/ (\E metrics \in Requests : GeneratorCollects(metrics)) \/ NextState
  <2>1. plan = <<>> \/ outcome # "running"
    BY <1>6 DEF GeneratorSkips, GeneratorThrows, GeneratorReturns, GeneratorAdds,
                GeneratorCollects, GeneratorCalls, Generating, NextState
  <2>2. plan' = plan
    BY <1>6 DEF GeneratorSkips, GeneratorThrows, GeneratorReturns, GeneratorAdds,
                GeneratorCollects, NextState
  <2>3. QED
    BY <2>1, <2>2
<1>7. CASE UNCHANGED vars
  BY <1>7 DEF vars
<1>8. QED
  BY <1>1, <1>2, <1>3, <1>4, <1>5, <1>6, <1>7 DEF Next, Program, Failure, Generator

LEMMA EndedInvariant == Spec => []EndedOwesNothing
<1>1. Init => EndedOwesNothing
  BY DEF Init, EndedOwesNothing
<1>2. QED
  BY <1>1, StepKeepsEnded, PTL DEF Spec

\* A state as it is generated is not skipped.
LEMMA NewStateIs ==
  ASSUME NEW bench
  PROVE  IsState(NewState(bench)) /\ NewState(bench).skip_reason = ""
<1> DEFINE s == NewState(bench)
<1>1. DOMAIN s = StateFields /\ s.skip_reason = "" /\ s.set = [k \in Inherited |-> bench[k]]
  BY DEF NewState, StateFields
<1>2. DOMAIN s.set = Inherited
  BY <1>1
<1> HIDE DEF s
<1>3. QED
  BY <1>1, <1>2 DEF IsState, s

\* Every step of the program and of the generator preserves the invariant.
LEMMA StepKeepsInv ==
  ASSUME ExecInv, EndedOwesNothing, [Next]_vars
  PROVE  ExecInv'
<1> USE DEF measuring, control, unbound, cuptiVars
<1>0. IsState(st)
  BY DEF ExecInv, StateShape
<1>1. CASE Construct
  <2>1. UNCHANGED <<st, plan, tags>> /\ plan # <<>> /\ ~started /\ started'
    BY <1>1 DEF Construct
  <2>2. hot.at = "none" /\ ~hot.blocked
    BY <2>1, IdleIsUnblocked
  <2>3. /\ DOMAIN HotParameters(st) = DOMAIN HotIdle
        /\ ~HotParameters(st).blocked
    BY DEF HotParameters, HotIdle
  <2>4. HotShape' /\ HotHolds'
    BY <1>1, <2>1, <2>2, <2>3 DEF ExecInv, HotShape, HotHolds, Construct, Measuring
  <2>5. ColdHolds'
    BY <1>1, <2>1 DEF ColdHolds, Construct, Measuring
  <2>6. QED
    BY <2>1, <2>4, <2>5
    DEF ExecInv, StateShape, PlanOfTags, StartedOwes, SyncDisables, SkippedOwesNothing, is_skipped
<1>2. CASE \E n \in ColdSamples : ColdFinish(n)
  <2>1. hot.at = "none"
    BY <1>2 DEF ExecInv, HotHolds, ColdFinish, Measuring
  <2>2. SameSettings(st, st')
    BY <1>0, <1>2, ResultsKeepSettings DEF ColdFinish
  <2>3. QED
    BY <1>2, <2>1, <2>2, FinishedKeepsInv DEF ColdFinish, Measuring
<1>3. CASE HotSteps
  <2>1. HotShape' /\ hot'.at # "none" /\ st' = st
    BY <1>3, HotStepStays DEF ExecInv
  <2>2. Measuring("hot") /\ UNCHANGED <<tags, plan, started, blocked>>
    BY <1>3 DEF HotSteps
  <2>3. QED
    BY <2>1, <2>2
    DEF ExecInv, StateShape, PlanOfTags, StartedOwes, SyncDisables, ColdHolds, HotHolds,
        SkippedOwesNothing, is_skipped, Measuring
<1>4. CASE HotEnds
  <2>1. SameSettings(st, st')
    BY <1>0, <1>4, ResultsKeepSettings DEF HotEnds, HotFinish
  <2>2. QED
    BY <1>4, <2>1, FinishedKeepsInv DEF HotEnds, HotFinish, Measuring
<1>5. CASE CpuSteps
  <2>1. UNCHANGED <<st, hot, tags, plan, started, blocked>>
    BY <1>5 DEF CpuSteps, CpuInitialize, CpuWarmup, CpuTrial, CpuFinished
  <2>2. QED
    BY <2>1
    DEF ExecInv, StateShape, HotShape, PlanOfTags, StartedOwes, SyncDisables, ColdHolds,
        HotHolds, SkippedOwesNothing, is_skipped, Measuring
<1>6. CASE CpuEnds
  <2>1. hot.at = "none"
    BY <1>6 DEF ExecInv, HotHolds, CpuEnds, Measuring
  <2>2. SameSettings(st, st')
    BY <1>0, <1>6, ResultsKeepSettings DEF CpuEnds, CpuFinish
  <2>3. QED
    BY <1>6, <2>1, <2>2, FinishedKeepsInv DEF CpuEnds, Measuring
<1>7. CASE CuptiSteps
  <2>1. UNCHANGED <<st, hot, tags, plan, started, blocked>>
    BY <1>7 DEF CuptiSteps
  <2>2. QED
    BY <2>1
    DEF ExecInv, StateShape, HotShape, PlanOfTags, StartedOwes, SyncDisables, ColdHolds,
        HotHolds, SkippedOwesNothing, is_skipped, Measuring
<1>8. CASE CuptiEnds
  <2>1. hot.at = "none"
    BY <1>8 DEF ExecInv, HotHolds, CuptiEnds, Measuring
  <2>2. SameSettings(st, st')
    BY <1>0, <1>8, ResultsKeepSettings DEF CuptiEnds
  <2>3. QED
    BY <1>8, <2>1, <2>2, FinishedKeepsInv DEF CuptiEnds, Measuring
<1>9. CASE ColdFails
  BY <1>0, <1>9, SkipKeepsSettings, RaiseKeepsInv DEF ColdFails
<1>10. CASE HotFails
  BY <1>0, <1>10, SkipKeepsSettings, RaiseKeepsInv DEF HotFails
<1>11. CASE CpuFails
  BY <1>0, <1>11, SkipKeepsSettings, RaiseKeepsInv DEF CpuFails
<1>12. CASE CuptiFails
  <2>1. CASE Raise(st)
    BY <1>0, <2>1, RaiseKeepsInv
  <2>2. CASE Finished /\ UNCHANGED <<st, hot, cpu, unbound>>
    <3>1. hot.at = "none" /\ plan # <<>>
      BY <1>12 DEF ExecInv, HotHolds, CuptiFails, Measuring
    <3>2. SameSettings(st, st')
      BY <1>0, <2>2 DEF SameSettings
    <3>3. QED
      BY <2>2, <3>1, <3>2, FinishedKeepsInv
  <2>3. QED
    BY <1>12, <2>1, <2>2 DEF CuptiFails
<1>13. CASE CuptiTerminates
  <2>1. hot.at = "none" /\ ~hot.blocked /\ ~blocked
    BY <1>13 DEF ExecInv, ColdHolds, HotHolds, CuptiTerminates, Measuring
  <2>2. UNCHANGED <<st, hot, tags, blocked>> /\ plan' = <<>> /\ ~started'
    BY <1>13 DEF CuptiTerminates
  <2>3. QED
    BY <2>1, <2>2
    DEF ExecInv, StateShape, HotShape, PlanOfTags, StartedOwes, SyncDisables, ColdHolds,
        HotHolds, SkippedOwesNothing
<1>14. CASE GeneratorSkips
  BY <1>0, <1>14, SkipKeepsSettings, GeneratorKeepsInv DEF GeneratorSkips, GeneratorCalls
<1>15. CASE GeneratorThrows
  BY <1>0, <1>15, CaughtKeepsSettings, GeneratorKeepsInv DEF GeneratorThrows
<1>16. CASE GeneratorReturns
  BY <1>0, <1>16, GeneratorKeepsInv DEF GeneratorReturns
<1>17. CASE GeneratorAdds("a")
  <2> DEFINE r == add_element_count(st, 1, unnamed)
  <2>1. SameSettings(st, r)
    BY <1>0, CountsKeepSettings, Zenon
  <2> HIDE DEF r
  <2>2. SameSettings(r, add_global_memory(r, 1, "reads", "a"))
    <3>1. IsState(r)
      BY <2>1 DEF SameSettings
    <3>2. QED
      BY <3>1, CountsKeepSettings, Zenon
  <2>3. QED
    BY <1>17, <2>1, <2>2, GeneratorKeepsInv
    DEF SameSettings, GeneratorAdds, GeneratorCalls, r
<1>18. CASE \E metrics \in Requests : GeneratorCollects(metrics)
  <2>1. PICK metrics \in Requests : GeneratorCollects(metrics)
    BY <1>18
  <2>2. IsState(collect(st, metrics)) /\ collect(st, metrics).set = st.set
    BY <1>0, CountsKeepSettings DEF SameSettings
  <2>3. QED
    BY <2>1, <2>2, GeneratorKeepsInv DEF GeneratorCollects, GeneratorCalls
<1>19. CASE \E t \in TagSets : GeneratorExecs(t)
  BY <1>19, ExecsKeepsInv
<1>20. CASE UNCHANGED vars
  BY <1>20
  DEF vars, ExecInv, StateShape, HotShape, PlanOfTags, StartedOwes, SyncDisables, ColdHolds,
      HotHolds, SkippedOwesNothing, is_skipped, Measuring
<1>21. CASE NextState
  <2>1. PICK bench \in Benchmarks : st' = NewState(bench)
    BY <1>21 DEF NextState
  <2>2. IsState(st') /\ ~is_skipped'
    BY <2>1, NewStateIs DEF is_skipped
  <2>3. plan = <<>> /\ ~started /\ UNCHANGED <<hot, plan, started, blocked>> /\ tags' = {}
    BY <1>21 DEF NextState, EndedOwesNothing, ExecInv, StartedOwes
  <2>4. hot.at = "none" /\ ~hot.blocked /\ ~blocked
    BY <2>3, IdleIsUnblocked
  <2>5. PlanOfTags'
    BY <2>3 DEF ExecInv, PlanOfTags, Compiles
  <2>6. QED
    BY <2>2, <2>3, <2>4, <2>5
    DEF ExecInv, StateShape, HotShape, StartedOwes, SyncDisables, ColdHolds, HotHolds,
        SkippedOwesNothing
<1>22. QED
  BY <1>1, <1>2, <1>3, <1>4, <1>5, <1>6, <1>7, <1>8, <1>9, <1>10, <1>11, <1>12, <1>13,
     <1>14, <1>15, <1>16, <1>17, <1>18, <1>19, <1>20, <1>21
  DEF Next, Program, Failure, Generator

\* The invariant holds initially.
LEMMA InitInv == Init => ExecInv
<1> SUFFICES ASSUME Init PROVE ExecInv
  OBVIOUS
<1>1. StateShape /\ ~is_skipped
  <2>1. PICK bench \in Benchmarks : st = NewState(bench)
    BY DEF Init
  <2>2. QED
    BY <2>1, NewStateIs DEF StateShape, is_skipped
<1>2. HotShape /\ HotHolds
  BY DEF Init, HotIdle, HotShape, HotHolds
<1>3. PlanOfTags
  BY DEF Init, PlanOfTags, Compiles
<1>4. QED
  BY <1>1, <1>2, <1>3 DEF Init, ExecInv, StartedOwes, SyncDisables, ColdHolds, SkippedOwesNothing

\* The invariant holds in every reachable state.
LEMMA ExecInvariant == Spec => []ExecInv
BY InitInv, StepKeepsInv, EndedInvariant, PTL DEF Spec

\* No blocking kernel holds the stream while a launcher that synchronizes is
\* measured, whatever calls of exec, failures and settings came before.
THEOREM SyncIsNeverBlocked == Spec => []SyncNeverBlocked
<1>1. ExecInv => SyncNeverBlocked
  <2> SUFFICES ASSUME ExecInv, "sync" \in tags PROVE ~blocked /\ ~hot.blocked
    BY DEF SyncNeverBlocked
  <2>1. ~blocked
    BY DEF ExecInv, SyncDisables, ColdHolds
  <2>2. ~Measuring("hot")
    <3>1. "hot" \notin tags
      BY DEF ExecInv, PlanOfTags, Compiles
    <3>2. QED
      BY <3>1 DEF ExecInv, PlanOfTags, Measuring
  <2>3. QED
    BY <2>1, <2>2 DEF ExecInv, HotHolds
<1>2. QED
  BY <1>1, ExecInvariant, PTL

\* A state that is skipped, by the generator, by a measurement or by an
\* exception, is never measured again.
THEOREM SkippedIsNotMeasured == Spec => [](is_skipped => plan = <<>>)
<1>1. ExecInv => (is_skipped => plan = <<>>)
  BY DEF ExecInv, SkippedOwesNothing
<1>2. QED
  BY <1>1, ExecInvariant, PTL

-----------------------------------------------------------------------------
(* The instructions of the profiler                                        *)

Resources ==
  {"none", "profiler", "evaluator", "config", "builder", "session", "pass", "profiling", "range"}

Instruction ==
  [op : {"call", "acquire", "release", "drop", "guard", "launch", "sample", "summaries"},
   what : Resources]

Acquires(ins, r) == ins.op = "acquire" /\ ins.what = r
Releases(ins, r) == ins.op \in {"release", "drop"} /\ ins.what = r

Uses(ops, r) == \E i \in DOMAIN ops : Acquires(ops[i], r)

\* ops let go of r, and do not acquire it again after that.
LetsGo(ops, r) ==
  \E i \in DOMAIN ops : Releases(ops[i], r)
                        /\ \A j \in DOMAIN ops : i < j => ~Acquires(ops[j], r)

\* Executing ops, with the resources of have acquired before, leaves at most
\* those of keep.
Leaves(ops, have, keep) ==
  \A r : (r \in have \/ Uses(ops, r)) /\ r \notin keep => LetsGo(ops, r)

\* A destructor is only set up for what is held: what is acquired has not been
\* released in between.
GuardsHeld(ops, have) ==
  \A g \in DOMAIN ops : ops[g].op = "guard" =>
    LET r == ops[g].what IN
    \/ r \in have /\ \A k \in DOMAIN ops : k < g => ~Releases(ops[k], r)
    \/ \E i \in DOMAIN ops : i < g /\ Acquires(ops[i], r)
         /\ \A k \in DOMAIN ops : i < k /\ k < g => ~Releases(ops[k], r)

\* Every resource acquired is guarded by the next instruction.
GuardedAtOnce(ops) ==
  \A i \in DOMAIN ops : ops[i].op = "acquire" =>
    i + 1 \in DOMAIN ops /\ ops[i + 1] = Guard(ops[i].what)

\* The launches go on until every pass is made; then the last instruction of
\* the code is not the one that counts them.
Launching == samples < passes

LaunchesLast ==
  IF Launching THEN code # <<>> /\ \A i \in DOMAIN code : code[i].op = "sample" <=> i = Len(code)
               ELSE \A i \in DOMAIN code : code[i].op # "sample"

\* The session is closed behind the loop; the profiler itself is kept until
\* the measurement is destroyed.  Of what earlier failures have left nothing is
\* said: the code may still release it.
Kept == left \cup IF Launching THEN {"profiler", "session"} ELSE {"profiler"}

\* When the counters are read, nothing but the profiler is held without a
\* destructor that would release it.
Unguarded ==
  ~Launching =>
    /\ GuardedAtOnce(code)
    /\ \A r \in held \ (guarded \cup left \cup {"profiler"}) :
         \/ code # <<>> /\ code[1] = Guard(r)
         \/ \E i, j \in DOMAIN code :
              i < j /\ Releases(code[i], r) /\ code[j] = Op("summaries", "none")

\* Code that keeps at most keep of what it acquires, and guards what it holds.
Sound(ops, keep) ==
  ops \in Seq(Instruction) /\ Leaves(ops, {}, keep) /\ GuardsHeld(ops, {})

\* Both hold of code that is made of such code.
LEMMA SoundConcat ==
  ASSUME NEW keep, NEW a, Sound(a, keep), NEW b, Sound(b, keep)
  PROVE  Sound(a \o b, keep)
<1> DEFINE c == a \o b
<1>1. /\ a \in Seq(Instruction) /\ DOMAIN a = 1 .. Len(a) /\ Len(a) \in Nat
      /\ b \in Seq(Instruction) /\ DOMAIN b = 1 .. Len(b) /\ Len(b) \in Nat
  BY LenProperties DEF Sound
<1>2. /\ c \in Seq(Instruction) /\ DOMAIN c = 1 .. Len(a) + Len(b)
      /\ \A i \in 1 .. Len(a) + Len(b) : c[i] = IF i <= Len(a) THEN a[i] ELSE b[i - Len(a)]
  BY <1>1, ConcatProperties, LenProperties
<1> HIDE DEF c
<1>3. \A i \in DOMAIN a : i \in DOMAIN c /\ c[i] = a[i]
  BY <1>1, <1>2
<1>4. \A i \in DOMAIN b : Len(a) + i \in DOMAIN c /\ c[Len(a) + i] = b[i]
  BY <1>1, <1>2
<1>5. \A i \in DOMAIN c : i \in DOMAIN a \/ (i - Len(a) \in DOMAIN b /\ ~(i <= Len(a)))
  BY <1>1, <1>2
<1>6. ASSUME NEW r, Uses(c, r), r \notin keep PROVE LetsGo(c, r)
  <2>1. CASE Uses(b, r)
    <3>1. PICK i \in DOMAIN b : Releases(b[i], r)
                /\ \A j \in DOMAIN b : i < j => ~Acquires(b[j], r)
      BY <1>6, <2>1 DEF Sound, Leaves, LetsGo
    <3>2. Len(a) + i \in DOMAIN c /\ Releases(c[Len(a) + i], r)
      BY <1>4, <3>1
    <3>3. ASSUME NEW j \in DOMAIN c, Len(a) + i < j PROVE ~Acquires(c[j], r)
      <4>1. j - Len(a) \in DOMAIN b /\ i < j - Len(a) /\ Len(a) + (j - Len(a)) = j
        BY <1>1, <1>2, <3>3
      <4>2. c[j] = b[j - Len(a)]
        BY <1>4, <4>1
      <4>3. QED
        BY <3>1, <4>1, <4>2
    <3>4. QED
      BY <3>2, <3>3 DEF LetsGo
  <2>2. CASE ~Uses(b, r)
    <3>1. Uses(a, r)
      <4>1. PICK i \in DOMAIN c : Acquires(c[i], r)
        BY <1>6 DEF Uses
      <4>2. i \notin DOMAIN a => c[i] = b[i - Len(a)] /\ i - Len(a) \in DOMAIN b
        BY <1>1, <1>2, <1>5
      <4>3. QED
        BY <1>3, <2>2, <4>1, <4>2 DEF Uses
    <3>2. PICK i \in DOMAIN a : Releases(a[i], r)
                /\ \A j \in DOMAIN a : i < j => ~Acquires(a[j], r)
      BY <1>6, <3>1 DEF Sound, Leaves, LetsGo
    <3>3. ASSUME NEW j \in DOMAIN c, i < j PROVE ~Acquires(c[j], r)
      <4>1. j \notin DOMAIN a => c[j] = b[j - Len(a)] /\ j - Len(a) \in DOMAIN b
        BY <1>1, <1>2, <1>5
      <4>2. QED
        BY <1>3, <2>2, <3>2, <3>3, <4>1 DEF Uses
    <3>4. QED
      BY <1>3, <3>2, <3>3 DEF LetsGo
  <2>3. QED
    BY <2>1, <2>2
<1>7. GuardsHeld(c, {})
  <2> SUFFICES ASSUME NEW g \in DOMAIN c, c[g].op = "guard"
               PROVE  \E i \in DOMAIN c : i < g /\ Acquires(c[i], c[g].what)
                        /\ \A k \in DOMAIN c : i < k /\ k < g => ~Releases(c[k], c[g].what)
    BY DEF GuardsHeld
  <2>1. CASE g \in DOMAIN a
    <3>1. PICK i \in DOMAIN a : i < g /\ Acquires(a[i], a[g].what)
            /\ \A k \in DOMAIN a : i < k /\ k < g => ~Releases(a[k], a[g].what)
      BY <1>3, <2>1 DEF Sound, GuardsHeld
    <3>2. \A k \in DOMAIN c : i < k /\ k < g => k \in DOMAIN a
      BY <1>1, <1>2, <2>1
    <3>3. QED
      BY <1>3, <2>1, <3>1, <3>2
  <2>2. CASE g \notin DOMAIN a
    <3> DEFINE h == g - Len(a)
    <3>1. h \in DOMAIN b /\ c[g] = b[h] /\ Len(a) + h = g
      BY <1>1, <1>2, <2>2
    <3> HIDE DEF h
    <3>2. PICK i \in DOMAIN b : i < h /\ Acquires(b[i], b[h].what)
            /\ \A k \in DOMAIN b : i < k /\ k < h => ~Releases(b[k], b[h].what)
      BY <3>1 DEF Sound, GuardsHeld
    <3>3. Len(a) + i \in DOMAIN c /\ Len(a) + i < g /\ Acquires(c[Len(a) + i], c[g].what)
      BY <1>1, <1>4, <3>1, <3>2
    <3>4. ASSUME NEW k \in DOMAIN c, Len(a) + i < k, k < g
          PROVE  ~Releases(c[k], c[g].what)
      <4>1. k - Len(a) \in DOMAIN b /\ i < k - Len(a) /\ k - Len(a) < h
            /\ c[k] = b[k - Len(a)]
        BY <1>1, <1>2, <3>1, <3>4
      <4>2. QED
        BY <3>1, <3>2, <4>1
    <3>5. QED
      BY <3>3, <3>4
  <2>3. QED
    BY <2>1, <2>2
<1>8. QED
  BY <1>2, <1>6, <1>7 DEF Sound, Leaves, c

\* What may be kept may also be more.
LEMMA SoundWeaker ==
  ASSUME NEW keep, NEW more, keep \subseteq more, NEW a, Sound(a, keep)
  PROVE  Sound(a, more)
BY DEF Sound, Leaves

\* A release at the end leaves one resource less.
LEMMA SoundRelease ==
  ASSUME NEW keep, NEW r \in Resources, NEW a, Sound(a, keep \cup {r}),
         NEW ins \in Instruction, Releases(ins, r)
  PROVE  Sound(a \o <<ins>>, keep)
<1> DEFINE c == a \o <<ins>>
           n == Len(a) + 1
<1>1. a \in Seq(Instruction) /\ DOMAIN a = 1 .. Len(a) /\ Len(a) \in Nat
  BY LenProperties DEF Sound
<1>2. /\ c \in Seq(Instruction) /\ DOMAIN c = 1 .. n /\ c[n] = ins
      /\ \A i \in DOMAIN a : c[i] = a[i] /\ i \in DOMAIN c
      /\ \A i \in DOMAIN c : i = n \/ i \in DOMAIN a
  <2>1. c = Append(a, ins)
    BY <1>1, AppendIsConcat
  <2>2. QED
    BY <1>1, <2>1, AppendProperties, LenProperties
<1> HIDE DEF c
<1>3. ~Acquires(c[n], r) /\ Releases(c[n], r) /\ n \in DOMAIN c
      /\ c[n].op # "acquire" /\ c[n].op # "guard"
  BY <1>1, <1>2 DEF Acquires, Releases
<1> HIDE DEF n
<1>4. ASSUME NEW x, Uses(c, x), x \notin keep PROVE LetsGo(c, x)
  <2>1. CASE x = r
    <3>1. \A j \in DOMAIN c : ~(n < j)
      BY <1>1, <1>2 DEF n
    <3>2. QED
      BY <1>3, <2>1, <3>1 DEF LetsGo
  <2>2. CASE x # r
    <3>1. PICK u \in DOMAIN c : Acquires(c[u], x)
      BY <1>4 DEF Uses
    <3>2. u \in DOMAIN a
      BY <1>2, <1>3, <3>1 DEF Acquires
    <3>3. Uses(a, x)
      BY <1>2, <3>1, <3>2 DEF Uses
    <3>4. PICK i \in DOMAIN a : Releases(a[i], x)
                /\ \A j \in DOMAIN a : i < j => ~Acquires(a[j], x)
      BY <1>4, <2>2, <3>3 DEF Sound, Leaves, LetsGo
    <3>5. \A j \in DOMAIN c : i < j => ~Acquires(c[j], x)
      BY <1>2, <1>3, <3>4 DEF Acquires
    <3>6. QED
      BY <1>2, <3>4, <3>5 DEF LetsGo
  <2>3. QED
    BY <2>1, <2>2
<1>5. GuardsHeld(c, {})
  <2> SUFFICES ASSUME NEW g \in DOMAIN c, c[g].op = "guard"
               PROVE  \E i \in DOMAIN c : i < g /\ Acquires(c[i], c[g].what)
                        /\ \A k \in DOMAIN c : i < k /\ k < g => ~Releases(c[k], c[g].what)
    BY DEF GuardsHeld
  <2>1. g \in DOMAIN a
    BY <1>2, <1>3
  <2>2. PICK i \in DOMAIN a : i < g /\ Acquires(a[i], a[g].what)
          /\ \A k \in DOMAIN a : i < k /\ k < g => ~Releases(a[k], a[g].what)
    BY <1>2, <2>1 DEF Sound, GuardsHeld
  <2>3. \A k \in DOMAIN c : i < k /\ k < g => k \in DOMAIN a
    BY <1>1, <1>2, <2>1 DEF n
  <2>4. QED
    BY <1>2, <2>1, <2>2, <2>3
<1>6. QED
  BY <1>2, <1>4, <1>5 DEF Sound, Leaves, c

\* Code that acquires and guards nothing.
LEMMA SoundPlain ==
  ASSUME NEW a \in Seq(Instruction),
         \A i \in DOMAIN a : a[i].op \notin {"acquire", "guard"}
  PROVE  Sound(a, {})
BY DEF Sound, Leaves, GuardsHeld, Uses, Acquires

Calls == {Call}

LEMMA SoundCalls ==
  ASSUME NEW a \in Seq(Calls)
  PROVE  Sound(a, {})
<1>1. \A i \in DOMAIN a : a[i] = Call
  BY DEF Calls
<1>2. Call \in Instruction /\ Call.op = "call"
  BY DEF Call, Op, Instruction, Resources
<1>3. a \in Seq(Instruction)
  BY <1>2, SeqMonotonic DEF Calls
<1>4. QED
  BY <1>1, <1>2, <1>3, SoundPlain

\* A call repeated any number of times.
LEMMA TimesCalls ==
  ASSUME NEW n \in Nat, NEW ops \in Seq(Calls)
  PROVE  Times(n, ops) \in Seq(Calls)
<1>1. [i \in 1 .. n |-> ops] \in Seq(Seq(Calls))
  OBVIOUS
<1>2. QED
  BY <1>1, FlattenType DEF Times

\* Code that begins with an acquisition and does not release it.
Opens(ops, r) ==
  /\ Sound(ops, {r}) /\ ops # << >> /\ ops[1] = Acquire(r)
  /\ \A i \in DOMAIN ops : ~Releases(ops[i], r)

LEMMA OpensConcat ==
  ASSUME NEW r \in Resources, NEW a, Opens(a, r), NEW b, Sound(b, {}),
         \A i \in DOMAIN b : ~Releases(b[i], r)
  PROVE  Opens(a \o b, r)
<1>1. Sound(a \o b, {r})
  BY SoundConcat, SoundWeaker DEF Opens
<1>2. /\ a \in Seq(Instruction) /\ DOMAIN a = 1 .. Len(a) /\ Len(a) \in Nat \ {0}
      /\ b \in Seq(Instruction) /\ DOMAIN b = 1 .. Len(b) /\ Len(b) \in Nat
  BY LenProperties, EmptySeq DEF Opens, Sound
<1> DEFINE c == a \o b
<1>3. /\ c \in Seq(Instruction) /\ DOMAIN c = 1 .. Len(a) + Len(b)
      /\ Len(c) = Len(a) + Len(b)
      /\ \A i \in 1 .. Len(a) + Len(b) : c[i] = IF i <= Len(a) THEN a[i] ELSE b[i - Len(a)]
  BY <1>2, ConcatProperties, LenProperties
<1> HIDE DEF c
<1>4. c # << >> /\ c[1] = Acquire(r)
  <2>1. c # << >>
    BY <1>2, <1>3, EmptySeq
  <2>2. c[1] = a[1]
    BY <1>2, <1>3
  <2>3. QED
    BY <2>1, <2>2 DEF Opens
<1>5. ASSUME NEW i \in DOMAIN c PROVE ~Releases(c[i], r)
  <2>1. CASE i <= Len(a)
    BY <1>2, <1>3, <2>1 DEF Opens
  <2>2. CASE ~(i <= Len(a))
    BY <1>2, <1>3, <2>2
  <2>3. QED
    BY <2>1, <2>2
<1>6. QED
  BY <1>1, <1>4, <1>5 DEF Opens, c

\* What it has acquired is held when a destructor is set up for it.
LEMMA OpensGuard ==
  ASSUME NEW r \in Resources, NEW a, Opens(a, r)
  PROVE  Sound(a \o <<Guard(r)>>, {r})
<1> DEFINE ins == Guard(r)
           c == a \o <<ins>>
           n == Len(a) + 1
<1>1. /\ a \in Seq(Instruction) /\ DOMAIN a = 1 .. Len(a) /\ Len(a) \in Nat \ {0}
  BY LenProperties, EmptySeq DEF Opens, Sound
<1>2. ins \in Instruction /\ ins.op = "guard" /\ ins.what = r
  BY DEF Guard, Op, Instruction, Resources
<1> HIDE DEF ins
<1>3. /\ c \in Seq(Instruction) /\ DOMAIN c = 1 .. n /\ c[n] = ins
      /\ \A i \in DOMAIN a : c[i] = a[i] /\ i \in DOMAIN c
      /\ \A i \in DOMAIN c : i = n \/ i \in DOMAIN a
  <2>1. c = Append(a, ins)
    BY <1>1, <1>2, AppendIsConcat
  <2>2. QED
    BY <1>1, <1>2, <2>1, AppendProperties, LenProperties
<1> HIDE DEF c
<1>4. ASSUME NEW x, Uses(c, x), x # r PROVE LetsGo(c, x)
  <2>1. PICK u \in DOMAIN c : Acquires(c[u], x)
    BY <1>4 DEF Uses
  <2>2. u \in DOMAIN a
    BY <1>2, <1>3, <2>1 DEF Acquires
  <2>3. Uses(a, x)
    BY <1>3, <2>1, <2>2 DEF Uses
  <2>4. PICK i \in DOMAIN a : Releases(a[i], x)
              /\ \A j \in DOMAIN a : i < j => ~Acquires(a[j], x)
    BY <1>4, <2>3 DEF Opens, Sound, Leaves, LetsGo
  <2>5. \A j \in DOMAIN c : i < j => ~Acquires(c[j], x)
    BY <1>2, <1>3, <2>4 DEF Acquires
  <2>6. QED
    BY <1>3, <2>4, <2>5 DEF LetsGo
<1>5. GuardsHeld(c, {})
  <2> SUFFICES ASSUME NEW g \in DOMAIN c, c[g].op = "guard"
               PROVE  \E i \in DOMAIN c : i < g /\ Acquires(c[i], c[g].what)
                        /\ \A k \in DOMAIN c : i < k /\ k < g => ~Releases(c[k], c[g].what)
    BY DEF GuardsHeld
  <2>1. CASE g = n
    <3>1. 1 \in DOMAIN a /\ 1 < g /\ c[g].what = r
      BY <1>1, <1>2, <1>3, <2>1
    <3>2. Acquires(c[1], r) /\ 1 \in DOMAIN c
      BY <1>3, <3>1 DEF Opens, Acquires, Acquire, Op
    <3>3. \A k \in DOMAIN c : k < g => ~Releases(c[k], r)
      BY <1>3, <2>1 DEF Opens
    <3>4. QED
      BY <3>1, <3>2, <3>3
  <2>2. CASE g # n
    <3>1. g \in DOMAIN a
      BY <1>3, <2>2
    <3>2. PICK i \in DOMAIN a : i < g /\ Acquires(a[i], a[g].what)
            /\ \A k \in DOMAIN a : i < k /\ k < g => ~Releases(a[k], a[g].what)
      BY <1>3, <3>1 DEF Opens, Sound, GuardsHeld
    <3>3. \A k \in DOMAIN c : i < k /\ k < g => k \in DOMAIN a
      BY <1>1, <1>3, <3>1
    <3>4. QED
      BY <1>3, <3>1, <3>2, <3>3
  <2>3. QED
    BY <2>1, <2>2
<1>6. QED
  BY <1>3, <1>4, <1>5 DEF Sound, Leaves, ins, c

-----------------------------------------------------------------------------
(* The code of the profiler                                                *)

\* Instructions that neither end a pass nor touch the profiler itself.
Plain == {ins \in Instruction : ins.op \notin {"sample", "summaries"}
                                /\ ins.what # "profiler"}

Piece(ops, keep) == Sound(ops, keep) /\ ops \in Seq(Plain)

LEMMA PieceConcat ==
  ASSUME NEW keep, NEW a, Piece(a, keep), NEW b, Piece(b, keep)
  PROVE  Piece(a \o b, keep)
BY SoundConcat, ConcatProperties DEF Piece

LEMMA PieceWeaker ==
  ASSUME NEW keep, NEW more, keep \subseteq more, NEW a, Piece(a, keep)
  PROVE  Piece(a, more)
BY SoundWeaker DEF Piece

LEMMA PieceRelease ==
  ASSUME NEW keep, NEW r \in Resources, NEW a, Piece(a, keep \cup {r}),
         NEW ins \in Plain, Releases(ins, r)
  PROVE  Piece(a \o <<ins>>, keep)
<1>1. <<ins>> \in Seq(Plain) /\ ins \in Instruction
  BY DEF Plain
<1>2. QED
  BY <1>1, SoundRelease, ConcatProperties DEF Piece

LEMMA PieceCalls ==
  ASSUME NEW a \in Seq(Calls)
  PROVE  Piece(a, {})
<1>1. Calls \subseteq Plain
  <2>1. Op("call", "none") \in Plain
    BY DEF Op, Plain, Instruction, Resources
  <2>2. QED
    BY <2>1 DEF Calls, Call
<1>2. QED
  BY <1>1, SoundCalls, SeqMonotonic DEF Piece

LEMMA CallSequences ==
  /\ <<Call>> \in Seq(Calls) /\ <<Call, Call>> \in Seq(Calls)
  /\ eval_request \o <<Call, Call>> \in Seq(Calls)
BY DEF Calls, eval_request

\* The evaluator is guarded as soon as it is made.
LEMMA EvaluatorPiece == Piece(metric_evaluator, {"evaluator"})
<1>1. metric_evaluator \in Seq(Plain)
  <2>1. /\ Op("call", "none") \in Plain
        /\ Op("acquire", "evaluator") \in Plain /\ Op("guard", "evaluator") \in Plain
    BY DEF Op, Plain, Instruction, Resources
  <2>2. QED
    BY <2>1 DEF metric_evaluator, Call, Acquire, Guard
<1>2. metric_evaluator \in Seq(Instruction)
  BY <1>1, SeqMonotonic DEF Plain
<1>3. DOMAIN metric_evaluator = 1 .. 3
  BY DEF metric_evaluator
<1>4. /\ metric_evaluator[1].op = "call"
      /\ metric_evaluator[2].op = "acquire" /\ metric_evaluator[2].what = "evaluator"
      /\ metric_evaluator[3].op = "guard" /\ metric_evaluator[3].what = "evaluator"
  BY DEF metric_evaluator, Call, Acquire, Guard, Op
<1>5. Leaves(metric_evaluator, {}, {"evaluator"})
  BY <1>3, <1>4 DEF Leaves, Uses, Acquires
<1>6. GuardsHeld(metric_evaluator, {})
  <2>1. \A k \in 1 .. 3 : ~(2 < k /\ k < 3)
    OBVIOUS
  <2>2. 2 \in DOMAIN metric_evaluator /\ Acquires(metric_evaluator[2], "evaluator")
    BY <1>3, <1>4 DEF Acquires
  <2>3. \A g \in 1 .. 3 : metric_evaluator[g].op = "guard" => g = 3
    BY <1>3, <1>4
  <2>4. QED
    BY <1>3, <1>4, <2>1, <2>2, <2>3 DEF GuardsHeld
<1>7. QED
  BY <1>1, <1>2, <1>5, <1>6 DEF Piece, Sound

LEMMA RawRequestsPiece ==
  ASSUME NEW metrics, Len(metrics) \in Nat
  PROVE  Piece(get_raw_metric_requests(metrics), {})
<1> DEFINE many == Times(Len(metrics), eval_request \o <<Call, Call>>)
<1>1. Piece(many, {"evaluator"})
  <2>1. many \in Seq(Calls)
    BY CallSequences, TimesCalls
  <2>2. Piece(many, {})
    BY <2>1, PieceCalls
  <2>3. QED
    BY <2>2, PieceWeaker
<1> HIDE DEF many
<1>2. Piece(metric_evaluator \o many, {"evaluator"})
  BY <1>1, EvaluatorPiece, PieceConcat
<1>3. Release("evaluator") \in Plain /\ Releases(Release("evaluator"), "evaluator")
  BY DEF Release, Releases, Op, Plain, Instruction, Resources
<1>4. "evaluator" \in Resources
  BY DEF Resources
<1> DEFINE a == metric_evaluator \o many
<1>5. Piece(a \o <<Release("evaluator")>>, {})
  <2>1. Piece(a, {} \cup {"evaluator"})
    BY <1>2
  <2> HIDE DEF a
  <2>2. QED
    BY <1>3, <1>4, <2>1, PieceRelease
<1>6. QED
  BY <1>5 DEF get_raw_metric_requests, many, a

\* The configuration is guarded after the last call of the constructor.
LEMMA ConfigPiece == Piece(metrics_config, {"config"})
<1> DEFINE first == <<Acquire("config")>>
           many  == Times(5, <<Call>>)
<1>1. "config" \in Resources
  BY DEF Resources
<1>2. Opens(first, "config")
  <2>1. first \in Seq(Instruction) /\ DOMAIN first = 1 .. 1 /\ first # << >>
        /\ first[1] = Acquire("config") /\ first[1].op = "acquire" /\ first[1].what = "config"
    BY <1>1 DEF Acquire, Op, Instruction
  <2> HIDE DEF first
  <2>2. Sound(first, {"config"})
    BY <2>1 DEF Sound, Leaves, GuardsHeld, Uses, Acquires
  <2>3. QED
    BY <2>1, <2>2 DEF Opens, Releases
<1>3. many \in Seq(Calls)
  BY CallSequences, TimesCalls
<1> HIDE DEF first, many
<1>4. Opens(first \o many, "config")
  <2>1. Sound(many, {})
    BY <1>3, SoundCalls
  <2>2. \A i \in DOMAIN many : many[i] = Call
    BY <1>3 DEF Calls
  <2>3. ~Releases(Call, "config")
    BY DEF Call, Op, Releases
  <2>4. QED
    BY <1>1, <1>2, <2>1, <2>2, <2>3, OpensConcat
<1>5. Sound((first \o many) \o <<Guard("config")>>, {"config"})
  BY <1>1, <1>4, OpensGuard
<1>6. first \in Seq(Plain) /\ many \in Seq(Plain) /\ <<Guard("config")>> \in Seq(Plain)
  <2>1. Op("acquire", "config") \in Plain /\ Op("guard", "config") \in Plain
    BY DEF Op, Plain, Instruction, Resources
  <2>2. many \in Seq(Plain)
    BY <1>3, PieceCalls DEF Piece
  <2>3. QED
    BY <2>1, <2>2 DEF first, Acquire, Guard
<1>7. QED
  BY <1>5, <1>6, ConcatProperties DEF Piece, metrics_config, first, many

\* Neither image leaves anything acquired.
LEMMA ConfigImagePiece ==
  ASSUME NEW metrics, Len(metrics) \in Nat
  PROVE  Piece(initialize_config_image(metrics), {})
<1> DEFINE raw == get_raw_metric_requests(metrics)
           a == raw \o metrics_config \o get_config_image
           drop == Op("drop", "config")
<1>1. Piece(a, {"config"})
  <2>1. Piece(raw, {"config"})
    BY RawRequestsPiece, PieceWeaker
  <2>2. Piece(get_config_image, {"config"})
    <3>1. Piece(get_config_image, {})
      BY CallSequences, PieceCalls DEF get_config_image
    <3>2. QED
      BY <3>1, PieceWeaker
  <2> HIDE DEF raw
  <2>3. Piece(raw \o metrics_config, {"config"})
    BY <2>1, ConfigPiece, PieceConcat
  <2>4. QED
    BY <2>2, <2>3, PieceConcat
<1>2. drop \in Plain /\ Releases(drop, "config") /\ "config" \in Resources
  BY DEF Op, Plain, Instruction, Resources, Releases
<1>3. Piece(a \o <<drop>>, {})
  <2>1. Piece(a, {} \cup {"config"})
    BY <1>1
  <2> HIDE DEF a, drop
  <2>2. QED
    BY <1>2, <2>1, PieceRelease
<1>4. QED
  BY <1>3 DEF initialize_config_image

LEMMA PrefixImagePiece ==
  ASSUME NEW metrics, Len(metrics) \in Nat
  PROVE  Piece(initialize_counter_data_prefix_image(metrics), {})
<1> DEFINE raw == get_raw_metric_requests(metrics)
           many == Times(3, <<Call>>)
           a == raw \o counter_data_builder \o many
           drop == Op("drop", "builder")
<1>1. Piece(counter_data_builder, {"builder"})
  <2> DEFINE b == counter_data_builder
  <2>1. /\ Op("acquire", "builder") \in Plain /\ Op("guard", "builder") \in Plain
    BY DEF Op, Plain, Instruction, Resources
  <2>2. b \in Seq(Plain) /\ DOMAIN b = 1 .. 2
    BY <2>1 DEF counter_data_builder, Acquire, Guard
  <2>3. b \in Seq(Instruction)
    BY <2>2, SeqMonotonic DEF Plain
  <2>4. /\ b[1].op = "acquire" /\ b[1].what = "builder"
        /\ b[2].op = "guard" /\ b[2].what = "builder"
    BY DEF counter_data_builder, Acquire, Guard, Op
  <2> HIDE DEF b
  <2>5. Leaves(b, {}, {"builder"})
    BY <2>2, <2>4 DEF Leaves, Uses, Acquires
  <2>6. GuardsHeld(b, {})
    <3>1. \A k \in 1 .. 2 : ~(1 < k /\ k < 2)
      OBVIOUS
    <3>2. 1 \in DOMAIN b /\ Acquires(b[1], "builder")
      BY <2>2, <2>4 DEF Acquires
    <3>3. \A g \in 1 .. 2 : b[g].op = "guard" => g = 2
      BY <2>4
    <3>4. QED
      BY <2>2, <2>4, <3>1, <3>2, <3>3 DEF GuardsHeld
  <2>7. QED
    BY <2>2, <2>3, <2>5, <2>6 DEF Piece, Sound, b
<1>2. Piece(a, {"builder"})
  <2>1. Piece(raw, {"builder"})
    BY RawRequestsPiece, PieceWeaker
  <2>2. Piece(many, {"builder"})
    <3>1. Piece(many, {})
      <4>1. many \in Seq(Calls)
        BY CallSequences, TimesCalls
      <4>2. QED
        BY <4>1, PieceCalls
    <3>2. QED
      BY <3>1, PieceWeaker
  <2> HIDE DEF raw, many
  <2>3. Piece(raw \o counter_data_builder, {"builder"})
    BY <1>1, <2>1, PieceConcat
  <2>4. QED
    BY <2>2, <2>3, PieceConcat
<1>3. drop \in Plain /\ Releases(drop, "builder") /\ "builder" \in Resources
  BY DEF Op, Plain, Instruction, Resources, Releases
<1>4. Piece(a \o <<drop>>, {})
  <2>1. Piece(a, {} \cup {"builder"})
    BY <1>2
  <2> HIDE DEF a, drop
  <2>2. QED
    BY <1>3, <2>1, PieceRelease
<1>5. QED
  BY <1>4 DEF initialize_counter_data_prefix_image

\* Code that ends no pass.
Quiet == {ins \in Instruction : ins.op \notin {"sample", "summaries"}}

\* The constructor of the profiler keeps the profiler alone.
LEMMA ProfilerSound ==
  ASSUME NEW metrics, Len(metrics) \in Nat
  PROVE  Sound(cupti_profiler(metrics), {"profiler"}) /\ cupti_profiler(metrics) \in Seq(Quiet)
<1> DEFINE first == initialize_profiler
           calls1 == initialize_chip_name
           calls2 == initialize_availability_image
           calls3 == initialize_nvpw
           image == initialize_config_image(metrics)
           prefix == initialize_counter_data_prefix_image(metrics)
           data == initialize_counter_data_image
           last == <<Guard("profiler")>>
<1>1. "profiler" \in Resources
  BY DEF Resources
<1>2. Opens(first, "profiler") /\ first \in Seq(Quiet)
  <2>1. first \in Seq(Instruction) /\ DOMAIN first = 1 .. 1 /\ first # << >>
        /\ first[1] = Acquire("profiler") /\ first[1].op = "acquire"
        /\ first[1].what = "profiler"
    BY <1>1 DEF Acquire, Op, Instruction, initialize_profiler
  <2>2. first \in Seq(Quiet)
    BY <1>1 DEF Acquire, Op, Quiet, Instruction, initialize_profiler
  <2> HIDE DEF first
  <2>3. Sound(first, {"profiler"})
    BY <2>1 DEF Sound, Leaves, GuardsHeld, Uses, Acquires
  <2>4. QED
    BY <2>1, <2>2, <2>3 DEF Opens, Releases
<1>3. Piece(calls1, {}) /\ Piece(calls2, {}) /\ Piece(calls3, {}) /\ Piece(data, {})
  <2>1. calls1 \in Seq(Calls) /\ calls2 \in Seq(Calls) /\ calls3 \in Seq(Calls)
    BY CallSequences DEF initialize_chip_name, initialize_availability_image, initialize_nvpw
  <2>2. data \in Seq(Calls)
    <3>1. Times(3, <<Call>>) \in Seq(Calls) /\ get_counter_data_image_size \in Seq(Calls)
      BY CallSequences, TimesCalls DEF get_counter_data_image_size
    <3>2. QED
      BY <3>1, ConcatProperties DEF initialize_counter_data_image
  <2>3. QED
    BY <2>1, <2>2, PieceCalls
<1>4. Piece(image, {}) /\ Piece(prefix, {})
  BY ConfigImagePiece, PrefixImagePiece
<1>5. last \in Seq(Quiet)
  BY <1>1 DEF Guard, Op, Quiet, Instruction
<1> HIDE DEF first, calls1, calls2, calls3, image, prefix, data, last
<1>6. ASSUME NEW a, Opens(a, "profiler"), a \in Seq(Quiet), NEW b, Piece(b, {})
      PROVE  Opens(a \o b, "profiler") /\ a \o b \in Seq(Quiet)
  <2>1. \A i \in DOMAIN b : ~Releases(b[i], "profiler")
    BY <1>6 DEF Piece, Plain, Releases
  <2>2. Opens(a \o b, "profiler")
    BY <1>1, <1>6, <2>1, OpensConcat DEF Piece
  <2>3. b \in Seq(Quiet)
    <3>1. Plain \subseteq Quiet
      BY DEF Plain, Quiet
    <3>2. QED
      BY <1>6, <3>1, SeqMonotonic DEF Piece
  <2>4. QED
    BY <1>6, <2>2, <2>3, ConcatProperties
<1> DEFINE Good(a) == Opens(a, "profiler") /\ a \in Seq(Quiet)
<1>7. \A a, b : Good(a) /\ Piece(b, {}) => Good(a \o b)
  BY <1>6
<1> HIDE DEF Good
<1> DEFINE a3 == first \o calls1 \o calls2 \o calls3
           a6 == a3 \o image \o prefix \o data
<1>8. Good(first)
  BY <1>2 DEF Good
<1>9. Good(a3)
  BY <1>3, <1>7, <1>8
<1> HIDE DEF a3
<1>10. Good(a6)
  BY <1>3, <1>4, <1>7, <1>9
<1> HIDE DEF a6
<1>11. Sound(a6 \o last, {"profiler"}) /\ a6 \o last \in Seq(Quiet)
  <2>1. Opens(a6, "profiler") /\ a6 \in Seq(Quiet)
    BY <1>10 DEF Good
  <2>2. a6 \o last \in Seq(Quiet)
    BY <1>5, <2>1, ConcatProperties
  <2>3. QED
    BY <1>1, <2>1, <2>2, OpensGuard DEF last
<1>12. a6 \o last = cupti_profiler(metrics)
  BY DEF cupti_profiler, a6, a3, first, calls1, calls2, calls3, image, prefix, data, last
<1>13. QED
  BY <1>11, <1>12

LEMMA PrepareSound ==
  Sound(prepare_user_loop, {"session"}) /\ prepare_user_loop \in Seq(Quiet)
<1> DEFINE a == prepare_user_loop
<1>1. a \in Seq(Quiet) /\ a \in Seq(Instruction) /\ DOMAIN a = 1 .. 2
  <2>1. Op("acquire", "session") \in Quiet /\ Op("call", "none") \in Quiet
    BY DEF Op, Quiet, Instruction, Resources
  <2>2. Quiet \subseteq Instruction
    BY DEF Quiet
  <2>3. QED
    BY <2>1, <2>2 DEF prepare_user_loop, Acquire, Call
<1>2. a[1].op = "acquire" /\ a[1].what = "session" /\ a[2].op = "call"
  BY DEF prepare_user_loop, Acquire, Call, Op
<1> HIDE DEF a
<1>3. Leaves(a, {}, {"session"}) /\ GuardsHeld(a, {})
  BY <1>1, <1>2 DEF Leaves, GuardsHeld, Uses, Acquires
<1>4. QED
  BY <1>1, <1>3 DEF Sound, a

\* What a pass acquires is released before it is counted, and its count is
\* its last instruction.
LEMMA PassIs ==
  /\ one_pass \in Seq(Instruction) /\ DOMAIN one_pass = 1 .. 8 /\ Len(one_pass) = 8
  /\ one_pass[1] = Acquire("pass") /\ one_pass[2] = Acquire("profiling")
  /\ one_pass[3] = Acquire("range") /\ one_pass[4] = Op("launch", "none")
  /\ one_pass[5] = Release("range") /\ one_pass[6] = Release("profiling")
  /\ one_pass[7] = Release("pass") /\ one_pass[8] = Op("sample", "none")
<1> DEFINE a1 == Acquire("pass")
           a2 == Acquire("profiling")
           a3 == Acquire("range")
           a4 == Op("launch", "none")
           a5 == Release("range")
           a6 == Release("profiling")
           a7 == Release("pass")
           a8 == Op("sample", "none")
<1>1. /\ a1 \in Instruction /\ a2 \in Instruction /\ a3 \in Instruction /\ a4 \in Instruction
      /\ a5 \in Instruction /\ a6 \in Instruction /\ a7 \in Instruction /\ a8 \in Instruction
  BY DEF Acquire, Release, Op, Instruction, Resources
<1>2. one_pass = <<a1, a2, a3>> \o <<a4>> \o <<a5, a6>> \o <<a7, a8>>
  BY DEF one_pass, launch, start_user_loop, stop_user_loop
<1> HIDE DEF a1, a2, a3, a4, a5, a6, a7, a8
<1> DEFINE x1 == <<a1, a2, a3>>
           x2 == <<a4>>
           x3 == <<a5, a6>>
           x4 == <<a7, a8>>
           y2 == x1 \o x2
           y3 == y2 \o x3
           y4 == y3 \o x4
<1>3. /\ x1 \in Seq(Instruction) /\ Len(x1) = 3 /\ x1[1] = a1 /\ x1[2] = a2 /\ x1[3] = a3
      /\ x2 \in Seq(Instruction) /\ Len(x2) = 1 /\ x2[1] = a4
      /\ x3 \in Seq(Instruction) /\ Len(x3) = 2 /\ x3[1] = a5 /\ x3[2] = a6
      /\ x4 \in Seq(Instruction) /\ Len(x4) = 2 /\ x4[1] = a7 /\ x4[2] = a8
  BY <1>1
<1> HIDE DEF x1, x2, x3, x4
<1>4. /\ y2 \in Seq(Instruction) /\ Len(y2) = 4
      /\ y2[1] = a1 /\ y2[2] = a2 /\ y2[3] = a3 /\ y2[4] = a4
  <2>1. /\ y2 \in Seq(Instruction) /\ Len(y2) = Len(x1) + Len(x2)
        /\ \A i \in 1 .. Len(x1) + Len(x2) : y2[i] = IF i <= Len(x1) THEN x1[i] ELSE x2[i - Len(x1)]
    BY <1>3, ConcatProperties
  <2> HIDE DEF y2
  <2>2. QED
    BY <1>3, <2>1
<1> HIDE DEF y2
<1>5. /\ y3 \in Seq(Instruction) /\ Len(y3) = 6
      /\ y3[1] = a1 /\ y3[2] = a2 /\ y3[3] = a3 /\ y3[4] = a4 /\ y3[5] = a5 /\ y3[6] = a6
  <2>1. /\ y3 \in Seq(Instruction) /\ Len(y3) = Len(y2) + Len(x3)
        /\ \A i \in 1 .. Len(y2) + Len(x3) : y3[i] = IF i <= Len(y2) THEN y2[i] ELSE x3[i - Len(y2)]
    BY <1>3, <1>4, ConcatProperties
  <2> HIDE DEF y3
  <2>2. QED
    BY <1>3, <1>4, <2>1
<1> HIDE DEF y3
<1>6. /\ y4 \in Seq(Instruction) /\ Len(y4) = 8
      /\ y4[1] = a1 /\ y4[2] = a2 /\ y4[3] = a3 /\ y4[4] = a4 /\ y4[5] = a5 /\ y4[6] = a6
      /\ y4[7] = a7 /\ y4[8] = a8
  <2>1. /\ y4 \in Seq(Instruction) /\ Len(y4) = Len(y3) + Len(x4)
        /\ \A i \in 1 .. Len(y3) + Len(x4) : y4[i] = IF i <= Len(y3) THEN y3[i] ELSE x4[i - Len(y3)]
    BY <1>3, <1>5, ConcatProperties
  <2> HIDE DEF y4
  <2>2. QED
    BY <1>3, <1>5, <2>1
<1>7. one_pass = y4
  BY <1>2 DEF x1, x2, x3, x4, y2, y3
<1>8. QED
  BY <1>6, <1>7, LenProperties DEF a1, a2, a3, a4, a5, a6, a7, a8

LEMMA PassSound ==
  Sound(one_pass, {}) /\ \A i \in DOMAIN one_pass : one_pass[i].op = "sample" <=> i = 8
<1> DEFINE p == one_pass
<1>1. /\ p[1].op = "acquire" /\ p[2].op = "acquire" /\ p[3].op = "acquire"
      /\ p[4].op = "launch" /\ p[5].op = "release" /\ p[6].op = "release"
      /\ p[7].op = "release" /\ p[8].op = "sample"
      /\ p[1].what = "pass" /\ p[2].what = "profiling" /\ p[3].what = "range"
      /\ p[5].what = "range" /\ p[6].what = "profiling" /\ p[7].what = "pass"
  BY PassIs DEF Acquire, Release, Op
<1>2. p \in Seq(Instruction) /\ DOMAIN p = 1 .. 8
  BY PassIs
<1> HIDE DEF p
<1>3. \A i \in 1 .. 8 : i > 3 => p[i].op # "acquire"
  BY <1>1
<1>4. LetsGo(p, "pass") /\ LetsGo(p, "profiling") /\ LetsGo(p, "range")
  <2>1. Releases(p[7], "pass") /\ Releases(p[6], "profiling") /\ Releases(p[5], "range")
    BY <1>1 DEF Releases
  <2>2. \A i \in {5, 6, 7} : \A j \in DOMAIN p : i < j => p[j].op # "acquire"
    BY <1>2, <1>3
  <2>3. QED
    BY <1>2, <2>1, <2>2 DEF LetsGo, Acquires
<1>5. Leaves(p, {}, {}) /\ GuardsHeld(p, {})
  <2>1. \A r : Uses(p, r) => r \in {"pass", "profiling", "range"}
    BY <1>1, <1>2 DEF Uses, Acquires
  <2>2. \A i \in DOMAIN p : p[i].op # "guard"
    BY <1>1, <1>2
  <2>3. QED
    BY <1>4, <2>1, <2>2 DEF Leaves, GuardsHeld
<1>6. \A i \in DOMAIN p : p[i].op = "sample" <=> i = 8
  BY <1>1, <1>2
<1>7. QED
  BY <1>2, <1>5, <1>6 DEF Sound, p

\* Code that works on the evaluator alone, guarded at once.
Evaluating ==
  {ins \in Instruction : ins.op \notin {"sample", "summaries"} /\ ins.what \in {"none", "evaluator"}}

\* Reading the counters leaves nothing acquired.
LEMMA ValuesSound ==
  ASSUME NEW metrics, Len(metrics) \in Nat
  PROVE  /\ Sound(get_counter_values(metrics), {})
         /\ get_counter_values(metrics) \in Seq(Evaluating)
         /\ GuardedAtOnce(get_counter_values(metrics))
<1> DEFINE head == metric_evaluator
           calls1 == <<Call>>
           many == Times(Len(metrics), eval_request \o <<Call, Call>>)
           last == <<Release("evaluator")>>
           body == calls1 \o many
           a == head \o body
           c == a \o last
<1>1. body \in Seq(Calls)
  <2>1. calls1 \in Seq(Calls) /\ many \in Seq(Calls)
    BY CallSequences, TimesCalls
  <2> HIDE DEF calls1, many
  <2>2. QED
    BY <2>1, ConcatProperties
<1>2. /\ head \in Seq(Evaluating) /\ last \in Seq(Evaluating) /\ body \in Seq(Evaluating)
      /\ Release("evaluator") \in Evaluating
  <2>1. /\ Op("call", "none") \in Evaluating
        /\ Op("acquire", "evaluator") \in Evaluating /\ Op("guard", "evaluator") \in Evaluating
        /\ Op("release", "evaluator") \in Evaluating
    BY DEF Op, Evaluating, Instruction, Resources
  <2>2. Calls \subseteq Evaluating
    BY <2>1 DEF Calls, Call
  <2>3. body \in Seq(Evaluating)
    BY <1>1, <2>2, SeqMonotonic
  <2>4. QED
    BY <2>1, <2>3 DEF metric_evaluator, Call, Acquire, Guard, Release
<1>3. /\ DOMAIN head = 1 .. 3 /\ Len(head) = 3 /\ DOMAIN last = 1 .. 1 /\ Len(last) = 1
      /\ head[1].op = "call" /\ head[2] = Acquire("evaluator") /\ head[3] = Guard("evaluator")
      /\ last[1] = Release("evaluator")
  BY DEF metric_evaluator, Call, Op
<1>4. c = get_counter_values(metrics)
  <2>1. many \in Seq(Calls) /\ calls1 \in Seq(Calls)
    BY CallSequences, TimesCalls
  <2>2. head \in Seq(Evaluating) /\ last \in Seq(Evaluating)
    BY <1>2
  <2>3. get_counter_values(metrics) = ((head \o calls1) \o many) \o last
    BY DEF get_counter_values
  <2> HIDE DEF head, calls1, many, last
  <2>4. (head \o calls1) \o many = head \o (calls1 \o many)
    <3>1. Calls \subseteq Evaluating
      <4>1. Op("call", "none") \in Evaluating
        BY DEF Op, Evaluating, Instruction, Resources
      <4>2. QED
        BY <4>1 DEF Calls, Call
    <3>2. many \in Seq(Evaluating) /\ calls1 \in Seq(Evaluating)
      BY <2>1, <3>1, SeqMonotonic
    <3>3. head \in Seq(Evaluating)
      BY <2>2
    <3> HIDE DEF Evaluating
    <3>4. QED
      BY <3>2, <3>3, ConcatAssociative
  <2>5. QED
    BY <2>3, <2>4
<1>5. Sound(c, {})
  <2>1. Piece(body, {"evaluator"})
    BY <1>1, PieceCalls, PieceWeaker
  <2>2. Piece(a, {} \cup {"evaluator"})
    <3> HIDE DEF body, head
    <3>1. Piece(head, {"evaluator"})
      BY EvaluatorPiece DEF head
    <3>2. QED
      BY <2>1, <3>1, PieceConcat
  <2>3. Release("evaluator") \in Plain /\ Releases(Release("evaluator"), "evaluator")
        /\ "evaluator" \in Resources
    BY DEF Release, Releases, Op, Plain, Instruction, Resources
  <2> HIDE DEF a
  <2>4. QED
    BY <2>2, <2>3, PieceRelease DEF Piece
<1> HIDE DEF head, body, last
<1>6. c \in Seq(Evaluating) /\ a \in Seq(Evaluating)
  BY <1>2, ConcatProperties
<1>7. GuardedAtOnce(c)
  <2>1. body \in Seq(Evaluating) /\ DOMAIN body = 1 .. Len(body) /\ Len(body) \in Nat
        /\ \A i \in DOMAIN body : body[i].op # "acquire"
    <3>1. Call.op # "acquire"
      BY DEF Call, Op
    <3>2. QED
      BY <1>1, <1>2, <3>1, LenProperties DEF Calls
  <2>2. /\ DOMAIN a = 1 .. 3 + Len(body) /\ Len(a) = 3 + Len(body)
        /\ \A i \in 1 .. 3 + Len(body) : a[i] = IF i <= 3 THEN head[i] ELSE body[i - 3]
    <3>1. Len(a) = Len(head) + Len(body)
      BY <1>2, ConcatProperties
    <3>2. \A i \in 1 .. Len(head) + Len(body) :
            a[i] = IF i <= Len(head) THEN head[i] ELSE body[i - Len(head)]
      BY <1>2, ConcatProperties
    <3>3. DOMAIN a = 1 .. Len(a)
      BY <1>6, LenProperties
    <3> HIDE DEF a
    <3>4. QED
      BY <1>3, <3>1, <3>2, <3>3
  <2>3. \A i \in DOMAIN a : a[i].op = "acquire" => i = 2
    <3>1. Guard("evaluator").op # "acquire"
      BY DEF Guard, Op
    <3> SUFFICES ASSUME NEW i \in DOMAIN a, a[i].op = "acquire" PROVE i = 2
      OBVIOUS
    <3>2. CASE ~(i <= 3)
      BY <2>1, <2>2, <3>2
    <3>3. CASE i <= 3
      <4>1. i \in {1, 2, 3} /\ a[i] = head[i]
        BY <2>1, <2>2, <3>3
      <4>2. QED
        BY <1>3, <3>1, <4>1
    <3>4. QED
      BY <3>2, <3>3
  <2>4. 2 \in DOMAIN a /\ 3 \in DOMAIN a /\ a[2] = Acquire("evaluator") /\ a[3] = Guard("evaluator")
    BY <1>3, <2>1, <2>2
  <2> HIDE DEF a
  <2>5. /\ DOMAIN c = 1 .. Len(a) + 1 /\ Len(a) \in Nat
        /\ \A i \in DOMAIN a : c[i] = a[i] /\ i \in DOMAIN c
        /\ c[Len(a) + 1] = Release("evaluator")
        /\ \A i \in DOMAIN c : i \in DOMAIN a \/ i = Len(a) + 1
    <3>1. c = Append(a, Release("evaluator"))
      BY <1>2, <1>6, AppendIsConcat DEF last
    <3>2. QED
      BY <1>2, <1>6, <3>1, AppendProperties, LenProperties
  <2>6. Release("evaluator").op # "acquire" /\ Acquire("evaluator").what = "evaluator"
    BY DEF Release, Acquire, Op
  <2>7. \A i \in DOMAIN c : c[i].op = "acquire" => i = 2
    BY <2>3, <2>5, <2>6
  <2>8. QED
    BY <2>4, <2>5, <2>6, <2>7 DEF GuardedAtOnce
<1>8. QED
  BY <1>4, <1>5, <1>6, <1>7

-----------------------------------------------------------------------------
(* The profiled measurement                                                *)

\* Code that keeps no more than keep may also be run with some of that held.
LEMMA SoundWith ==
  ASSUME NEW keep, NEW ops, Sound(ops, keep), NEW have, have \subseteq keep
  PROVE  Leaves(ops, have, keep) /\ GuardsHeld(ops, have)
<1>1. Leaves(ops, have, keep)
  BY DEF Sound, Leaves
<1>2. GuardsHeld(ops, have)
  BY DEF Sound, GuardsHeld
<1>3. QED
  BY <1>1, <1>2

LEMMA MetricsLength ==
  ASSUME NEW s
  PROVE  Len(add_metrics(s)) \in Nat
<1> DEFINE of(m) == IF Metrics[m] \in s.collected THEN <<Metrics[m]>> ELSE <<>>
           S == {Metrics[m] : m \in DOMAIN Metrics}
           all == [m \in DOMAIN Metrics |-> of(m)]
<1>1. \E n \in Nat : DOMAIN Metrics = 1 .. n
  <2>1. DOMAIN Metrics = 1 .. Len(Metrics) /\ Len(Metrics) \in Nat
    BY DEF Metrics
  <2>2. QED
    BY <2>1
<1>2. ASSUME NEW m \in DOMAIN Metrics PROVE of(m) \in Seq(S)
  <2>1. Metrics[m] \in S
    BY <1>1
  <2> HIDE DEF S
  <2>2. <<Metrics[m]>> \in Seq(S) /\ <<>> \in Seq(S)
    BY <2>1
  <2>3. QED
    BY <2>2
<1> HIDE DEF of, S
<1>3. all \in Seq(Seq(S))
  BY <1>1, <1>2
<1>4. FlattenSeq(all) \in Seq(S)
  BY <1>3, FlattenType
<1>5. add_metrics(s) = FlattenSeq(all)
  BY DEF add_metrics, PerMetric, of
<1>6. QED
  BY <1>4, <1>5, LenProperties

\* The code of the constructor, the session and the first pass.
LEMMA ConstructProfiler ==
  ASSUME held \subseteq left, guarded = {}, CuptiConstruct, left' = left
  PROVE  /\ code' \in Seq(Instruction) /\ passes' \in 1 .. MaxPasses /\ samples' \in Nat
         /\ LaunchesLast' /\ Leaves(code, held, Kept)'
         /\ GuardsHeld(code, held)' /\ Unguarded' /\ guarded' = {}
<1> DEFINE p == cupti_profiler(add_metrics(st))
           a == p \o prepare_user_loop
           c == a \o one_pass
           both == {"profiler", "session"}
<1>1. code' = c /\ passes' \in 1 .. MaxPasses /\ samples' = 0 /\ held' = held /\ guarded' = {}
  BY DEF CuptiConstruct
<1>2. Launching' /\ samples' \in Nat
  BY <1>1, PassesAssumption DEF Launching
<1>3. Sound(p, {"profiler"}) /\ p \in Seq(Quiet)
  BY MetricsLength, ProfilerSound
<1> HIDE DEF p
<1>4. Sound(a, both) /\ a \in Seq(Quiet)
  <2>1. Sound(p, both) /\ Sound(prepare_user_loop, both)
    BY <1>3, PrepareSound, SoundWeaker
  <2>2. QED
    BY <1>3, <2>1, PrepareSound, SoundConcat, ConcatProperties
<1> HIDE DEF a
<1>5. Sound(c, both)
  <2>1. Sound(one_pass, both)
    BY PassSound, SoundWeaker
  <2>2. QED
    BY <1>4, <2>1, SoundConcat
<1>6. c # << >> /\ \A i \in DOMAIN c : c[i].op = "sample" <=> i = Len(c)
  <2>1. /\ a \in Seq(Instruction) /\ Len(a) \in Nat /\ DOMAIN a = 1 .. Len(a)
        /\ \A i \in DOMAIN a : a[i].op # "sample"
    BY <1>4, LenProperties DEF Sound, Quiet
  <2>2. Len(c) = Len(a) + Len(one_pass)
        /\ \A i \in 1 .. Len(a) + Len(one_pass) :
             c[i] = IF i <= Len(a) THEN a[i] ELSE one_pass[i - Len(a)]
    BY <2>1, PassIs, ConcatProperties
  <2>3. DOMAIN c = 1 .. Len(c)
    BY <1>5, LenProperties DEF Sound
  <2> HIDE DEF c
  <2>4. ASSUME NEW i \in DOMAIN c PROVE c[i].op = "sample" <=> i = Len(c)
    <3> DEFINE one == one_pass
    <3>0. DOMAIN one = 1 .. 8 /\ Len(one) = 8
      BY PassIs
    <3> HIDE DEF one
    <3>1. CASE i <= Len(a)
      BY <2>1, <2>2, <2>3, <3>0, <3>1 DEF one
    <3>2. CASE ~(i <= Len(a))
      <4>0. i \in 1 .. Len(a) + 8 /\ c[i] = one[i - Len(a)]
        BY <2>2, <2>3, <3>0, <3>2 DEF one
      <4>1. i - Len(a) \in DOMAIN one /\ c[i] = one[i - Len(a)]
        BY <2>1, <3>0, <3>2, <4>0
      <4>2. i - Len(a) = 8 <=> i = Len(c)
        BY <2>1, <2>2, <2>3, <3>0 DEF one
      <4>3. QED
        BY <4>1, <4>2, PassSound DEF one
    <3>3. QED
      BY <3>1, <3>2
  <2>5. c # << >>
    BY <2>1, <2>2, PassIs, EmptySeq
  <2>6. QED
    BY <2>4, <2>5
<1>7. c \in Seq(Instruction) /\ Kept' = left \cup both
      /\ Leaves(c, held, left \cup both) /\ GuardsHeld(c, held)
  <2>1. Sound(c, left \cup both)
    BY <1>5, SoundWeaker
  <2>2. Kept' = left \cup both
    BY <1>2 DEF Kept
  <2>3. QED
    BY <2>1, <2>2, SoundWith DEF Sound
<1> HIDE DEF c
<1>8. LaunchesLast' /\ Unguarded'
  BY <1>1, <1>2, <1>6 DEF LaunchesLast, Unguarded
<1>9. QED
  BY <1>1, <1>2, <1>7, <1>8

\* What every step of the measurement keeps.
CuptiRuns ==
  /\ code \in Seq(Instruction) /\ passes \in 1 .. MaxPasses /\ samples \in Nat
  /\ LaunchesLast /\ Leaves(code, held, Kept)
  /\ GuardsHeld(code, held) /\ Unguarded /\ guarded \subseteq held

\* Nothing but the session and the profiler is held when a pass is counted, and
\* what earlier failures have left.
LEMMA CountedPassHolds ==
  ASSUME CuptiRuns, code # <<>>, Head(code).op = "sample"
  PROVE  held \subseteq left \cup {"profiler", "session"} /\ Launching
<1>1. /\ DOMAIN code = 1 .. Len(code) /\ Len(code) \in Nat \ {0} /\ code[1].op = "sample"
  BY LenProperties, EmptySeq DEF CuptiRuns
<1>2. Launching /\ Len(code) = 1
  BY <1>1 DEF CuptiRuns, LaunchesLast
<1>3. ASSUME NEW r, LetsGo(code, r) PROVE FALSE
  <2>1. \A i \in DOMAIN code : i = 1
    BY <1>1, <1>2
  <2>2. \A i \in DOMAIN code : ~Releases(code[i], r)
    BY <1>1, <2>1 DEF Releases
  <2>3. QED
    BY <1>3, <2>2 DEF LetsGo
<1>4. QED
  BY <1>2, <1>3 DEF CuptiRuns, Leaves, Kept

\* Counting a pass acquires and releases nothing.
LEMMA CountedStep ==
  ASSUME CuptiStep, Head(code).op = "sample", samples \in Nat, passes \in Nat
  PROVE  /\ held' = held /\ guarded' = guarded
         /\ samples' = samples + 1 /\ passes' = passes
         /\ samples' < passes => code' = one_pass
         /\ samples' >= passes =>
              code' = process_user_loop \o <<Op("summaries", "none")>>
                        \o get_counter_values(add_metrics(st))
<1> DEFINE op == Head(code).op
<1>1. op \notin {"acquire", "release", "drop", "guard"} /\ op = "sample"
  OBVIOUS
<1>2. held' = held /\ guarded' = guarded
  BY <1>1 DEF CuptiStep
<1>3. samples' = samples + 1 /\ passes' = passes
  BY DEF CuptiStep
<1>4. ASSUME samples' < passes PROVE code' = one_pass
  BY <1>4 DEF CuptiStep
<1>5. ASSUME samples' >= passes
      PROVE  code' = process_user_loop \o <<Op("summaries", "none")>>
                        \o get_counter_values(add_metrics(st))
  <2>1. ~(samples' < passes)
    BY <1>3, <1>5
  <2>2. QED
    BY <1>5, <2>1 DEF CuptiStep
<1>6. QED
  BY <1>2, <1>3, <1>4, <1>5

\* Another pass follows.
LEMMA NextPass ==
  ASSUME CuptiRuns, code # <<>>, Head(code).op = "sample", CuptiStep, samples' < passes,
         left' = left
  PROVE  CuptiRuns'
<1>1. /\ code' = one_pass /\ held' = held /\ guarded' = guarded
      /\ samples' = samples + 1 /\ passes' = passes
  BY CountedStep DEF CuptiRuns
<1>2. Launching' /\ Kept' = left \cup {"profiler", "session"}
  BY <1>1 DEF Launching, Kept
<1>3. /\ code' \in Seq(Instruction) /\ Leaves(code, held, Kept)' /\ GuardsHeld(code, held)'
  <2>1. Sound(one_pass, Kept') /\ held' \subseteq Kept'
    BY <1>1, <1>2, CountedPassHolds, PassSound, SoundWeaker
  <2>2. QED
    BY <1>1, <2>1, SoundWith DEF Sound
<1>4. LaunchesLast' /\ Unguarded'
  <2>1. one_pass # << >>
    <3>1. Len(one_pass) # 0
      BY PassIs
    <3>2. Len(<< >>) = 0
      OBVIOUS
    <3>3. QED
      BY <3>1, <3>2
  <2>2. QED
    BY <1>1, <1>2, <2>1, PassIs, PassSound DEF LaunchesLast, Unguarded
<1>5. QED
  BY <1>1, <1>3, <1>4 DEF CuptiRuns

\* The loop is over: the session is closed, and the counters are read.
LEMMA LoopEnds ==
  ASSUME CuptiRuns, code # <<>>, Head(code).op = "sample", CuptiStep, ~(samples' < passes),
         left' = left
  PROVE  CuptiRuns'
<1> DEFINE loop == process_user_loop
           mark == <<Op("summaries", "none")>>
           values == get_counter_values(add_metrics(st))
           head == loop \o mark
           c == head \o values
<1>1. /\ samples' = samples + 1 /\ passes' = passes /\ held' = held /\ guarded' = guarded
      /\ samples' >= passes
  BY CountedStep DEF CuptiRuns
<1>2. code' = c
  BY <1>1, CountedStep DEF CuptiRuns
<1>3. ~Launching' /\ Kept' = left \cup {"profiler"}
  BY <1>1 DEF Launching, Kept
<1>4. /\ Sound(values, {}) /\ values \in Seq(Evaluating) /\ GuardedAtOnce(values)
  BY MetricsLength, ValuesSound
<1>5. /\ loop \in Seq(Instruction) /\ Len(loop) = 3
      /\ loop[1].op = "call" /\ loop[2].op = "call"
      /\ loop[3].op = "release" /\ loop[3].what = "session"
      /\ mark \in Seq(Instruction) /\ Len(mark) = 1 /\ mark[1] = Op("summaries", "none")
      /\ mark[1].op = "summaries"
  BY DEF process_user_loop, Call, Release, Op, Instruction, Resources
<1> HIDE DEF loop, mark, values
<1>6. head \in Seq(Instruction) /\ Len(head) = 4 /\ DOMAIN head = 1 .. 4
      /\ head[1].op = "call" /\ head[2].op = "call"
      /\ head[3].op = "release" /\ head[3].what = "session"
      /\ head[4] = Op("summaries", "none") /\ head[4].op = "summaries"
  <2>1. /\ head \in Seq(Instruction) /\ Len(head) = Len(loop) + Len(mark)
        /\ \A i \in 1 .. Len(loop) + Len(mark) :
             head[i] = IF i <= Len(loop) THEN loop[i] ELSE mark[i - Len(loop)]
    BY <1>5, ConcatProperties
  <2>2. DOMAIN head = 1 .. Len(head)
    BY <2>1, LenProperties
  <2> HIDE DEF head
  <2>3. QED
    BY <1>5, <2>1, <2>2
<1> HIDE DEF head
<1>7. values \in Seq(Instruction) /\ DOMAIN values = 1 .. Len(values) /\ Len(values) \in Nat
  BY <1>4, LenProperties DEF Sound
<1>8. /\ c \in Seq(Instruction) /\ Len(c) = 4 + Len(values) /\ DOMAIN c = 1 .. 4 + Len(values)
      /\ \A i \in 1 .. 4 + Len(values) : c[i] = IF i <= 4 THEN head[i] ELSE values[i - 4]
  <2>1. /\ c \in Seq(Instruction) /\ Len(c) = Len(head) + Len(values)
        /\ \A i \in 1 .. Len(head) + Len(values) :
             c[i] = IF i <= Len(head) THEN head[i] ELSE values[i - Len(head)]
    BY <1>6, <1>7, ConcatProperties
  <2>2. DOMAIN c = 1 .. Len(c)
    BY <2>1, LenProperties
  <2> HIDE DEF c
  <2>3. QED
    BY <1>6, <2>1, <2>2
<1>9. Sound(c, {})
  <2>1. \A i \in DOMAIN head : head[i].op \notin {"acquire", "guard"}
    BY <1>6
  <2>2. Sound(head, {})
    BY <1>6, <2>1, SoundPlain
  <2>3. QED
    BY <1>4, <2>2, SoundConcat
<1> HIDE DEF c
<1>10. ASSUME NEW i \in DOMAIN c
       PROVE  \/ i \in {1, 2, 3, 4} /\ c[i] = head[i]
              \/ i > 4 /\ i - 4 \in DOMAIN values /\ c[i] = values[i - 4]
  BY <1>7, <1>8
<1>11. \A i \in DOMAIN c : c[i].op # "sample"
  <2>1. \A i \in DOMAIN values : values[i].op # "sample"
    BY <1>4 DEF Evaluating
  <2>2. QED
    BY <1>6, <1>10, <2>1
<1>12. /\ 3 \in DOMAIN c /\ 4 \in DOMAIN c /\ 3 < 4
       /\ Releases(c[3], "session") /\ c[4] = Op("summaries", "none")
  BY <1>6, <1>7, <1>8 DEF Releases
<1>13. LetsGo(c, "session")
  <2>1. \A i \in DOMAIN values : ~Acquires(values[i], "session")
    BY <1>4 DEF Evaluating, Acquires
  <2>2. \A j \in DOMAIN c : 3 < j => ~Acquires(c[j], "session")
    BY <1>6, <1>10, <2>1 DEF Acquires
  <2>3. QED
    BY <1>12, <2>2 DEF LetsGo
<1>14. held' \subseteq left \cup {"profiler", "session"}
  BY <1>1, CountedPassHolds
<1>15. Leaves(c, held', left \cup {"profiler"}) /\ GuardsHeld(c, held')
  BY <1>9, <1>13, <1>14 DEF Sound, Leaves, GuardsHeld
<1>16. GuardedAtOnce(c)
  <2> SUFFICES ASSUME NEW i \in DOMAIN c, c[i].op = "acquire"
               PROVE  i + 1 \in DOMAIN c /\ c[i + 1] = Guard(c[i].what)
    BY DEF GuardedAtOnce
  <2>1. i > 4 /\ i - 4 \in DOMAIN values /\ c[i] = values[i - 4]
    BY <1>6, <1>10
  <2>2. (i - 4) + 1 \in DOMAIN values /\ values[(i - 4) + 1] = Guard(c[i].what)
    BY <1>4, <2>1 DEF GuardedAtOnce
  <2>3. i + 1 \in DOMAIN c /\ ~(i + 1 <= 4) /\ (i + 1) - 4 = (i - 4) + 1
    BY <1>7, <1>8, <2>1, <2>2
  <2>4. QED
    BY <1>8, <2>2, <2>3
<1>17. Unguarded'
  <2>1. \A r \in held' \ (guarded' \cup left' \cup {"profiler"}) : r = "session"
    BY <1>14
  <2>2. QED
    BY <1>2, <1>12, <1>16, <2>1 DEF Unguarded
<1>18. LaunchesLast'
  BY <1>2, <1>3, <1>11 DEF LaunchesLast
<1>19. QED
  BY <1>1, <1>2, <1>3, <1>8, <1>15, <1>17, <1>18 DEF CuptiRuns

\* The rest of the code is the code but for its head.
LEMMA TailIs ==
  ASSUME code \in Seq(Instruction), code # <<>>
  PROVE  /\ Head(code) = code[1] /\ Head(code) \in Instruction /\ 1 \in DOMAIN code
         /\ Tail(code) \in Seq(Instruction) /\ Len(Tail(code)) = Len(code) - 1
         /\ \A i \in DOMAIN Tail(code) : i + 1 \in DOMAIN code /\ Tail(code)[i] = code[i + 1]
         /\ \A i \in DOMAIN code :
              i = 1 \/ (1 < i /\ i - 1 \in DOMAIN Tail(code) /\ Tail(code)[i - 1] = code[i])
<1>1. DOMAIN code = 1 .. Len(code) /\ Len(code) \in Nat \ {0}
  BY LenProperties, EmptySeq
<1> DEFINE t == Tail(code)
<1>2. /\ t \in Seq(Instruction) /\ Len(t) = Len(code) - 1
      /\ \A i \in 1 .. Len(code) - 1 : t[i] = code[i + 1]
  BY <1>1
<1>3. DOMAIN t = 1 .. Len(t)
  BY <1>2, LenProperties
<1>4. Head(code) = code[1] /\ code[1] \in Instruction /\ 1 \in DOMAIN code
  BY <1>1
<1> HIDE DEF t
<1>5. \A i \in DOMAIN t : i + 1 \in DOMAIN code /\ t[i] = code[i + 1]
  BY <1>1, <1>2, <1>3
<1>6. \A i \in DOMAIN code : i = 1 \/ (1 < i /\ i - 1 \in DOMAIN t /\ t[i - 1] = code[i])
  BY <1>1, <1>2, <1>3
<1>7. QED
  BY <1>2, <1>4, <1>5, <1>6 DEF t

\* A step that does not count a pass.
LEMMA PlainStep ==
  ASSUME CuptiStep, Head(code).op # "sample"
  PROVE  /\ code' = Tail(code) /\ passes' = passes /\ samples' = samples
         /\ held' = CASE Head(code).op = "acquire" -> held \cup {Head(code).what}
                      [] Head(code).op \in {"release", "drop"} -> held \ {Head(code).what}
                      [] OTHER -> held
         /\ guarded' = CASE Head(code).op = "guard" -> guarded \cup {Head(code).what}
                         [] Head(code).op \in {"release", "drop"} -> guarded \ {Head(code).what}
                         [] OTHER -> guarded
BY DEF CuptiStep

\* It keeps the invariant.
LEMMA PlainStepRuns ==
  ASSUME CuptiRuns, code # <<>>, Head(code).op # "sample", CuptiStep, left' = left
  PROVE  CuptiRuns'
<1> DEFINE t == Tail(code)
           ins == Head(code)
<1>1. /\ code' = t /\ passes' = passes /\ samples' = samples
      /\ Launching' = Launching /\ Kept' = Kept
  BY PlainStep DEF Launching, Kept
<1>2. /\ ins = code[1] /\ ins \in Instruction /\ 1 \in DOMAIN code
      /\ t \in Seq(Instruction) /\ Len(t) = Len(code) - 1
      /\ \A i \in DOMAIN t : i + 1 \in DOMAIN code /\ t[i] = code[i + 1]
      /\ \A i \in DOMAIN code : i = 1 \/ (1 < i /\ i - 1 \in DOMAIN t /\ t[i - 1] = code[i])
  BY TailIs DEF CuptiRuns
<1>3. /\ \A r : Acquires(ins, r) => held' = held \cup {r}
      /\ \A r : Releases(ins, r) => held' = held \ {r} /\ guarded' = guarded \ {r}
      /\ ins.op = "guard" => guarded' = guarded \cup {ins.what}
      /\ ins.op # "acquire" /\ ins.op \notin {"release", "drop"} => held' = held
      /\ ins.op # "guard" /\ ins.op \notin {"release", "drop"} => guarded' = guarded
  <2>1. ins.op # "sample"
    OBVIOUS
  <2> HIDE DEF ins
  <2>2. /\ held' = CASE ins.op = "acquire" -> held \cup {ins.what}
                      [] ins.op \in {"release", "drop"} -> held \ {ins.what}
                      [] OTHER -> held
        /\ guarded' = CASE ins.op = "guard" -> guarded \cup {ins.what}
                         [] ins.op \in {"release", "drop"} -> guarded \ {ins.what}
                         [] OTHER -> guarded
    BY PlainStep DEF ins
  <2>3. QED
    BY <2>2 DEF Acquires, Releases
<1>4. ins.op # "sample"
  OBVIOUS
<1>5. /\ DOMAIN code = 1 .. Len(code) /\ DOMAIN t = 1 .. Len(t) /\ Len(code) \in Nat
      /\ Len(t) \in Nat
  BY <1>2, LenProperties DEF CuptiRuns
<1> HIDE DEF t, ins
\* What the head does to what is held.
<1>6. \A r : r \in held' => r \in held \/ Acquires(ins, r)
  BY <1>3 DEF Acquires, Releases
<1>7. \A r : r \in held /\ r \notin held' => Releases(ins, r)
  BY <1>3 DEF Acquires, Releases
<1>8. \A r : ~(Acquires(ins, r) /\ Releases(ins, r))
  BY DEF Acquires, Releases
<1>9. \A r : Releases(ins, r) => r \notin held'
  BY <1>3
<1>10. \A r : Acquires(ins, r) => r \in held'
  BY <1>3
<1>11. LaunchesLast'
  <2>1. CASE Launching
    <3>1. \A i \in DOMAIN code : code[i].op = "sample" <=> i = Len(code)
      BY <2>1 DEF CuptiRuns, LaunchesLast
    <3>2. Len(code) # 1
      BY <1>2, <1>4, <3>1
    <3>3. t # << >>
      BY <1>2, <1>5, <3>2
    <3>4. \A i \in DOMAIN t : t[i].op = "sample" <=> i = Len(t)
      BY <1>2, <1>5, <3>1
    <3>5. QED
      BY <1>1, <2>1, <3>3, <3>4 DEF LaunchesLast
  <2>2. CASE ~Launching
    <3>1. \A i \in DOMAIN t : t[i].op # "sample"
      BY <1>2, <2>2 DEF CuptiRuns, LaunchesLast
    <3>2. QED
      BY <1>1, <2>2, <3>1 DEF LaunchesLast
  <2>3. QED
    BY <2>1, <2>2
<1>12. Leaves(code, held, Kept)'
  <2> SUFFICES ASSUME NEW r, r \in held' \/ Uses(t, r), r \notin Kept PROVE LetsGo(t, r)
    BY <1>1 DEF Leaves
  <2>1. r \in held \/ Uses(code, r)
    BY <1>2, <1>6 DEF Uses
  <2>2. PICK i \in DOMAIN code : Releases(code[i], r)
               /\ \A j \in DOMAIN code : i < j => ~Acquires(code[j], r)
    BY <2>1 DEF CuptiRuns, Leaves, LetsGo
  <2>3. i # 1
    <3> SUFFICES ASSUME i = 1 PROVE FALSE
      OBVIOUS
    <3>1. r \notin held'
      BY <1>2, <1>9, <2>2
    <3>2. PICK u \in DOMAIN t : Acquires(t[u], r)
      BY <3>1 DEF Uses
    <3>3. u + 1 \in DOMAIN code /\ 1 < u + 1 /\ Acquires(code[u + 1], r)
      BY <1>2, <1>5, <3>2
    <3>4. QED
      BY <2>2, <3>3
  <2>4. i - 1 \in DOMAIN t /\ Releases(t[i - 1], r)
    BY <1>2, <2>2, <2>3
  <2>5. ASSUME NEW j \in DOMAIN t, i - 1 < j PROVE ~Acquires(t[j], r)
    <3>1. j + 1 \in DOMAIN code /\ i < j + 1 /\ t[j] = code[j + 1]
      BY <1>2, <1>5, <2>5
    <3>2. QED
      BY <2>2, <3>1
  <2>6. QED
    BY <2>4, <2>5 DEF LetsGo
<1>13. GuardsHeld(code, held)'
  <2> SUFFICES ASSUME NEW g \in DOMAIN t, t[g].op = "guard", NEW r, r = t[g].what
               PROVE  \/ r \in held' /\ \A k \in DOMAIN t : k < g => ~Releases(t[k], r)
                      \/ \E i \in DOMAIN t : i < g /\ Acquires(t[i], r)
                           /\ \A k \in DOMAIN t : i < k /\ k < g => ~Releases(t[k], r)
    BY <1>1 DEF GuardsHeld
  <2>1. g + 1 \in DOMAIN code /\ code[g + 1].op = "guard" /\ code[g + 1].what = r
    BY <1>2
  <2>2. CASE r \in held /\ \A k \in DOMAIN code : k < g + 1 => ~Releases(code[k], r)
    <3>1. ~Releases(ins, r)
      BY <1>2, <1>5, <2>2
    <3>2. r \in held'
      BY <1>7, <2>2, <3>1
    <3>3. \A k \in DOMAIN t : k < g => ~Releases(t[k], r)
      BY <1>2, <1>5, <2>2
    <3>4. QED
      BY <3>2, <3>3
  <2>3. ASSUME NEW i \in DOMAIN code, i < g + 1, Acquires(code[i], r),
               \A k \in DOMAIN code : i < k /\ k < g + 1 => ~Releases(code[k], r)
        PROVE  \/ r \in held' /\ \A k \in DOMAIN t : k < g => ~Releases(t[k], r)
               \/ \E j \in DOMAIN t : j < g /\ Acquires(t[j], r)
                    /\ \A k \in DOMAIN t : j < k /\ k < g => ~Releases(t[k], r)
    <3>1. CASE i = 1
      <4>1. r \in held'
        BY <1>2, <1>10, <2>3, <3>1
      <4>2. \A k \in DOMAIN t : k < g => ~Releases(t[k], r)
        BY <1>2, <1>5, <2>3, <3>1
      <4>3. QED
        BY <4>1, <4>2
    <3>2. CASE i # 1
      <4>1. i - 1 \in DOMAIN t /\ i - 1 < g /\ Acquires(t[i - 1], r)
        BY <1>2, <1>5, <2>3, <3>2
      <4>2. ASSUME NEW k \in DOMAIN t, i - 1 < k, k < g PROVE ~Releases(t[k], r)
        <5>1. k + 1 \in DOMAIN code /\ i < k + 1 /\ k + 1 < g + 1 /\ t[k] = code[k + 1]
          BY <1>2, <1>5, <4>2
        <5>2. QED
          BY <2>3, <5>1
      <4>3. QED
        BY <4>1, <4>2
    <3>3. QED
      BY <3>1, <3>2
  <2>4. QED
    BY <2>1, <2>2, <2>3 DEF CuptiRuns, GuardsHeld
<1>14. guarded' \subseteq held'
  <2>1. CASE ins.op = "guard"
    <3>1. ins.what \in held
      <4>1. \A i \in DOMAIN code : ~(i < 1)
        BY <1>5
      <4>2. code[1].op = "guard"
        BY <1>2, <2>1
      <4>3. QED
        BY <1>2, <4>1, <4>2 DEF CuptiRuns, GuardsHeld
    <3>2. held' = held /\ guarded' = guarded \cup {ins.what}
      BY <1>3, <2>1
    <3>3. QED
      BY <3>1, <3>2 DEF CuptiRuns
  <2>2. CASE ins.op \in {"release", "drop"}
    BY <1>3, <2>2 DEF CuptiRuns, Releases
  <2>3. CASE ins.op = "acquire"
    BY <1>3, <2>3 DEF CuptiRuns, Acquires
  <2>4. CASE ins.op \notin {"acquire", "guard", "release", "drop"}
    BY <1>3, <2>4 DEF CuptiRuns
  <2>5. QED
    BY <2>1, <2>2, <2>3, <2>4
<1>15. Unguarded'
  <2> SUFFICES ASSUME ~Launching
               PROVE  /\ GuardedAtOnce(t)
                      /\ \A r \in held' \ (guarded' \cup left \cup {"profiler"}) :
                           \/ t # <<>> /\ t[1] = Guard(r)
                           \/ \E i, j \in DOMAIN t :
                                i < j /\ Releases(t[i], r) /\ t[j] = Op("summaries", "none")
    BY <1>1 DEF Unguarded
  <2>1. /\ GuardedAtOnce(code)
        /\ \A r \in held \ (guarded \cup left \cup {"profiler"}) :
             \/ code # <<>> /\ code[1] = Guard(r)
             \/ \E i, j \in DOMAIN code :
                  i < j /\ Releases(code[i], r) /\ code[j] = Op("summaries", "none")
    BY DEF CuptiRuns, Unguarded
  <2>2. GuardedAtOnce(t)
    <3> SUFFICES ASSUME NEW i \in DOMAIN t, t[i].op = "acquire"
                 PROVE  i + 1 \in DOMAIN t /\ t[i + 1] = Guard(t[i].what)
      BY DEF GuardedAtOnce
    <3>1. i + 1 \in DOMAIN code /\ t[i] = code[i + 1]
      BY <1>2
    <3>2. (i + 1) + 1 \in DOMAIN code /\ code[(i + 1) + 1] = Guard(t[i].what)
      BY <2>1, <3>1 DEF GuardedAtOnce
    <3>3. i + 1 \in DOMAIN t
      BY <1>2, <1>5, <3>2
    <3>4. QED
      BY <1>2, <3>2, <3>3
  <2>3. ASSUME NEW r \in held' \ (guarded' \cup left \cup {"profiler"})
        PROVE  \/ t # <<>> /\ t[1] = Guard(r)
               \/ \E i, j \in DOMAIN t :
                    i < j /\ Releases(t[i], r) /\ t[j] = Op("summaries", "none")
    <3>1. CASE Acquires(ins, r)
      <4>1. 1 + 1 \in DOMAIN code /\ code[1 + 1] = Guard(r)
        BY <1>2, <2>1, <3>1 DEF GuardedAtOnce, Acquires
      <4>2. 1 \in DOMAIN t
        BY <1>2, <1>5, <4>1
      <4>3. t[1] = Guard(r)
        BY <1>2, <4>1, <4>2
      <4>4. t # << >>
        BY <4>2
      <4>5. QED
        BY <4>3, <4>4
    <3>2. CASE ~Acquires(ins, r)
      <4>1. r \in held /\ ~Releases(ins, r)
        BY <1>6, <1>9, <3>2
      <4>2. r \notin guarded
        BY <1>3, <4>1 DEF Releases
      <4>3. ~(code[1] = Guard(r))
        <5> SUFFICES ASSUME code[1] = Guard(r) PROVE FALSE
          OBVIOUS
        <5>1. ins.op = "guard" /\ ins.what = r
          BY <1>2 DEF Guard, Op
        <5>2. QED
          BY <1>3, <5>1
      <4>4. PICK i \in DOMAIN code, j \in DOMAIN code :
                   i < j /\ Releases(code[i], r) /\ code[j] = Op("summaries", "none")
        BY <2>1, <4>1, <4>2, <4>3
      <4>5. i # 1
        BY <1>2, <4>1, <4>4
      <4>6. i - 1 \in DOMAIN t /\ j - 1 \in DOMAIN t /\ i - 1 < j - 1
            /\ t[i - 1] = code[i] /\ t[j - 1] = code[j]
        BY <1>2, <1>5, <4>4, <4>5
      <4>7. QED
        BY <4>4, <4>6
    <3>3. QED
      BY <3>1, <3>2
  <2>4. QED
    BY <2>2, <2>3
<1>16. code' \in Seq(Instruction) /\ passes' \in 1 .. MaxPasses /\ samples' \in Nat
  BY <1>1, <1>2 DEF CuptiRuns
<1>17. QED
  BY <1>11, <1>12, <1>13, <1>14, <1>15, <1>16 DEF CuptiRuns

LEMMA StepRuns ==
  ASSUME CuptiRuns, CuptiStep, left' = left
  PROVE  CuptiRuns'
<1>1. code # <<>>
  BY DEF CuptiStep
<1>2. QED
  BY <1>1, NextPass, LoopEnds, PlainStepRuns

\* Outside of the measurement nothing is held but what failures have left, in
\* this state and in the ones before it.
ProfilerInv ==
  /\ guarded \subseteq held /\ passes \in 1 .. MaxPasses
  /\ IF Measuring("cupti") THEN CuptiRuns
     ELSE outcome # "terminated" => held \subseteq left /\ guarded = {}

\* The other measurements and the generator do not touch the profiler.
LEMMA OthersKeepProfiler ==
  ASSUME ProfilerInv, ~Measuring("cupti"), UNCHANGED <<cuptiVars, left>>, ~Measuring("cupti")',
         outcome # "terminated"
  PROVE  ProfilerInv'
<1>1. held \subseteq left /\ guarded = {} /\ passes \in 1 .. MaxPasses
  BY DEF ProfilerInv
<1>2. held' \subseteq left' /\ guarded' = {} /\ passes' \in 1 .. MaxPasses
  BY <1>1 DEF cuptiVars
<1>3. QED
  BY <1>2 DEF ProfilerInv

\* An exception that leaves a measurement releases what destructors guard; what
\* they do not guard is left by a profiled one.
LEMMA RaiseKeepsProfiler ==
  ASSUME ProfilerInv, NEW s, Raise(s),
         \/ left' = left \cup Unwound
         \/ left' = left /\ ~Measuring("cupti") /\ outcome # "terminated"
  PROVE  ProfilerInv'
<1>1. plan' = <<>> /\ guarded' = {} /\ passes' = passes /\ ~started' /\ held' = Unwound
  BY DEF Raise
<1>2. ~Measuring("cupti")'
  BY <1>1 DEF Measuring
<1>3. held' \subseteq left'
  BY <1>1 DEF ProfilerInv, Unwound
<1>4. QED
  BY <1>1, <1>2, <1>3 DEF ProfilerInv

\* A measurement that is over leaves nothing acquired.
LEMMA DestroyedKeepsProfiler ==
  ASSUME ProfilerInv, Finished, CuptiDestroyed, left' = left,
         held \ guarded \subseteq left \cup {"profiler"}
  PROVE  ProfilerInv'
<1>1. held' \subseteq left' /\ guarded' = {} /\ passes' = passes /\ ~started'
  BY DEF CuptiDestroyed, Unwound, Finished
<1>2. ~Measuring("cupti")'
  BY <1>1 DEF Measuring
<1>3. QED
  BY <1>1, <1>2 DEF ProfilerInv

LEMMA StepKeepsProfiler ==
  ASSUME ExecInv, EndedOwesNothing, ProfilerInv, [Next]_vars
  PROVE  ProfilerInv'
<1> USE DEF unbound, control, measuring
<1>1. CASE Construct
  <2>1. /\ outcome = "running" /\ ~Measuring("cupti") /\ UNCHANGED <<plan, outcome>>
        /\ plan # <<>> /\ started'
    BY <1>1 DEF Construct, EndedOwesNothing, Measuring
  <2>2. CASE Head(plan) = "cupti"
    <3>1. CuptiConstruct /\ held \subseteq left /\ guarded = {} /\ left' = left
      BY <1>1, <2>1, <2>2 DEF Construct, ProfilerInv
    <3>2. /\ CuptiRuns' /\ guarded' = {} /\ passes' \in 1 .. MaxPasses
      BY <3>1, ConstructProfiler DEF CuptiRuns
    <3>3. Measuring("cupti")'
      BY <2>1, <2>2 DEF Measuring
    <3>4. QED
      BY <2>1, <3>2, <3>3 DEF ProfilerInv
  <2>3. CASE Head(plan) # "cupti"
    <3>1. UNCHANGED <<cuptiVars, left>> /\ ~Measuring("cupti")'
      BY <1>1, <2>1, <2>3 DEF Construct, Measuring
    <3>2. QED
      BY <2>1, <3>1, OthersKeepProfiler
  <2>4. QED
    BY <2>2, <2>3
<1>2. CASE (\E n \in ColdSamples : ColdFinish(n)) \/ HotEnds \/ CpuEnds
  <2>1. /\ ~Measuring("cupti") /\ UNCHANGED <<cuptiVars, outcome, left>> /\ plan # <<>> /\ ~started'
    BY <1>2 DEF ColdFinish, HotEnds, CpuEnds, Finished, Measuring
  <2>2. outcome = "running" /\ ~Measuring("cupti")'
    BY <2>1 DEF EndedOwesNothing, Measuring
  <2>3. QED
    BY <2>1, <2>2, OthersKeepProfiler
<1>3. CASE HotSteps \/ CpuSteps
  <2>1. /\ ~Measuring("cupti") /\ UNCHANGED <<cuptiVars, left, outcome, plan, started>> /\ plan # <<>>
    BY <1>3 DEF HotSteps, CpuSteps, Measuring
  <2>2. outcome = "running" /\ ~Measuring("cupti")'
    BY <2>1 DEF EndedOwesNothing, Measuring
  <2>3. QED
    BY <2>1, <2>2, OthersKeepProfiler
<1>4. CASE CuptiSteps
  <2>1. /\ Measuring("cupti") /\ CuptiStep /\ UNCHANGED <<left, outcome, plan, started>>
    BY <1>4 DEF CuptiSteps
  <2>2. CuptiRuns' /\ Measuring("cupti")'
    BY <2>1, StepRuns DEF ProfilerInv, Measuring
  <2>3. QED
    BY <2>1, <2>2 DEF ProfilerInv, CuptiRuns
<1>5. CASE CuptiEnds
  <2>1. /\ Measuring("cupti") /\ code = <<>> /\ Finished /\ CuptiDestroyed /\ left' = left
    BY <1>5 DEF CuptiEnds, Measuring
  <2>2. CuptiRuns
    BY <2>1 DEF ProfilerInv
  <2>3. ~Launching
    BY <2>1, <2>2 DEF CuptiRuns, LaunchesLast
  <2>4. held \subseteq left \cup {"profiler"}
    <3>1. \A r : ~LetsGo(code, r)
      <4>1. DOMAIN code = {}
        BY <2>1
      <4>2. QED
        BY <4>1 DEF LetsGo
    <3>2. QED
      BY <2>2, <2>3, <3>1 DEF CuptiRuns, Leaves, Kept
  <2>5. QED
    BY <2>1, <2>4, DestroyedKeepsProfiler
<1>6. CASE CuptiFails
  <2>1. CASE Raise(st) /\ left' = left \cup Unwound
    BY <2>1, RaiseKeepsProfiler
  <2>2. CASE Collected /\ Finished /\ CuptiDestroyed /\ UNCHANGED <<st, hot, cpu, unbound>>
    <3>1. Measuring("cupti") /\ CanFail
      BY <1>6 DEF CuptiFails
    <3>2. CuptiRuns
      BY <3>1 DEF ProfilerInv
    <3>3. ~Launching /\ Op("summaries", "none") \notin ToSet(code)
      BY <2>2, <3>2 DEF Collected, Launching, CuptiRuns
    <3>4. code # <<>> /\ Head(code) = code[1] /\ Head(code).op # "guard"
      BY <3>1, <3>2, TailIs DEF CanFail, CuptiRuns
    <3>5. \A r : code[1] # Guard(r)
      BY <3>4 DEF Guard, Op
    <3>6. \A j \in DOMAIN code : code[j] # Op("summaries", "none")
      BY <3>3 DEF ToSet
    <3>7. held \ guarded \subseteq left \cup {"profiler"}
      BY <3>2, <3>3, <3>5, <3>6 DEF CuptiRuns, Unguarded
    <3>8. QED
      BY <2>2, <3>1, <3>7, DestroyedKeepsProfiler
  <2>3. QED
    BY <1>6, <2>1, <2>2 DEF CuptiFails
<1>7. CASE CuptiTerminates
  <2>1. /\ outcome' = "terminated" /\ plan' = <<>> /\ ~started'
        /\ UNCHANGED <<cuptiVars, left>>
    BY <1>7 DEF CuptiTerminates
  <2>2. ~Measuring("cupti")'
    BY <2>1 DEF Measuring
  <2>3. QED
    BY <2>1, <2>2 DEF ProfilerInv, cuptiVars
<1>8. CASE ColdFails \/ HotFails \/ CpuFails
  <2>1. ~Measuring("cupti") /\ plan # <<>> /\ left' = left
    BY <1>8 DEF ColdFails, HotFails, CpuFails, Measuring
  <2>2. outcome # "terminated"
    BY <2>1 DEF EndedOwesNothing
  <2>3. QED
    BY <1>8, <2>1, <2>2, RaiseKeepsProfiler DEF ColdFails, HotFails, CpuFails
<1>9. CASE Generator
  <2>1. Generating /\ UNCHANGED <<cuptiVars, left, started>>
    BY <1>9 DEF Generator, GeneratorSkips, GeneratorThrows, GeneratorReturns, GeneratorAdds,
                GeneratorCollects, GeneratorExecs, GeneratorCalls
  <2>2. ~started
    BY <2>1 DEF ExecInv, StartedOwes, Generating
  <2>3. ~Measuring("cupti") /\ ~Measuring("cupti")'
    BY <2>1, <2>2 DEF Measuring
  <2>4. QED
    BY <2>1, <2>3, OthersKeepProfiler DEF Generating
<1>10. CASE UNCHANGED vars
  <2>1. UNCHANGED <<left, outcome, plan, started, code, held, guarded, passes, samples>>
    BY <1>10 DEF vars, cuptiVars
  <2>2. Measuring("cupti")' = Measuring("cupti") /\ CuptiRuns' = CuptiRuns
    BY <2>1 DEF Measuring, CuptiRuns, LaunchesLast, Launching, Kept, Unguarded
  <2>3. QED
    BY <2>1, <2>2 DEF ProfilerInv
<1>11. CASE NextState
  <2>1. /\ outcome # "running" /\ outcome # "terminated"
        /\ UNCHANGED <<cuptiVars, left, plan, started>>
    BY <1>11 DEF NextState
  <2>2. ~Measuring("cupti") /\ ~Measuring("cupti")'
    BY <2>1 DEF EndedOwesNothing, Measuring
  <2>3. QED
    BY <2>1, <2>2, OthersKeepProfiler
<1>12. QED
  BY <1>1, <1>2, <1>3, <1>4, <1>5, <1>6, <1>7, <1>8, <1>9, <1>10, <1>11 DEF Next, Program, Failure

LEMMA InitProfiler == Init => ProfilerInv
<1> SUFFICES ASSUME Init PROVE ProfilerInv
  OBVIOUS
<1>1. /\ outcome = "running" /\ plan = <<>> /\ ~started
      /\ held = {} /\ guarded = {} /\ passes = 1
  BY DEF Init, CuptiInit
<1>2. ~Measuring("cupti") /\ 1 \in 1 .. MaxPasses
  BY <1>1, PassesAssumption DEF Measuring
<1>3. QED
  BY <1>1, <1>2 DEF ProfilerInv

LEMMA ProfilerInvariant == Spec => []ProfilerInv
BY InitProfiler, StepKeepsProfiler, ExecInvariant, EndedInvariant, PTL DEF Spec

\* While another measurement runs, of the same state or of a later one, the
\* profiler holds nothing but what failures of the library have left that were
\* thrown out of a profiled measurement: one that ends otherwise has closed its
\* session and released what it acquired (cupti_profiler.cxx, measure_cupti.cu,
\* runner.cuh).
THEOREM ProfilerIsClosed == Spec => []ProfilerClosed
<1>1. EndedOwesNothing /\ ProfilerInv => ProfilerClosed
  BY DEF EndedOwesNothing, ProfilerInv, ProfilerClosed, Measuring
<1>2. QED
  BY <1>1, ProfilerInvariant, EndedInvariant, PTL

-----------------------------------------------------------------------------
(* Types                                                                   *)

\* StateTypeOK of any state.
Typed(s) ==
  /\ \A k \in {"is_cpu_only", "run_once", "disable_blocking_kernel"} : s.set[k] \in BOOLEAN
  /\ s.set.min_samples \in Nat /\ s.set.timeout \in Nat
  /\ s.set.min_time \in Nat /\ s.set.skip_time \in Int
  /\ s.collected \subseteq ToSet(Metrics)
  /\ s.element_count \in Nat /\ s.global_memory_rw_bytes \in Nat

\* What is done to a state keeps the types of its settings and counts.
LEMMA OperationsTyped ==
  ASSUME NEW s, IsState(s), Typed(s), NEW reason, NEW new, NEW column, NEW direction,
         NEW metrics \in SUBSET ToSet(Metrics), NEW t
  PROVE  /\ Typed(skip(s, reason)) /\ Typed(add_summaries(s, new))
         /\ Typed(add_element_count(s, 1, column))
         /\ Typed(add_global_memory(s, 1, direction, column))
         /\ Typed(collect(s, metrics)) /\ Typed(synced(t, s))
<1> USE DEF IsState, StateFields, Inherited
<1>1. Typed(skip(s, reason))
  BY DEF Typed, skip
<1>2. ASSUME NEW r, IsState(r), Typed(r), NEW x PROVE Typed(add_summaries(r, x))
  BY <1>2 DEF Typed, add_summaries
<1>3. Typed(add_element_count(s, 1, column))
  <2> DEFINE r == [s EXCEPT !.element_count = @ + 1]
  <2>1. IsState(r) /\ Typed(r)
    BY DEF Typed
  <2> HIDE DEF r
  <2>2. QED
    BY <1>2, <2>1 DEF add_element_count, add_summary, r
<1>4. Typed(add_global_memory(s, 1, direction, column))
  <2> DEFINE r == [s EXCEPT !.global_memory_rw_bytes = @ + 1]
  <2>1. IsState(r) /\ Typed(r)
    BY DEF Typed
  <2> HIDE DEF r
  <2>2. QED
    BY <1>2, <2>1 DEF add_global_memory, add_buffer_size, add_summary, r
<1>5. Typed(collect(s, metrics))
  BY DEF Typed, collect
<1>6. Typed(synced(t, s))
  BY DEF Typed, synced
<1>7. QED
  BY <1>1, <1>2, <1>3, <1>4, <1>5, <1>6

\* So are the summaries of the measurements.
LEMMA ResultsTyped ==
  ASSUME NEW s, IsState(s), Typed(s), NEW n
  PROVE  /\ Typed(ColdSummaries(s, n)) /\ Typed(HotSummaries(s))
         /\ Typed(CpuSummaries(s)) /\ Typed(generate_cupti_summaries(s))
<1>1. \A r, new : IsState(r) /\ Typed(r) => IsState(add_summaries(r, new)) /\ Typed(add_summaries(r, new))
  <2> TAKE r, new
  <2> HAVE IsState(r) /\ Typed(r)
  <2>1. Typed(add_summaries(r, new))
    <3>1. {} \in SUBSET ToSet(Metrics)
      OBVIOUS
    <3>2. QED
      BY <3>1, OperationsTyped
  <2>2. QED
    BY <2>1, SummariesKeepSettings DEF SameSettings
<1>2. Typed(ColdSummaries(s, n)) /\ Typed(HotSummaries(s)) /\ Typed(CpuSummaries(s))
  BY <1>1 DEF ColdSummaries, HotSummaries, CpuSummaries
<1>3. Typed(generate_cupti_summaries(s))
  <2> DEFINE r == gen_summaries(s, add_metrics(s))
  <2>1. IsState(r) /\ Typed(r)
    BY <1>1 DEF gen_summaries
  <2> HIDE DEF r
  <2>2. QED
    BY <1>1, <2>1 DEF generate_cupti_summaries, add_summary, r
<1>4. QED
  BY <1>2, <1>3

\* A state that an exception has reached.
LEMMA CaughtTyped ==
  ASSUME NEW s, IsState(s), Typed(s), Caught(s)
  PROVE  Typed(st') /\ outcome' = "caught"
<1> DEFINE r == skip(s, "unexpected error")
<1>1. Typed(r)
  <2>1. {} \in SUBSET ToSet(Metrics)
    OBVIOUS
  <2>2. QED
    BY <2>1, OperationsTyped
<1> HIDE DEF r
<1>2. st' = s \/ st' = r
  <2>1. st' = IF s.skip_reason # "" THEN s ELSE r
    BY DEF Caught, r
  <2>2. QED
    BY <2>1, Zenon
<1>3. QED
  BY <1>1, <1>2 DEF Caught

\* The numbers both loops compute with.
HotNumbers ==
  /\ HotShape /\ HotTypeOK /\ hot.min_time \in Int /\ hot.walltime \in Nat
  /\ hot.at \in {"warming", "launching"} => hot.batch_size > 0

CpuNumbers ==
  /\ DOMAIN cpu = DOMAIN CpuIdle /\ CpuTypeOK /\ cpu.timeout \in Nat

ControlTyped ==
  /\ tags \subseteq Modifiers \cup Measures
  /\ plan \in Seq(Measures \cup {"cupti"}) /\ started \in BOOLEAN /\ blocked \in BOOLEAN
  /\ outcome \in {"running", "caught", "returned", "terminated"}

\* The number of launches that remain is a number, whatever the mean duration.
LEMMA RemainingIsNumber ==
  ASSUME NEW min_time \in Int, NEW time \in Nat, NEW count \in Nat
  PROVE  Remaining(min_time, time, count) \in Int
<1>1. CASE time = 0 \/ min_time <= time
  BY <1>1 DEF Remaining
<1>2. CASE ~(time = 0 \/ min_time <= time)
  <2>1. (min_time - time) * count \in Int
    OBVIOUS
  <2>2. \A a \in Int : a \div time \in Int
    BY <1>2
  <2>3. QED
    BY <1>2, <2>1, <2>2 DEF Remaining
<1>3. QED
  BY <1>1, <1>2

LEMMA HotStepTyped ==
  ASSUME HotNumbers, HotSteps
  PROVE  HotNumbers'
<1> USE DEF HotNumbers, HotShape, HotIdle, HotTypeOK
<1>1. CASE HotCheck
  BY <1>1 DEF HotCheck
<1>2. CASE HotStart
  <2>1. Greatest(hot.batch_size, 1) \in Nat \ {0}
    BY DEF Greatest
  <2>2. QED
    BY <1>2, <2>1 DEF HotStart
<1>3. CASE HotLaunch
  BY <1>3 DEF HotLaunch
<1>4. CASE HotUnblock
  BY <1>4 DEF HotUnblock
<1>5. CASE \E d \in Durations : HotWarmupStop(d)
  <2>1. PICK d \in Durations : HotWarmupStop(d)
    BY <1>5
  <2>2. d \in Nat
    BY DurationsAssumption
  <2> DEFINE size == IF d = 0 THEN 0 ELSE (100 * hot.min_time) \div (95 * d)
  <2>3. size \in Int
    <3>1. 100 * hot.min_time \in Int /\ 95 * d \in Int /\ (d # 0 => 95 * d > 0)
      BY <2>2
    <3>2. \A a, b \in Int : b > 0 => a \div b \in Int
      OBVIOUS
    <3>3. QED
      BY <3>1, <3>2
  <2>4. hot' = [hot EXCEPT !.at = "batch", !.walltime = 0, !.batch_size = size]
    BY <2>1 DEF HotWarmupStop
  <2> HIDE DEF size
  <2>5. QED
    BY <2>3, <2>4
<1>6. CASE \E d \in Durations : HotBatchStop(d)
  <2>1. PICK d \in Durations : HotBatchStop(d)
    BY <1>6
  <2>2. d \in Nat /\ hot.at = "launching"
    BY <2>1, DurationsAssumption DEF HotBatchStop
  <2> DEFINE time   == hot.total_cuda_time + d
             count  == hot.total_samples + hot.batch_size
             wall   == hot.walltime + d + 1
             enough == time > hot.min_time /\ count > hot.min_samples
             late   == ~enough /\ wall > hot.timeout
             rest   == Remaining(hot.min_time, time, count)
  <2>3. time \in Nat /\ count \in Nat /\ wall \in Nat
    BY <2>2
  <2>4. hot' = [hot EXCEPT !.total_cuda_time = time, !.total_samples = count,
                        !.batch_size = rest,
                        !.walltime = wall, !.timed_out = late,
                        !.at = IF enough \/ late THEN "summaries" ELSE "batch"]
    BY <2>1 DEF HotBatchStop
  <2> HIDE DEF time, count, wall, enough, late
  <2>5. rest \in Int
    BY <2>3, RemainingIsNumber
  <2> HIDE DEF rest
  <2>6. QED
    BY <2>3, <2>4, <2>5
<1>7. QED
  BY <1>1, <1>2, <1>3, <1>4, <1>5, <1>6 DEF HotSteps

LEMMA CpuStepTyped ==
  ASSUME CpuNumbers, CpuSteps
  PROVE  CpuNumbers'
<1> USE DEF CpuNumbers, CpuIdle, CpuTypeOK
<1>1. CASE CpuInitialize
  BY <1>1, CpuAssumption DEF CpuInitialize
<1>2. CASE \E time \in CpuTimes : CpuWarmup(time)
  BY <1>2 DEF CpuWarmup
<1>3. CASE \E time \in CpuTimes : CpuTrial(time)
  <2>1. PICK time \in CpuTimes : CpuTrial(time)
    BY <1>3
  <2>2. time \in Nat
    BY CpuAssumption
  <2> DEFINE n == Min({cpu.total_samples + 1, MaxSamples})
  <2>3. n \in 0 .. MaxSamples
    <3> DEFINE T == {cpu.total_samples + 1, MaxSamples}
    <3>1. T \in SUBSET Nat /\ T # {} /\ MaxSamples \in T
      BY CpuAssumption
    <3> HIDE DEF T
    <3>2. Min(T) \in Nat /\ Min(T) <= MaxSamples
      BY <3>1, MinIsLeast
    <3>3. QED
      BY <3>2, CpuAssumption DEF T
  <2>4. cpu' = [cpu EXCEPT !.total_samples = n, !.walltime = @ + time + 1, !.at = "finished?"]
    BY <2>1 DEF CpuTrial
  <2> HIDE DEF n
  <2>5. QED
    BY <2>2, <2>3, <2>4
<1>4. CASE \E answer \in BOOLEAN : CpuFinished(answer)
  <2>1. PICK answer \in BOOLEAN : CpuFinished(answer)
    BY <1>4
  <2> DEFINE w == Min({cpu.walltime, cpu.timeout + 1})
             next == IF is_finished(answer) THEN "summaries" ELSE "trial"
             late == /\ cpu.walltime > cpu.timeout /\ ~cpu.run_once
                     /\ ~(cpu.total_samples > cpu.min_samples /\ answer)
  <2>2. w \in Nat
    <3> DEFINE T == {cpu.walltime, cpu.timeout + 1}
    <3>1. T \in SUBSET Nat /\ T # {}
      OBVIOUS
    <3> HIDE DEF T
    <3>2. Min(T) \in Nat
      BY <3>1, MinIsLeast
    <3>3. QED
      BY <3>2 DEF T
  <2>3. cpu' = [cpu EXCEPT !.at = next, !.timed_out = late, !.walltime = w]
    BY <2>1 DEF CpuFinished
  <2>4. next \in {"summaries", "trial"} /\ late \in BOOLEAN
    OBVIOUS
  <2> HIDE DEF w, next, late
  <2>5. QED
    BY <2>2, <2>3, <2>4
<1>5. QED
  BY <1>1, <1>2, <1>3, <1>4 DEF CpuSteps

TypeInv == Typed(st) /\ HotNumbers /\ CpuNumbers /\ ControlTyped

\* Both measurements while there is none.
LEMMA IdleTyped ==
  /\ hot' = HotIdle => HotNumbers'
  /\ cpu' = CpuIdle => CpuNumbers'
<1>1. hot' = HotIdle => HotNumbers'
  BY DEF HotIdle, HotNumbers, HotShape, HotTypeOK
<1>2. cpu' = CpuIdle => CpuNumbers'
  BY CpuAssumption DEF CpuIdle, CpuNumbers, CpuTypeOK
<1>3. QED
  BY <1>1, <1>2

\* The parameters a measurement takes from the state.
LEMMA ParametersTyped ==
  ASSUME NEW s, Typed(s)
  PROVE  /\ hot' = HotParameters(s) => HotNumbers'
         /\ cpu' = CpuParameters(s) => CpuNumbers'
<1>1. cpu' = CpuParameters(s) => CpuNumbers'
  BY CpuAssumption DEF CpuParameters, CpuIdle, CpuNumbers, CpuTypeOK, Typed
<1>2. ASSUME hot' = HotParameters(s) PROVE HotNumbers'
  <2> DEFINE cold == get_summary(s, "nv/cold/sample_size") # 0
             wait == IF cold THEN Greatest(s.set.min_samples, SummaryValue(s, "nv/cold/sample_size"))
                     ELSE s.set.min_samples
             skips == IF cold THEN -1 ELSE s.set.skip_time
             least == IF cold THEN s.set.min_time
                      ELSE Least((s.set.min_time + s.set.timeout) \div 2, 5 * s.set.min_time)
  <2>1. least \in Int
    BY DEF Typed, Least
  <2>2. hot' = [HotIdle EXCEPT !.at = "check", !.timeout = s.set.timeout, !.min_samples = wait,
                               !.skip_time = skips, !.min_time = least]
    BY <1>2 DEF HotParameters
  <2> HIDE DEF least, wait, skips
  <2>3. QED
    BY <2>1, <2>2 DEF HotIdle, HotNumbers, HotShape, HotTypeOK
<1>3. QED
  BY <1>1, <1>2

LEMMA UnchangedTyped ==
  /\ HotNumbers /\ hot' = hot => HotNumbers'
  /\ CpuNumbers /\ cpu' = cpu => CpuNumbers'
BY DEF HotNumbers, HotShape, HotTypeOK, CpuNumbers, CpuTypeOK

LEMMA NoPlan ==
  ASSUME NEW p, p = <<>>
  PROVE  p \in Seq(Measures \cup {"cupti"})
OBVIOUS

LEMMA RaiseTyped ==
  ASSUME TypeInv, NEW s, IsState(s), Typed(s), Raise(s)
  PROVE  TypeInv'
<1>1. Typed(st') /\ outcome' = "caught"
  BY CaughtTyped DEF Raise
<1>2. HotNumbers' /\ CpuNumbers'
  BY IdleTyped DEF Raise
<1>3. ControlTyped'
  <2>1. plan' = <<>> /\ started' = FALSE /\ blocked' = FALSE /\ tags' = tags
    BY DEF Raise
  <2>2. QED
    BY <1>1, <2>1, NoPlan DEF TypeInv, ControlTyped
<1>4. QED
  BY <1>1, <1>2, <1>3 DEF TypeInv

LEMMA FinishedTyped ==
  ASSUME TypeInv, plan # <<>>, Finished, Typed(st'), HotNumbers', CpuNumbers',
         UNCHANGED <<tags, outcome>>
  PROVE  TypeInv'
<1>1. Tail(plan) \in Seq(Measures \cup {"cupti"})
  BY DEF TypeInv, ControlTyped
<1>2. ControlTyped'
  BY <1>1 DEF TypeInv, ControlTyped, Finished
<1>3. QED
  BY <1>2 DEF TypeInv

\* A state as it is generated (the constructor of state).
LEMMA NewStateTyped ==
  ASSUME NEW bench \in Benchmarks
  PROVE  Typed(NewState(bench))
<1>1. NewState(bench).set = [k \in Inherited |-> bench[k]]
  BY DEF NewState
<1>2. /\ NewState(bench).collected = {} /\ NewState(bench).element_count = 0
      /\ NewState(bench).global_memory_rw_bytes = 0
  BY DEF NewState
<1>3. QED
  BY <1>1, <1>2, BenchmarksAssumption DEF Typed, Inherited

LEMMA StepKeepsTypes ==
  ASSUME ExecInv, EndedOwesNothing, TypeInv, [Next]_vars
  PROVE  TypeInv'
<1> USE DEF unbound, control, measuring
<1>0. IsState(st) /\ Typed(st) /\ {} \in SUBSET ToSet(Metrics)
  BY DEF ExecInv, StateShape, TypeInv
<1>1. CASE Construct
  <2>1. st' = st /\ started' /\ UNCHANGED <<plan, tags, outcome>>
    BY <1>1 DEF Construct
  <2>2. HotNumbers' /\ CpuNumbers'
    BY <1>0, <1>1, ParametersTyped, UnchangedTyped DEF Construct, TypeInv
  <2>3. blocked' \in BOOLEAN /\ started' \in BOOLEAN
    BY <1>1 DEF Construct
  <2>4. QED
    BY <2>1, <2>2, <2>3 DEF TypeInv, ControlTyped
<1>2. CASE \E n \in ColdSamples : ColdFinish(n)
  <2>1. Typed(st') /\ Finished /\ plan # <<>> /\ UNCHANGED <<hot, cpu, tags, outcome>>
    BY <1>0, <1>2, ResultsTyped DEF ColdFinish, Measuring
  <2>2. QED
    BY <2>1, UnchangedTyped, FinishedTyped DEF TypeInv
<1>3. CASE HotSteps
  <2>1. HotNumbers' /\ st' = st
    BY <1>3, HotStepTyped, HotStepStays DEF TypeInv, HotNumbers
  <2>2. UNCHANGED <<cpu, tags, plan, started, blocked, outcome>>
    BY <1>3 DEF HotSteps
  <2>3. QED
    BY <1>0, <2>1, <2>2, UnchangedTyped DEF TypeInv, ControlTyped
<1>4. CASE HotEnds
  <2>1. /\ Typed(st') /\ Finished /\ plan # <<>> /\ UNCHANGED <<cpu, tags, outcome>>
        /\ hot' = HotIdle
    BY <1>0, <1>4, ResultsTyped DEF HotEnds, HotFinish, Measuring
  <2>2. QED
    BY <2>1, IdleTyped, UnchangedTyped, FinishedTyped DEF TypeInv
<1>5. CASE CpuSteps
  <2>1. CpuNumbers' /\ UNCHANGED <<st, hot, tags, plan, started, blocked, outcome>>
    BY <1>5, CpuStepTyped
    DEF TypeInv, CpuSteps, CpuInitialize, CpuWarmup, CpuTrial, CpuFinished
  <2>2. QED
    BY <1>0, <2>1, UnchangedTyped DEF TypeInv, ControlTyped
<1>6. CASE CpuEnds
  <2>1. /\ Typed(st') /\ Finished /\ plan # <<>> /\ UNCHANGED <<hot, tags, outcome>>
        /\ cpu' = CpuIdle
    BY <1>0, <1>6, ResultsTyped DEF CpuEnds, CpuFinish, Measuring
  <2>2. QED
    BY <2>1, IdleTyped, UnchangedTyped, FinishedTyped DEF TypeInv
<1>7. CASE CuptiSteps
  <2>1. UNCHANGED <<st, hot, cpu, tags, plan, started, blocked, outcome>>
    BY <1>7 DEF CuptiSteps
  <2>2. QED
    BY <1>0, <2>1, UnchangedTyped DEF TypeInv, ControlTyped
<1>8. CASE CuptiEnds
  <2>1. /\ Typed(st') /\ Finished /\ plan # <<>> /\ UNCHANGED <<hot, cpu, tags, outcome>>
    BY <1>0, <1>8, ResultsTyped DEF CuptiEnds, Measuring
  <2>2. QED
    BY <2>1, UnchangedTyped, FinishedTyped DEF TypeInv
<1>9. CASE ColdFails \/ HotFails \/ CpuFails
  <2> DEFINE r == skip(st, "skip_time")
  <2>1. IsState(r) /\ Typed(r)
    BY <1>0, OperationsTyped, SkipKeepsSettings
  <2>2. Raise(st) \/ Raise(r)
    BY <1>9 DEF ColdFails, HotFails, CpuFails
  <2> HIDE DEF r
  <2>3. QED
    BY <1>0, <2>1, <2>2, RaiseTyped
<1>10. CASE CuptiFails
  <2>1. CASE Raise(st)
    BY <1>0, <2>1, RaiseTyped
  <2>2. CASE Finished /\ UNCHANGED <<st, hot, cpu, unbound>>
    <3>1. plan # <<>>
      BY <1>10 DEF CuptiFails, Measuring
    <3>2. QED
      BY <1>0, <2>2, <3>1, UnchangedTyped, FinishedTyped DEF TypeInv
  <2>3. QED
    BY <1>10, <2>1, <2>2 DEF CuptiFails
<1>11. CASE CuptiTerminates
  <2>1. /\ UNCHANGED <<st, hot, cpu, tags, blocked>> /\ plan' = <<>> /\ started' = FALSE
        /\ outcome' = "terminated"
    BY <1>11 DEF CuptiTerminates
  <2>2. ControlTyped'
    BY <2>1, NoPlan DEF TypeInv, ControlTyped
  <2>3. QED
    BY <1>0, <2>1, <2>2, UnchangedTyped DEF TypeInv
<1>12. CASE Generator
  <2>1. UNCHANGED <<hot, cpu, started, blocked>>
    BY <1>12 DEF Generator, GeneratorSkips, GeneratorThrows, GeneratorReturns, GeneratorAdds,
                 GeneratorCollects, GeneratorExecs, GeneratorCalls
  <2>2. Typed(st') /\ outcome' \in {"running", "caught", "returned", "terminated"}
    <3>1. CASE GeneratorSkips
      BY <1>0, <3>1, OperationsTyped DEF GeneratorSkips, TypeInv, ControlTyped
    <3>2. CASE GeneratorThrows
      BY <1>0, <3>2, CaughtTyped DEF GeneratorThrows
    <3>3. CASE GeneratorReturns
      BY <1>0, <3>3 DEF GeneratorReturns
    <3>4. CASE GeneratorAdds("a")
      <4> DEFINE r == add_element_count(st, 1, unnamed)
      <4>1. IsState(r) /\ Typed(r)
        BY <1>0, OperationsTyped, CountsKeepSettings DEF SameSettings
      <4> HIDE DEF r
      <4>2. Typed(add_global_memory(r, 1, "reads", "a"))
        BY <1>0, <4>1, OperationsTyped
      <4>3. QED
        BY <3>4, <4>2 DEF GeneratorAdds, TypeInv, ControlTyped, r
    <3>5. CASE \E metrics \in Requests : GeneratorCollects(metrics)
      <4>1. PICK metrics \in Requests : GeneratorCollects(metrics)
        BY <3>5
      <4>2. metrics \in SUBSET ToSet(Metrics)
        BY ExecAssumption
      <4>3. QED
        BY <1>0, <4>1, <4>2, OperationsTyped DEF GeneratorCollects, TypeInv, ControlTyped
    <3>6. CASE \E t \in TagSets : GeneratorExecs(t)
      <4>1. PICK t \in TagSets : GeneratorExecs(t)
        BY <3>6
      <4>2. CASE Mismatch(Selected(t), st)
        BY <1>0, <4>1, <4>2, CaughtTyped DEF GeneratorExecs
      <4>3. CASE ~Mismatch(Selected(t), st)
        BY <1>0, <4>1, <4>3, OperationsTyped DEF GeneratorExecs, TypeInv, ControlTyped
      <4>4. QED
        BY <4>2, <4>3
    <3>7. QED
      BY <1>12, <3>1, <3>2, <3>3, <3>4, <3>5, <3>6 DEF Generator
  <2>3. tags' \subseteq Modifiers \cup Measures /\ plan' \in Seq(Measures \cup {"cupti"})
    <3>1. ExecInv'
      BY StepKeepsInv
    <3>2. QED
      BY <3>1 DEF ExecInv, PlanOfTags, Compiles
  <2>4. QED
    BY <2>1, <2>2, <2>3, UnchangedTyped DEF TypeInv, ControlTyped
<1>13. CASE UNCHANGED vars
  <2>1. UNCHANGED <<st, hot, cpu, tags, plan, started, blocked, outcome>>
    BY <1>13 DEF vars
  <2>2. QED
    BY <1>0, <2>1, UnchangedTyped DEF TypeInv, ControlTyped
<1>14. CASE NextState
  <2>1. PICK bench \in Benchmarks : st' = NewState(bench)
    BY <1>14 DEF NextState
  <2>2. Typed(st')
    BY <2>1, NewStateTyped
  <2>3. /\ UNCHANGED <<hot, cpu, plan, started, blocked>>
        /\ tags' = {} /\ outcome' = "running"
    BY <1>14 DEF NextState
  <2>4. QED
    BY <2>2, <2>3, UnchangedTyped DEF TypeInv, ControlTyped
<1>15. QED
  BY <1>1, <1>2, <1>3, <1>4, <1>5, <1>6, <1>7, <1>8, <1>9, <1>10, <1>11, <1>12, <1>13, <1>14
  DEF Next, Program, Failure

LEMMA InitTypes == Init => TypeInv
<1> SUFFICES ASSUME Init PROVE TypeInv
  OBVIOUS
<1>1. Typed(st)
  BY NewStateTyped DEF Init
<1>2. HotNumbers /\ CpuNumbers
  BY CpuAssumption DEF Init, HotIdle, HotNumbers, HotShape, HotTypeOK, CpuIdle, CpuNumbers, CpuTypeOK
<1>3. ControlTyped
  <2>1. tags = {} /\ plan = <<>> /\ started = FALSE /\ blocked = FALSE /\ outcome = "running"
    BY DEF Init
  <2>2. QED
    BY <2>1, NoPlan DEF ControlTyped
<1>4. QED
  BY <1>1, <1>2, <1>3 DEF TypeInv

LEMMA TypeInvariant == Spec => []TypeInv
BY InitTypes, StepKeepsTypes, ExecInvariant, EndedInvariant, PTL DEF Spec

\* Every variable keeps its type, whatever the generator calls, whatever fails
\* and however short a batch is.
THEOREM TypeCorrect == Spec => []TypeOK
<1>1. TypeInv /\ ProfilerInv => TypeOK
  BY DEF TypeInv, Typed, HotNumbers, CpuNumbers, ControlTyped, ProfilerInv, TypeOK, StateTypeOK
<1>2. QED
  BY <1>1, TypeInvariant, ProfilerInvariant, PTL

-----------------------------------------------------------------------------
(* Summaries                                                               *)

COLD  == "nv/cold/sample_size"
BATCH == "nv/batch/sample_size"

\* What a summary looks like that measure_hot is not to take for another one.
Distinct(x) ==
  /\ x.tag = "nv/cold/sample_size" => x.value \in Nat
  /\ x.name # "nv/cold/sample_size"

\* The property at a summary of a batched measurement, and the place of the
\* one that follows it.
Matches(s, i) ==
  LET before == [s EXCEPT !.summaries = SubSeq(@, 1, i - 1)] IN
  (s.summaries[i].tag = "nv/batch/sample_size"
     /\ get_summary(before, "nv/cold/sample_size") # 0)
    => \/ s.summaries[i].value > SummaryValue(before, "nv/cold/sample_size")
       \/ s.summaries[i + 2].value > s.set.timeout

Matched(s) ==
  /\ IsSeq(s.summaries)
  /\ \A i \in DOMAIN s.summaries :
       /\ Distinct(s.summaries[i]) /\ Matches(s, i)
       /\ s.summaries[i].tag = "nv/batch/sample_size" => i + 2 \in DOMAIN s.summaries

\* Only the summaries of a state matter to the look-up.
LEMMA LookUp ==
  ASSUME NEW s, NEW r, s.summaries = r.summaries, NEW tag
  PROVE  /\ get_summary(s, tag) = get_summary(r, tag)
         /\ SummaryValue(s, tag) = SummaryValue(r, tag)
<1>1. get_summary(s, tag) = get_summary(r, tag)
  BY DEF get_summary, SelectInSeq
<1>2. QED
  BY <1>1 DEF SummaryValue

\* The summary found has the tag, or its name is the tag.
LEMMA Found ==
  ASSUME NEW s, IsSeq(s.summaries), NEW tag, get_summary(s, tag) # 0
  PROVE  LET k == get_summary(s, tag) IN
         k \in DOMAIN s.summaries
           /\ (s.summaries[k].tag = tag \/ s.summaries[k].name = tag)
<1> DEFINE x == s.summaries
           I == {i \in 1 .. Len(x) : x[i].tag = tag}
           J == {i \in 1 .. Len(x) : x[i].name \in {tag, unnamed}}
           byTag  == IF I # {} THEN Min(I) ELSE 0
           byName == IF J # {} THEN Min(J) ELSE 0
           k == get_summary(s, tag)
<1>1. DOMAIN x = 1 .. Len(x) /\ Len(x) \in Nat
  BY LenProperties DEF IsSeq
<1>2. k = CASE byTag # 0 -> byTag
            [] byTag = 0 /\ byName # 0 -> IF x[byName].name = unnamed THEN 0 ELSE byName
            [] OTHER -> 0
  BY DEF get_summary, SelectInSeq
<1>3. byTag = 0 \/ byTag \in I
  <2>1. I \in SUBSET Nat
    BY <1>1
  <2> HIDE DEF I
  <2>2. QED
    BY <2>1, MinIsLeast
<1>4. byName = 0 \/ byName \in J
  <2>1. J \in SUBSET Nat
    BY <1>1
  <2> HIDE DEF J
  <2>2. QED
    BY <2>1, MinIsLeast
<1>5. \/ k = byTag /\ byTag # 0
      \/ k = byName /\ byName # 0 /\ x[byName].name # unnamed
  <2> HIDE DEF k, byTag, byName, x
  <2>1. k # 0
    BY DEF k
  <2>2. QED
    BY <1>2, <2>1
<1> HIDE DEF k, byTag, byName
<1>6. k \in DOMAIN x /\ (x[k].tag = tag \/ x[k].name = tag)
  BY <1>1, <1>3, <1>4, <1>5
<1>7. QED
  BY <1>6 DEF k, x

\* The value found for the cold measurement is a number.
LEMMA FoundCold ==
  ASSUME NEW s, Matched(s), get_summary(s, COLD) # 0
  PROVE  SummaryValue(s, COLD) \in Nat
BY Found DEF Matched, Distinct, SummaryValue, COLD

\* Only the summaries and the timeout matter to the property.
LEMMA MatchesOf ==
  ASSUME NEW s, IsState(s), NEW r, IsState(r), NEW i,
         r.set.timeout = s.set.timeout,
         r.summaries[i] = s.summaries[i],
         r.summaries[i].tag = "nv/batch/sample_size" => r.summaries[i + 2] = s.summaries[i + 2],
         SubSeq(r.summaries, 1, i - 1) = SubSeq(s.summaries, 1, i - 1), Matches(s, i)
  PROVE  Matches(r, i)
<1> DEFINE bs == [s EXCEPT !.summaries = SubSeq(@, 1, i - 1)]
           br == [r EXCEPT !.summaries = SubSeq(@, 1, i - 1)]
<1>1. bs.summaries = br.summaries
  BY DEF IsState, StateFields
<1> HIDE DEF bs, br
<1>2. get_summary(br, COLD) = get_summary(bs, COLD)
      /\ SummaryValue(br, COLD) = SummaryValue(bs, COLD)
  BY <1>1, LookUp
<1>3. (s.summaries[i].tag = BATCH /\ get_summary(bs, COLD) # 0)
        => \/ s.summaries[i].value > SummaryValue(bs, COLD)
           \/ s.summaries[i + 2].value > s.set.timeout
  BY DEF Matches, bs, COLD, BATCH
<1>4. (r.summaries[i].tag = BATCH /\ get_summary(br, COLD) # 0)
        => \/ r.summaries[i].value > SummaryValue(br, COLD)
           \/ r.summaries[i + 2].value > r.set.timeout
  BY <1>2, <1>3 DEF BATCH
<1>5. QED
  BY <1>4 DEF Matches, br, COLD, BATCH

\* A state with the same summaries and the same timeout.
LEMMA MatchedOf ==
  ASSUME NEW s, IsState(s), Matched(s), NEW r, IsState(r),
         r.summaries = s.summaries, r.set.timeout = s.set.timeout
  PROVE  Matched(r)
BY MatchesOf DEF Matched

\* Other summaries are added.
LEMMA ForeignKeepsMatched ==
  ASSUME NEW s, IsState(s), Matched(s), NEW new, IsSeq(new),
         \A i \in DOMAIN new : Distinct(new[i]) /\ new[i].tag # BATCH
  PROVE  Matched(add_summaries(s, new))
<1> DEFINE r == add_summaries(s, new)
           x == s.summaries
           y == r.summaries
<1>1. IsState(r) /\ r.set = s.set /\ y = x \o new /\ IsSeq(x)
  <2>1. IsState(r) /\ r.set = s.set
    BY SummariesKeepSettings DEF SameSettings
  <2>2. y = x \o new
    BY DEF add_summaries, IsState, StateFields
  <2>3. QED
    BY <2>1, <2>2 DEF Matched
<1> HIDE DEF r
<1>2. /\ IsSeq(y) /\ Len(x) \in Nat /\ Len(new) \in Nat
      /\ DOMAIN x = 1 .. Len(x) /\ DOMAIN new = 1 .. Len(new)
      /\ DOMAIN y = 1 .. Len(x) + Len(new)
      /\ \A i \in DOMAIN x : y[i] = x[i]
      /\ \A i \in DOMAIN new : y[Len(x) + i] = new[i]
      /\ \A i \in 1 .. Len(x) + 1 : SubSeq(y, 1, i - 1) = SubSeq(x, 1, i - 1)
  <2> HIDE DEF x, y
  <2>1. IsSeq(x) /\ IsSeq(new) /\ Joined(y, x, new)
    BY <1>1 DEF Joined
  <2>2. QED
    BY <2>1, PrefixStays
<1>3. ASSUME NEW i \in DOMAIN y
      PROVE  /\ Distinct(y[i]) /\ Matches(r, i)
             /\ y[i].tag = BATCH => i + 2 \in DOMAIN y
  <2>1. CASE i \in DOMAIN x
    <3>1. /\ Distinct(x[i]) /\ Matches(s, i)
          /\ x[i].tag = BATCH => i + 2 \in DOMAIN x
      BY <2>1 DEF Matched, BATCH
    <3>2. y[i] = x[i] /\ SubSeq(y, 1, i - 1) = SubSeq(x, 1, i - 1)
      BY <1>2, <2>1
    <3>3. x[i].tag = BATCH => y[i + 2] = x[i + 2] /\ i + 2 \in DOMAIN y
      BY <1>2, <3>1
    <3>4. Matches(r, i)
      BY <1>1, <3>1, <3>2, <3>3, MatchesOf DEF BATCH
    <3>5. QED
      BY <3>1, <3>2, <3>3, <3>4
  <2>2. CASE i \notin DOMAIN x
    <3>1. i - Len(x) \in DOMAIN new /\ Len(x) + (i - Len(x)) = i
      BY <1>2, <2>2
    <3>2. y[i] = new[i - Len(x)]
      BY <1>2, <3>1
    <3>3. Distinct(y[i]) /\ y[i].tag # BATCH
      BY <3>1, <3>2
    <3>4. QED
      BY <3>3 DEF Matches, BATCH
  <2>3. QED
    BY <2>1, <2>2
<1>4. QED
  BY <1>2, <1>3 DEF Matched, r, BATCH

\* One summary more.
LEMMA OneMoreSummary ==
  ASSUME NEW s, IsState(s), Matched(s), NEW x, Distinct(x), x.tag # BATCH
  PROVE  Matched(add_summary(s, x))
<1>1. IsSeq(<<x>>)
  <2>1. <<x>> \in Seq({x})
    OBVIOUS
  <2>2. QED
    BY <2>1 DEF IsSeq
<1>2. \A i \in DOMAIN <<x>> : <<x>>[i] = x
  OBVIOUS
<1>3. QED
  BY <1>1, <1>2, ForeignKeepsMatched DEF add_summary

\* What the generator adds.
LEMMA CountsKeepMatched ==
  ASSUME NEW s, IsState(s), Matched(s)
  PROVE  Matched(add_global_memory(add_element_count(s, 1, unnamed), 1, "reads", "a"))
<1> DEFINE r == add_element_count(s, 1, unnamed)
           q == [r EXCEPT !.global_memory_rw_bytes = @ + 1]
           name == IF "a" = unnamed THEN "None" ELSE "a"
           x == Summary(gmem_tag("reads", "a"), name, 1)
<1>1. IsState(r) /\ r.set = s.set
  BY CountsKeepSettings DEF SameSettings
<1>2. r.summaries = s.summaries
  BY DEF add_element_count, IsState, StateFields
<1>3. Matched(r)
  BY <1>1, <1>2, MatchedOf
<1> HIDE DEF r
<1>4. IsState(q) /\ q.set = r.set /\ q.summaries = r.summaries
  BY <1>1 DEF IsState, StateFields
<1>5. Matched(q)
  BY <1>1, <1>3, <1>4, MatchedOf
<1> HIDE DEF q
<1>6. Distinct(x) /\ x.tag # BATCH
  <2>1. name # COLD
    BY DEF COLD
  <2> HIDE DEF name
  <2>2. QED
    BY <2>1, TagAssumption DEF Summary, Distinct, COLD, BATCH
<1> HIDE DEF x
<1>7. Matched(add_summary(q, x))
  BY <1>4, <1>5, <1>6, OneMoreSummary
<1>8. add_global_memory(r, 1, "reads", "a") \in {q, add_summary(q, x)}
  BY DEF add_global_memory, add_buffer_size, q, x, name
<1>9. QED
  BY <1>5, <1>7, <1>8 DEF r

\* The isolated measurement.
LEMMA ColdKeepsMatched ==
  ASSUME NEW s, IsState(s), Matched(s), NEW n \in Nat
  PROVE  Matched(ColdSummaries(s, n))
<1> DEFINE x1 == Summary("nv/cold/sample_size", "Samples", n)
           x2 == Summary("nv/cold/time/gpu/mean", "GPU Time", "time")
           x3 == Summary("nv/cold/walltime", "Walltime", "time")
           new == <<x1, x2, x3>>
<1>1. /\ Distinct(x1) /\ Distinct(x2) /\ Distinct(x3)
      /\ x1.tag # BATCH /\ x2.tag # BATCH /\ x3.tag # BATCH
  BY DEF Summary, Distinct, BATCH
<1> HIDE DEF x1, x2, x3
<1>2. IsSeq(new)
  <2>1. new \in Seq({x1, x2, x3})
    OBVIOUS
  <2>2. QED
    BY <2>1 DEF IsSeq
<1>3. \A i \in DOMAIN new : Distinct(new[i]) /\ new[i].tag # BATCH
  BY <1>1
<1> HIDE DEF new
<1>4. QED
  BY <1>2, <1>3, ForeignKeepsMatched DEF ColdSummaries, new, x1, x2, x3

\* Summaries of other measurements than the two.
Others(new) == IsSeq(new) /\ \A i \in DOMAIN new : Distinct(new[i]) /\ new[i].tag # BATCH

LEMMA OthersConcat ==
  ASSUME NEW a, Others(a), NEW b, Others(b)
  PROVE  Others(a \o b)
<1> DEFINE c == a \o b
<1>1. Joined(c, a, b)
  BY DEF Joined
<1> HIDE DEF c
<1>2. /\ IsSeq(c) /\ Len(a) \in Nat /\ Len(b) \in Nat
      /\ DOMAIN a = 1 .. Len(a) /\ DOMAIN b = 1 .. Len(b)
      /\ DOMAIN c = 1 .. Len(a) + Len(b)
      /\ \A i \in DOMAIN a : c[i] = a[i]
      /\ \A i \in DOMAIN b : c[Len(a) + i] = b[i]
  BY <1>1, PrefixStays DEF Others
<1>3. ASSUME NEW i \in DOMAIN c PROVE Distinct(c[i]) /\ c[i].tag # BATCH
  <2>1. CASE i \in DOMAIN a
    BY <1>2, <2>1 DEF Others
  <2>2. CASE i \notin DOMAIN a
    <3>1. i - Len(a) \in DOMAIN b /\ Len(a) + (i - Len(a)) = i
      BY <1>2, <2>2
    <3>2. c[i] = b[i - Len(a)]
      BY <1>2, <3>1
    <3>3. QED
      BY <3>1, <3>2 DEF Others
  <2>3. QED
    BY <2>1, <2>2
<1>4. QED
  BY <1>2, <1>3 DEF Others, c

LEMMA OneOther ==
  ASSUME NEW x, Distinct(x), x.tag # BATCH
  PROVE  Others(<<x>>)
<1>1. <<x>> \in Seq({x})
  OBVIOUS
<1>2. \A i \in DOMAIN <<x>> : <<x>>[i] = x
  OBVIOUS
<1>3. QED
  BY <1>1, <1>2 DEF Others, IsSeq

\* The CPU-only measurement.
LEMMA CpuKeepsMatched ==
  ASSUME NEW s, IsState(s), Matched(s)
  PROVE  Matched(CpuSummaries(s))
<1> DEFINE x1 == Summary("nv/cpu_only/sample_size", "Samples", cpu.total_samples)
           x2 == Summary("nv/cpu_only/time/cpu/min", "Min CPU Time", "time")
           x3 == Summary("nv/cpu_only/time/cpu/max", "Max CPU Time", "time")
           x4 == Summary("nv/cpu_only/time/cpu/mean", "CPU Time", "time")
           x5 == Summary("nv/cpu_only/time/cpu/stdev/absolute", "Noise", "time")
           x6 == Summary("nv/cpu_only/time/cpu/stdev/relative", "Noise", "ratio")
           y1 == Summary("nv/cpu_only/bw/item_rate", "Elem/s", s.element_count)
           y2 == Summary("nv/cpu_only/bw/global/bytes_per_second", "GlobalMem BW",
                         s.global_memory_rw_bytes)
           x7 == Summary("nv/cpu_only/walltime", "Walltime", cpu.walltime)
           first == <<x1, x2, x3, x4, x5, x6>>
           items == IF s.element_count # 0 THEN <<y1>> ELSE <<>>
           bytes == IF s.global_memory_rw_bytes # 0 THEN <<y2>> ELSE <<>>
           rates == items \o bytes
           new   == first \o rates \o <<x7>>
<1>1. \A x \in {x1, x2, x3, x4, x5, x6, y1, y2, x7} : Distinct(x) /\ x.tag # BATCH
  <2>1. /\ Distinct(x1) /\ Distinct(x2) /\ Distinct(x3) /\ Distinct(x4) /\ Distinct(x5)
        /\ Distinct(x6) /\ Distinct(y1) /\ Distinct(y2) /\ Distinct(x7)
    BY DEF Summary, Distinct
  <2>2. /\ x1.tag # BATCH /\ x2.tag # BATCH /\ x3.tag # BATCH /\ x4.tag # BATCH
        /\ x5.tag # BATCH /\ x6.tag # BATCH /\ y1.tag # BATCH /\ y2.tag # BATCH
        /\ x7.tag # BATCH
    BY DEF Summary, BATCH
  <2> HIDE DEF x1, x2, x3, x4, x5, x6, y1, y2, x7
  <2>3. QED
    BY <2>1, <2>2
<1>2. CpuSummaries(s) = add_summaries(s, new)
  BY DEF CpuSummaries
<1> HIDE DEF x1, x2, x3, x4, x5, x6, y1, y2, x7
<1>3. Others(first)
  <2>1. first \in Seq({x1, x2, x3, x4, x5, x6})
    OBVIOUS
  <2>2. \A i \in DOMAIN first : first[i] \in {x1, x2, x3, x4, x5, x6}
    OBVIOUS
  <2> HIDE DEF first
  <2>3. QED
    BY <1>1, <2>1, <2>2 DEF Others, IsSeq
<1>4. Others(<<>>)
  <2>1. <<>> \in Seq({})
    OBVIOUS
  <2>2. QED
    BY <2>1 DEF Others, IsSeq
<1>5. Others(<<y1>>) /\ Others(<<y2>>) /\ Others(<<x7>>)
  BY <1>1, OneOther
<1>6. Others(items) /\ Others(bytes)
  BY <1>4, <1>5
<1> HIDE DEF first, items, bytes
<1>7. Others(rates)
  BY <1>6, OthersConcat
<1> HIDE DEF rates
<1>8. Others(first \o rates)
  BY <1>3, <1>7, OthersConcat
<1>9. Others(new)
  BY <1>5, <1>8, OthersConcat
<1> HIDE DEF new
<1>10. QED
  BY <1>2, <1>9, ForeignKeepsMatched DEF Others

\* The numbers of the collected metrics.
LEMMA IdsAre ==
  ASSUME NEW s
  PROVE  ids(s) = FlattenSeq([m \in DOMAIN Metrics |->
                                IF Metrics[m] \in s.collected THEN <<m>> ELSE <<>>])
<1> DEFINE D == DOMAIN Metrics
<1>1. \A m \in D : [j \in D |-> j][m] = m
  OBVIOUS
<1>2. ids(s) = FlattenSeq([m \in D |-> IF Metrics[m] \in s.collected
                                       THEN <<[j \in D |-> j][m]>> ELSE <<>>])
  BY DEF ids, PerMetric
<1>3. [m \in D |-> IF Metrics[m] \in s.collected THEN <<[j \in D |-> j][m]>> ELSE <<>>]
        = [m \in D |-> IF Metrics[m] \in s.collected THEN <<m>> ELSE <<>>]
  BY <1>1
<1>4. QED
  BY <1>2, <1>3

LEMMA IdsType ==
  ASSUME NEW s
  PROVE  ids(s) \in Seq(DOMAIN Metrics)
<1> DEFINE D == DOMAIN Metrics
           of(m) == IF Metrics[m] \in s.collected THEN <<m>> ELSE <<>>
           all == [m \in D |-> of(m)]
<1>1. \E n \in Nat : D = 1 .. n
  <2>1. DOMAIN Metrics = 1 .. Len(Metrics) /\ Len(Metrics) \in Nat
    BY DEF Metrics
  <2>2. QED
    BY <2>1
<1>2. ASSUME NEW m \in D PROVE of(m) \in Seq(D)
  <2> HIDE DEF D
  <2>1. <<m>> \in Seq(D) /\ <<>> \in Seq(D)
    OBVIOUS
  <2>2. QED
    BY <2>1
<1>3. ids(s) = FlattenSeq(all)
  BY IdsAre
<1> HIDE DEF of, D
<1>4. all \in Seq(Seq(D))
  BY <1>1, <1>2
<1>5. FlattenSeq(all) \in Seq(D)
  BY <1>4, FlattenType
<1>6. QED
  BY <1>3, <1>5 DEF D

\* The profiled measurement.
LEMMA CuptiKeepsMatched ==
  ASSUME NEW s, IsState(s), Matched(s)
  PROVE  Matched(generate_cupti_summaries(s))
<1> DEFINE result == add_metrics(s)
           of(k) == Summary(cupti_tag(Metrics[ids(s)[k]]), Metrics[ids(s)[k]], result[k])
           new == [k \in DOMAIN ids(s) |-> of(k)]
           r == add_summaries(s, new)
           x1 == Summary("nv/cupti/sample_size", "Samples", samples)
           x2 == Summary("nv/cupti/walltime", "Walltime", "time")
<1>1. generate_cupti_summaries(s) = add_summary(add_summary(r, x1), x2)
  BY DEF generate_cupti_summaries, gen_summaries
<1>2. Others(new)
  <2>1. \E n \in Nat : DOMAIN ids(s) = 1 .. n
    <3>1. Len(ids(s)) \in Nat /\ DOMAIN ids(s) = 1 .. Len(ids(s))
      BY IdsType, LenProperties
    <3>2. QED
      BY <3>1
  <2>2. new \in Seq({of(k) : k \in DOMAIN ids(s)})
    <3> HIDE DEF of
    <3>1. QED
      BY <2>1
  <2>3. ASSUME NEW k \in DOMAIN ids(s) PROVE Distinct(of(k)) /\ of(k).tag # BATCH
    <3>1. ids(s)[k] \in DOMAIN Metrics
      BY IdsType
    <3> DEFINE m == Metrics[ids(s)[k]]
    <3>2. m \in ToSet(Metrics)
      BY <3>1 DEF ToSet
    <3>3. m # COLD
      <4>1. \A i \in DOMAIN Metrics : Metrics[i] # COLD
        BY DEF Metrics, COLD
      <4>2. QED
        BY <3>1, <4>1
    <3> HIDE DEF m, result
    <3>4. of(k) = Summary(cupti_tag(m), m, result[k])
      BY DEF m
    <3> HIDE DEF of
    <3>5. cupti_tag(m) \notin {COLD, BATCH}
      BY <3>2, TagAssumption DEF COLD, BATCH
    <3>6. QED
      BY <3>3, <3>4, <3>5 DEF Summary, Distinct, COLD, BATCH
  <2> HIDE DEF of
  <2>4. \A i \in DOMAIN new : new[i] = of(i) /\ i \in DOMAIN ids(s)
    OBVIOUS
  <2>5. QED
    BY <2>2, <2>3, <2>4 DEF Others, IsSeq
<1> HIDE DEF new
<1>3. IsState(r) /\ Matched(r)
  BY <1>2, ForeignKeepsMatched, SummariesKeepSettings DEF Others, SameSettings
<1> HIDE DEF r
<1>4. Distinct(x1) /\ x1.tag # BATCH /\ Distinct(x2) /\ x2.tag # BATCH
  BY DEF Summary, Distinct, BATCH
<1> HIDE DEF x1, x2
<1>5. IsState(add_summary(r, x1)) /\ Matched(add_summary(r, x1))
  BY <1>3, <1>4, OneMoreSummary, SummariesKeepSettings DEF SameSettings
<1>6. QED
  BY <1>1, <1>4, <1>5, OneMoreSummary

\* What a batched measurement in progress owes to an isolated one before it.
HotWaits(s) ==
  /\ hot.timeout = s.set.timeout
  /\ get_summary(s, COLD) # 0 =>
       hot.min_samples \in Int /\ hot.min_samples >= SummaryValue(s, COLD)
  /\ hot.at = "summaries" =>
       hot.total_samples > hot.min_samples \/ hot.walltime > hot.timeout

LEMMA HotKeepsMatched ==
  ASSUME NEW s, IsState(s), Matched(s), HotWaits(s), hot.at = "summaries",
         hot.total_samples \in Nat
  PROVE  Matched(HotSummaries(s))
<1> DEFINE x1 == Summary("nv/batch/sample_size", "Samples", hot.total_samples)
           x2 == Summary("nv/batch/time/gpu/mean", "Batch GPU",
                         <<hot.total_cuda_time, hot.total_samples>>)
           x3 == Summary("nv/batch/walltime", "Walltime", hot.walltime)
           new == <<x1, x2, x3>>
           r == add_summaries(s, new)
           x == s.summaries
           y == r.summaries
<1>1. r = HotSummaries(s)
  BY DEF HotSummaries
<1>2. /\ \A z \in {x1, x2, x3} : Distinct(z)
      /\ x1.tag = BATCH /\ x2.tag # BATCH /\ x3.tag # BATCH
      /\ x1.value = hot.total_samples /\ x3.value = hot.walltime
  BY DEF Summary, Distinct, BATCH
<1> HIDE DEF x1, x2, x3
<1>3. /\ IsSeq(new) /\ Len(new) = 3 /\ DOMAIN new = 1 .. 3
      /\ new[1] = x1 /\ new[2] = x2 /\ new[3] = x3
  <2>1. new \in Seq({x1, x2, x3})
    OBVIOUS
  <2>2. IsSeq(new)
    BY <2>1 DEF IsSeq
  <2>3. Len(new) = 3 /\ DOMAIN new = 1 .. 3
    OBVIOUS
  <2>4. new[1] = x1 /\ new[2] = x2 /\ new[3] = x3
    OBVIOUS
  <2>5. QED
    BY <2>2, <2>3, <2>4
<1>4. IsState(r) /\ r.set = s.set /\ Joined(y, x, new) /\ IsSeq(x)
  <2>1. IsState(r) /\ r.set = s.set
    BY SummariesKeepSettings DEF SameSettings
  <2>2. y = x \o new
    BY DEF add_summaries, IsState, StateFields
  <2>3. QED
    BY <2>1, <2>2 DEF Matched, Joined
<1> HIDE DEF r, new
<1>5. /\ IsSeq(y) /\ Len(x) \in Nat
      /\ DOMAIN x = 1 .. Len(x) /\ DOMAIN y = 1 .. Len(x) + 3
      /\ \A i \in DOMAIN x : y[i] = x[i]
      /\ \A i \in 1 .. 3 : y[Len(x) + i] = new[i]
      /\ \A i \in 1 .. Len(x) + 1 : SubSeq(y, 1, i - 1) = SubSeq(x, 1, i - 1)
  <2> HIDE DEF x, y
  <2>1. /\ IsSeq(y) /\ Len(x) \in Nat
        /\ DOMAIN x = 1 .. Len(x) /\ DOMAIN y = 1 .. Len(x) + Len(new)
        /\ \A i \in DOMAIN x : y[i] = x[i]
        /\ \A i \in DOMAIN new : y[Len(x) + i] = new[i]
        /\ \A i \in 1 .. Len(x) + 1 : SubSeq(y, 1, i - 1) = SubSeq(x, 1, i - 1)
    <3>1. IsSeq(x) /\ IsSeq(new) /\ Joined(y, x, new)
      BY <1>3, <1>4
    <3>2. QED
      BY <3>1, PrefixStays
  <2>2. QED
    BY <1>3, <2>1
<1> DEFINE n == Len(x) + 1
<1>6. y[n] = x1 /\ y[n + 1] = x2 /\ y[n + 2] = x3
  <2>1. 1 \in 1 .. 3 /\ 2 \in 1 .. 3 /\ 3 \in 1 .. 3
    OBVIOUS
  <2>2. n = Len(x) + 1 /\ n + 1 = Len(x) + 2 /\ n + 2 = Len(x) + 3
    BY <1>5
  <2>3. QED
    BY <1>3, <1>5, <2>1, <2>2
<1>7. Matches(r, n)
  <2> DEFINE before == [r EXCEPT !.summaries = SubSeq(@, 1, n - 1)]
  <2>1. before.summaries = x
    <3>1. before.summaries = SubSeq(y, 1, n - 1)
      BY <1>4 DEF IsState, StateFields
    <3>2. n \in 1 .. Len(x) + 1
      BY <1>5
    <3>3. SubSeq(y, 1, n - 1) = SubSeq(x, 1, n - 1)
      BY <1>5, <3>2
    <3>4. SubSeq(x, 1, n - 1) = x
      <4>1. PICK S : x \in Seq(S)
        BY <1>4 DEF IsSeq
      <4>2. n - 1 = Len(x)
        BY <1>5
      <4> HIDE DEF x, n
      <4>3. x = [j \in 1 .. Len(x) |-> x[j]] /\ SubSeq(x, 1, Len(x)) = [j \in 1 .. Len(x) |-> x[j]]
        BY <4>1
      <4>4. QED
        BY <4>2, <4>3
    <3>5. QED
      BY <3>1, <3>3, <3>4
  <2> HIDE DEF before
  <2>2. get_summary(before, COLD) = get_summary(s, COLD)
        /\ SummaryValue(before, COLD) = SummaryValue(s, COLD)
    BY <2>1, LookUp
  <2>3. get_summary(before, COLD) # 0 =>
          \/ y[n].value > SummaryValue(before, COLD)
          \/ y[n + 2].value > r.set.timeout
    <3> SUFFICES ASSUME get_summary(s, COLD) # 0
                 PROVE  hot.total_samples > SummaryValue(s, COLD) \/ hot.walltime > s.set.timeout
      BY <1>2, <1>4, <1>6, <2>2
    <3>1. SummaryValue(s, COLD) \in Nat
      BY FoundCold
    <3>2. QED
      BY <3>1 DEF HotWaits
  <2>4. QED
    BY <2>3 DEF Matches, before, COLD
<1>8. ASSUME NEW i \in DOMAIN y
      PROVE  /\ Distinct(y[i]) /\ Matches(r, i)
             /\ y[i].tag = BATCH => i + 2 \in DOMAIN y
  <2>1. CASE i \in DOMAIN x
    <3>1. /\ Distinct(x[i]) /\ Matches(s, i)
          /\ x[i].tag = BATCH => i + 2 \in DOMAIN x
      BY <2>1 DEF Matched, BATCH
    <3>2. y[i] = x[i] /\ SubSeq(y, 1, i - 1) = SubSeq(x, 1, i - 1)
      <4> HIDE DEF x, y
      <4>1. i \in 1 .. Len(x) + 1
        BY <1>5, <2>1
      <4>2. QED
        BY <1>5, <2>1, <4>1
    <3>3. x[i].tag = BATCH => y[i + 2] = x[i + 2] /\ i + 2 \in DOMAIN y
      BY <1>5, <3>1
    <3>4. Matches(r, i)
      BY <1>4, <3>1, <3>2, <3>3, MatchesOf DEF BATCH
    <3>5. QED
      BY <3>1, <3>2, <3>3, <3>4
  <2>2. CASE i = n
    <3>1. i + 2 \in DOMAIN y
      BY <1>5, <2>2
    <3>2. QED
      BY <1>2, <1>6, <1>7, <2>2, <3>1
  <2>3. CASE i = n + 1 \/ i = n + 2
    <3>1. Distinct(y[i]) /\ y[i].tag # BATCH
      BY <1>2, <1>6, <2>3
    <3>2. QED
      BY <3>1 DEF Matches, BATCH
  <2>4. QED
    BY <1>5, <2>1, <2>2, <2>3
<1>9. QED
  BY <1>1, <1>5, <1>8 DEF Matched, BATCH

MatchInv == Matched(st) /\ (hot.at # "none" => HotWaits(st))

\* The constructor looks up the samples of the isolated measurement.
LEMMA ConstructWaits ==
  ASSUME TypeInv, Matched(st), hot' = HotParameters(st), st' = st
  PROVE  HotWaits(st)'
<1> DEFINE cold == get_summary(st, COLD) # 0
           found == SummaryValue(st, COLD)
           wait == IF cold THEN Greatest(st.set.min_samples, found) ELSE st.set.min_samples
<1>1. /\ hot'.at = "check" /\ hot'.timeout = st.set.timeout /\ hot'.min_samples = wait
  <2> DEFINE skips == IF cold THEN -1 ELSE st.set.skip_time
             least == IF cold THEN st.set.min_time
                      ELSE Least((st.set.min_time + st.set.timeout) \div 2, 5 * st.set.min_time)
  <2>1. hot' = [HotIdle EXCEPT !.at = "check", !.timeout = st.set.timeout,
                 !.min_samples = wait, !.skip_time = skips, !.min_time = least]
    BY DEF HotParameters, COLD
  <2> HIDE DEF wait, skips, least
  <2>2. QED
    BY <2>1 DEF HotIdle
<1>2. cold => found \in Nat
  BY FoundCold
<1>3. st.set.min_samples \in Nat
  BY DEF TypeInv, Typed
<1>4. cold => wait \in Int /\ wait >= found
  BY <1>2, <1>3 DEF Greatest
<1> HIDE DEF wait
<1>5. QED
  BY <1>1, <1>4 DEF HotWaits

\* A step of the batched measurement leaves its thresholds alone, and its loop
\* ends with enough samples or after the timeout.
LEMMA HotStepWaits ==
  ASSUME TypeInv, HotWaits(st), HotSteps, HotShape
  PROVE  HotWaits(st)'
<1> USE DEF HotShape, HotIdle
<1>1. st' = st
  BY HotStepStays
<1>2. SUFFICES hot'.timeout = hot.timeout /\ hot'.min_samples = hot.min_samples
               /\ (hot'.at = "summaries" =>
                     hot'.total_samples > hot'.min_samples \/ hot'.walltime > hot'.timeout)
  BY <1>1 DEF HotWaits
<1>3. CASE HotCheck
  BY <1>3 DEF HotCheck
<1>4. CASE HotStart
  BY <1>4 DEF HotStart
<1>5. CASE HotLaunch
  BY <1>5 DEF HotLaunch
<1>6. CASE HotUnblock
  BY <1>6 DEF HotUnblock
<1>7. CASE \E d \in Durations : HotWarmupStop(d)
  BY <1>7 DEF HotWarmupStop
<1>8. CASE \E d \in Durations : HotBatchStop(d)
  <2>1. PICK d \in Durations : HotBatchStop(d)
    BY <1>8
  <2> DEFINE time   == hot.total_cuda_time + d
             count  == hot.total_samples + hot.batch_size
             wall   == hot.walltime + d + 1
             enough == time > hot.min_time /\ count > hot.min_samples
             late   == ~enough /\ wall > hot.timeout
             rest   == Remaining(hot.min_time, time, count)
  <2>2. hot' = [hot EXCEPT !.total_cuda_time = time, !.total_samples = count,
                        !.batch_size = rest,
                        !.walltime = wall, !.timed_out = late,
                        !.at = IF enough \/ late THEN "summaries" ELSE "batch"]
    BY <2>1 DEF HotBatchStop
  <2>3. (enough => count > hot.min_samples) /\ (late => wall > hot.timeout)
    OBVIOUS
  <2> HIDE DEF time, count, wall, enough, late, rest
  <2>4. QED
    BY <2>2, <2>3
<1>9. QED
  BY <1>3, <1>4, <1>5, <1>6, <1>7, <1>8 DEF HotSteps

\* The timeout of the settings never changes.
LEMMA SameMatched ==
  ASSUME NEW s, IsState(s), Matched(s), NEW r, IsState(r), r.set = s.set,
         r.summaries = s.summaries
  PROVE  Matched(r)
BY MatchedOf

\* An exception adds no summary.
LEMMA CaughtMatched ==
  ASSUME NEW s, IsState(s), Matched(s), Caught(s)
  PROVE  Matched(st')
<1> DEFINE r == skip(s, "unexpected error")
<1>1. IsState(r) /\ r.set = s.set /\ r.summaries = s.summaries
  BY DEF skip, IsState, StateFields
<1>2. Matched(r)
  BY <1>1, SameMatched
<1> HIDE DEF r
<1>3. st' = s \/ st' = r
  <2>1. st' = IF s.skip_reason # "" THEN s ELSE r
    BY DEF Caught, r
  <2>2. QED
    BY <2>1, Zenon
<1>4. QED
  BY <1>2, <1>3

LEMMA RaiseMatched ==
  ASSUME NEW s, IsState(s), Matched(s), Raise(s)
  PROVE  MatchInv'
<1>1. Matched(st') /\ hot'.at = "none"
  BY CaughtMatched DEF Raise, HotIdle
<1>2. QED
  BY <1>1 DEF MatchInv

\* A state starts without summaries.
LEMMA NewStateMatched ==
  ASSUME NEW bench
  PROVE  Matched(NewState(bench))
<1>1. NewState(bench).summaries = <<>>
  BY DEF NewState
<1>2. NewState(bench).summaries \in Seq({}) /\ DOMAIN NewState(bench).summaries = {}
  BY <1>1
<1>3. QED
  BY <1>2 DEF Matched, IsSeq

LEMMA StepKeepsMatch ==
  ASSUME ExecInv, EndedOwesNothing, TypeInv, MatchInv, [Next]_vars
  PROVE  MatchInv'
<1> USE DEF unbound, control, measuring
<1>0. IsState(st) /\ Matched(st)
  BY DEF ExecInv, StateShape, MatchInv
<1>1. CASE Construct
  <2>1. st' = st /\ ~started
    BY <1>1 DEF Construct
  <2>2. hot.at = "none"
    BY <2>1, IdleIsUnblocked
  <2>3. CASE hot' = HotParameters(st)
    <3>1. HotWaits(st)'
      BY <1>0, <2>1, <2>3, ConstructWaits
    <3>2. QED
      BY <1>0, <2>1, <3>1 DEF MatchInv
  <2>4. CASE hot' = hot
    BY <1>0, <2>1, <2>2, <2>4 DEF MatchInv
  <2>5. QED
    BY <1>1, <2>3, <2>4 DEF Construct
<1>2. CASE \E n \in ColdSamples : ColdFinish(n)
  <2>1. PICK n \in ColdSamples : ColdFinish(n)
    BY <1>2
  <2>2. n \in Nat
    BY ExecAssumption
  <2>3. Matched(st') /\ hot' = hot
    BY <1>0, <2>1, <2>2, ColdKeepsMatched DEF ColdFinish
  <2>4. hot.at = "none"
    BY <2>1 DEF ExecInv, HotHolds, ColdFinish, Measuring
  <2>5. QED
    BY <2>3, <2>4 DEF MatchInv
<1>3. CASE HotSteps
  <2>1. st' = st /\ HotShape
    BY <1>3, HotStepStays DEF ExecInv
  <2>2. hot.at # "none"
    BY <1>3
    DEF HotSteps, HotCheck, HotStart, HotLaunch, HotUnblock, HotWarmupStop, HotBatchStop
  <2>3. HotWaits(st)'
    BY <1>3, <2>1, <2>2, HotStepWaits DEF MatchInv
  <2>4. QED
    BY <1>0, <2>1, <2>3 DEF MatchInv
<1>4. CASE HotEnds
  <2>1. hot.at = "summaries" /\ st' = HotSummaries(st) /\ hot' = HotIdle
    BY <1>4 DEF HotEnds, HotFinish
  <2>2. hot.total_samples \in Nat /\ HotWaits(st)
    BY <2>1 DEF TypeInv, HotNumbers, HotTypeOK, MatchInv
  <2>3. Matched(st')
    BY <1>0, <2>1, <2>2, HotKeepsMatched
  <2>4. QED
    BY <2>1, <2>3 DEF MatchInv, HotIdle
<1>5. CASE CpuSteps
  <2>1. UNCHANGED <<st, hot>>
    BY <1>5 DEF CpuSteps, CpuInitialize, CpuWarmup, CpuTrial, CpuFinished
  <2>2. QED
    BY <2>1 DEF MatchInv, HotWaits
<1>6. CASE CpuEnds
  <2>1. st' = CpuSummaries(st) /\ hot' = hot
    BY <1>6 DEF CpuEnds, CpuFinish
  <2>2. hot.at = "none"
    BY <1>6 DEF ExecInv, HotHolds, CpuEnds, Measuring
  <2>3. QED
    BY <1>0, <2>1, <2>2, CpuKeepsMatched DEF MatchInv
<1>7. CASE CuptiSteps
  <2>1. UNCHANGED <<st, hot>>
    BY <1>7 DEF CuptiSteps
  <2>2. QED
    BY <2>1 DEF MatchInv, HotWaits
<1>8. CASE CuptiEnds
  <2>1. st' = generate_cupti_summaries(st) /\ hot' = hot
    BY <1>8 DEF CuptiEnds
  <2>2. hot.at = "none"
    BY <1>8 DEF ExecInv, HotHolds, CuptiEnds, Measuring
  <2>3. QED
    BY <1>0, <2>1, <2>2, CuptiKeepsMatched DEF MatchInv
<1>9. CASE ColdFails \/ HotFails \/ CpuFails
  <2> DEFINE r == skip(st, "skip_time")
  <2>1. IsState(r) /\ r.set = st.set /\ r.summaries = st.summaries
    BY <1>0 DEF skip, IsState, StateFields
  <2>2. Matched(r)
    BY <1>0, <2>1, SameMatched
  <2>3. Raise(st) \/ Raise(r)
    BY <1>9 DEF ColdFails, HotFails, CpuFails
  <2> HIDE DEF r
  <2>4. QED
    BY <1>0, <2>1, <2>2, <2>3, RaiseMatched
<1>10. CASE CuptiFails
  <2>1. CASE Raise(st)
    BY <1>0, <2>1, RaiseMatched
  <2>2. CASE UNCHANGED <<st, hot>>
    BY <2>2 DEF MatchInv, HotWaits
  <2>3. QED
    BY <1>10, <2>1, <2>2 DEF CuptiFails
<1>11. CASE CuptiTerminates
  <2>1. UNCHANGED <<st, hot>>
    BY <1>11 DEF CuptiTerminates
  <2>2. QED
    BY <2>1 DEF MatchInv, HotWaits
<1>12. CASE Generator
  <2>1. hot' = hot /\ Generating
    BY <1>12 DEF Generator, GeneratorSkips, GeneratorThrows, GeneratorReturns, GeneratorAdds,
                 GeneratorCollects, GeneratorExecs, GeneratorCalls
  <2>2. hot.at = "none"
    BY <2>1 DEF ExecInv, HotHolds, Generating, Measuring
  <2>3. Matched(st')
    <3>1. CASE GeneratorSkips
      <4> DEFINE r == skip(st, "generator")
      <4>1. IsState(r) /\ r.set = st.set /\ r.summaries = st.summaries
        BY <1>0 DEF skip, IsState, StateFields
      <4> HIDE DEF r
      <4>2. QED
        BY <1>0, <3>1, <4>1, SameMatched DEF GeneratorSkips, r
    <3>2. CASE GeneratorThrows
      BY <1>0, <3>2, CaughtMatched DEF GeneratorThrows
    <3>3. CASE GeneratorReturns
      BY <1>0, <3>3 DEF GeneratorReturns
    <3>4. CASE GeneratorAdds("a")
      BY <1>0, <3>4, CountsKeepMatched DEF GeneratorAdds
    <3>5. CASE \E metrics \in Requests : GeneratorCollects(metrics)
      <4>1. PICK metrics \in Requests : GeneratorCollects(metrics)
        BY <3>5
      <4> DEFINE r == collect(st, metrics)
      <4>2. IsState(r) /\ r.set = st.set /\ r.summaries = st.summaries
        BY <1>0 DEF collect, IsState, StateFields
      <4> HIDE DEF r
      <4>3. QED
        BY <1>0, <4>1, <4>2, SameMatched DEF GeneratorCollects, r
    <3>6. CASE \E t \in TagSets : GeneratorExecs(t)
      <4>1. PICK t \in TagSets : GeneratorExecs(t)
        BY <3>6
      <4>2. CASE Mismatch(Selected(t), st)
        BY <1>0, <4>1, <4>2, CaughtMatched DEF GeneratorExecs
      <4>3. CASE ~Mismatch(Selected(t), st)
        <5> DEFINE r == synced(t, st)
        <5>1. IsState(r) /\ r.set.timeout = st.set.timeout /\ r.summaries = st.summaries
          BY <1>0 DEF synced, IsState, StateFields, Inherited
        <5>2. st' = r
          BY <4>1, <4>3 DEF GeneratorExecs
        <5> HIDE DEF r
        <5>3. QED
          BY <1>0, <5>1, <5>2, MatchedOf
      <4>4. QED
        BY <4>2, <4>3
    <3>7. QED
      BY <1>12, <3>1, <3>2, <3>3, <3>4, <3>5, <3>6 DEF Generator
  <2>4. QED
    BY <2>1, <2>2, <2>3 DEF MatchInv
<1>13. CASE UNCHANGED vars
  <2>1. UNCHANGED <<st, hot>>
    BY <1>13 DEF vars
  <2>2. QED
    BY <2>1 DEF MatchInv, HotWaits
<1>14. CASE NextState
  <2>1. PICK bench \in Benchmarks : st' = NewState(bench)
    BY <1>14 DEF NextState
  <2>2. Matched(st')
    BY <2>1, NewStateMatched
  <2>3. plan = <<>> /\ hot' = hot
    BY <1>14 DEF NextState, EndedOwesNothing
  <2>4. hot.at = "none"
    BY <2>3 DEF ExecInv, HotHolds, Measuring
  <2>5. QED
    BY <2>2, <2>3, <2>4 DEF MatchInv
<1>15. QED
  BY <1>1, <1>2, <1>3, <1>4, <1>5, <1>6, <1>7, <1>8, <1>9, <1>10, <1>11, <1>12, <1>13, <1>14
  DEF Next, Program, Failure

LEMMA InitMatch == Init => MatchInv
<1> SUFFICES ASSUME Init PROVE MatchInv
  OBVIOUS
<1>1. hot.at = "none"
  BY DEF Init, HotIdle
<1>2. Matched(st)
  BY NewStateMatched DEF Init
<1>3. QED
  BY <1>1, <1>2 DEF MatchInv

LEMMA MatchInvariant == Spec => []MatchInv
BY InitMatch, StepKeepsMatch, ExecInvariant, EndedInvariant, TypeInvariant, PTL DEF Spec

\* A batched measurement that follows an isolated one ends with more samples
\* than that one took or after the timeout, however often exec is called and
\* whatever else is reported in between (measure_hot.cuh).
THEOREM HotIsAsLongAsCold == Spec => []HotMatchesCold
<1>1. MatchInv => HotMatchesCold
  BY DEF MatchInv, Matched, Matches, HotMatchesCold
<1>2. QED
  BY <1>1, MatchInvariant, PTL

-----------------------------------------------------------------------------
(* The contract                                                            *)

\* Tags of the summaries that end a measurement.
Walltimes ==
  {"nv/cold/walltime", "nv/batch/walltime", "nv/cpu_only/walltime", "nv/cupti/walltime"}

\* The measurement a summary ends, if every metric has its own value.
Shown(x) ==
  CASE x.tag = "nv/cold/walltime"     -> <<"cold">>
    [] x.tag = "nv/batch/walltime"    -> <<"hot">>
    [] x.tag = "nv/cpu_only/walltime" -> <<"cpu_only">>
    [] x.tag = "nv/cupti/walltime"    -> <<"cupti">>
    [] OTHER -> <<>>

Kinds == {"cold", "hot", "cpu_only", "cupti"}

ShownIn(x) == FlattenSeq([i \in 1 .. Len(x) |-> Shown(x[i])])

\* A summary named like a metric has the value of that metric.
Truthful(x) == x.name \in ToSet(Metrics) => x.value = x.name

Honest(x) == IsSeq(x) /\ \A i \in DOMAIN x : Truthful(x[i])

\* Summaries that end no measurement.
Silent(x) == Honest(x) /\ \A i \in DOMAIN x : x[i].tag \notin Walltimes

LEMMA ShownType ==
  ASSUME NEW x
  PROVE  /\ Shown(x) \in Seq(Kinds)
         /\ x.tag \notin Walltimes => Shown(x) = <<>>
<1>1. /\ <<"cold">> \in Seq(Kinds) /\ <<"hot">> \in Seq(Kinds)
      /\ <<"cpu_only">> \in Seq(Kinds) /\ <<"cupti">> \in Seq(Kinds) /\ <<>> \in Seq(Kinds)
  BY DEF Kinds
<1>2. QED
  BY <1>1 DEF Shown, Walltimes

\* While every metric has its own value, nothing else is reported.
LEMMA ReportedIsShown ==
  ASSUME NEW s, Honest(s.summaries)
  PROVE  Reported(s) = ShownIn(s.summaries)
<1> DEFINE x == s.summaries
<1>1. DOMAIN x = 1 .. Len(x)
  BY LenProperties DEF Honest, IsSeq
<1>2. \A e \in ToSet(x) : e.name \in ToSet(Metrics) => e.value = e.name
  BY DEF Honest, Truthful, ToSet
<1>3. ASSUME NEW e PROVE ReportedAs(s, e) = Shown(e)
  BY <1>2 DEF ReportedAs, Shown
<1>4. [i \in DOMAIN x |-> ReportedAs(s, x[i])] = [i \in 1 .. Len(x) |-> Shown(x[i])]
  BY <1>1, <1>3
<1>5. QED
  BY <1>4 DEF Reported, ShownIn

\* What two sequences of summaries report.
LEMMA ShownConcat ==
  ASSUME NEW a, IsSeq(a), NEW b, IsSeq(b), NEW c, Joined(c, a, b)
  PROVE  /\ ShownIn(a) \in Seq(Kinds) /\ ShownIn(b) \in Seq(Kinds)
         /\ Joined(ShownIn(c), ShownIn(a), ShownIn(b))
<1> DEFINE of(x) == [i \in 1 .. Len(x) |-> Shown(x[i])]
           Q == Seq(Kinds)
<1>1. ASSUME NEW x, Len(x) \in Nat
      PROVE  /\ of(x) \in Seq(Q) /\ Len(of(x)) = Len(x)
             /\ \A i \in 1 .. Len(x) : of(x)[i] = Shown(x[i])
  <2>1. \A i \in 1 .. Len(x) : Shown(x[i]) \in Q
    BY ShownType
  <2> HIDE DEF Q
  <2>2. QED
    BY <1>1, <2>1
<1>2. /\ IsSeq(c) /\ Len(a) \in Nat /\ Len(b) \in Nat
      /\ DOMAIN a = 1 .. Len(a) /\ DOMAIN b = 1 .. Len(b)
      /\ DOMAIN c = 1 .. Len(a) + Len(b)
      /\ \A i \in DOMAIN a : c[i] = a[i]
      /\ \A i \in DOMAIN b : c[Len(a) + i] = b[i]
  BY PrefixStays
<1>3. Len(c) = Len(a) + Len(b)
  <2>1. Len(c) \in Nat /\ DOMAIN c = 1 .. Len(c)
    BY <1>2, LenProperties DEF IsSeq
  <2>2. QED
    BY <1>2, <2>1
<1> DEFINE fa == of(a)
           fb == of(b)
           fc == of(c)
<1>4. /\ fa \in Seq(Q) /\ Len(fa) = Len(a) /\ \A i \in 1 .. Len(a) : fa[i] = Shown(a[i])
      /\ fb \in Seq(Q) /\ Len(fb) = Len(b) /\ \A i \in 1 .. Len(b) : fb[i] = Shown(b[i])
  BY <1>1, <1>2
<1>5. /\ fc \in Seq(Q) /\ Len(fc) = Len(a) + Len(b)
      /\ \A i \in 1 .. Len(a) + Len(b) : fc[i] = Shown(c[i])
  <2>1. Len(c) \in Nat
    BY <1>2, <1>3
  <2>2. fc \in Seq(Q) /\ Len(fc) = Len(c) /\ \A i \in 1 .. Len(c) : fc[i] = Shown(c[i])
    BY <1>1, <2>1
  <2> HIDE DEF fc, Q
  <2>3. QED
    BY <1>3, <2>2
<1>6. ShownIn(a) = FlattenSeq(fa) /\ ShownIn(b) = FlattenSeq(fb) /\ ShownIn(c) = FlattenSeq(fc)
  BY DEF ShownIn
<1> HIDE DEF of, fa, fb, fc
<1>7. Joined(fc, fa, fb)
  <2> HIDE DEF Q
  <2>1. /\ \A i \in 1 .. Len(fa) : fc[i] = fa[i]
        /\ \A i \in 1 .. Len(fb) : fc[Len(fa) + i] = fb[i]
    <3>1. /\ \A i \in 1 .. Len(a) : i \in 1 .. Len(a) + Len(b) /\ c[i] = a[i]
          /\ \A i \in 1 .. Len(b) :
               Len(a) + i \in 1 .. Len(a) + Len(b) /\ c[Len(a) + i] = b[i]
      BY <1>2
    <3>2. QED
      BY <1>4, <1>5, <3>1
  <2>2. Len(fc) = Len(fa) + Len(fb)
    BY <1>4, <1>5
  <2>3. QED
    BY <1>4, <1>5, <2>1, <2>2, JoinedFrom
<1>8. FlattenSeq(fa) \in Seq(Kinds) /\ FlattenSeq(fb) \in Seq(Kinds)
  BY <1>4, FlattenType
<1>9. FlattenSeq(fa \o fb) = FlattenSeq(fa) \o FlattenSeq(fb)
  BY <1>4, FlattenConcat
<1>10. QED
  BY <1>6, <1>7, <1>8, <1>9 DEF Joined

LEMMA HonestConcat ==
  ASSUME NEW a, Honest(a), NEW b, Honest(b), NEW c, Joined(c, a, b)
  PROVE  Honest(c) /\ (Silent(a) /\ Silent(b) => Silent(c))
<1>1. /\ IsSeq(c) /\ Len(a) \in Nat /\ Len(b) \in Nat
      /\ DOMAIN a = 1 .. Len(a) /\ DOMAIN b = 1 .. Len(b)
      /\ DOMAIN c = 1 .. Len(a) + Len(b)
      /\ \A i \in DOMAIN a : c[i] = a[i]
      /\ \A i \in DOMAIN b : c[Len(a) + i] = b[i]
  BY PrefixStays DEF Honest
<1>2. ASSUME NEW i \in DOMAIN c
      PROVE  \/ i \in DOMAIN a /\ c[i] = a[i]
             \/ \E k \in DOMAIN b : c[i] = b[k]
  <2>1. CASE i \notin DOMAIN a
    <3>1. i - Len(a) \in DOMAIN b /\ Len(a) + (i - Len(a)) = i
      BY <1>1, <2>1
    <3>2. QED
      BY <1>1, <3>1
  <2>2. QED
    BY <1>1, <2>1
<1>3. Honest(c)
  BY <1>1, <1>2 DEF Honest
<1>4. ASSUME Silent(a), Silent(b) PROVE Silent(c)
  BY <1>2, <1>3, <1>4 DEF Silent
<1>5. QED
  BY <1>3, <1>4

LEMMA SilentShowsNothing ==
  ASSUME NEW x, Silent(x)
  PROVE  ShownIn(x) = <<>>
<1> DEFINE of == [i \in 1 .. Len(x) |-> Shown(x[i])]
           Q == Seq(Kinds)
<1>1. Len(x) \in Nat /\ DOMAIN x = 1 .. Len(x)
  BY LenProperties DEF Silent, Honest, IsSeq
<1>2. \A i \in 1 .. Len(x) : Shown(x[i]) \in Q /\ Shown(x[i]) = <<>>
  BY <1>1, ShownType DEF Silent
<1>3. of \in Seq(Q) /\ Len(of) = Len(x) /\ \A i \in 1 .. Len(x) : of[i] = <<>>
  <2> HIDE DEF Q
  <2>1. QED
    BY <1>1, <1>2
<1>4. ShownIn(x) = FlattenSeq(of)
  BY DEF ShownIn
<1> HIDE DEF of
<1>5. \A i \in 1 .. Len(of) : of[i] = <<>>
  BY <1>3
<1>6. FlattenSeq(of) = <<>>
  BY <1>3, <1>5, FlattenNothing
<1>7. QED
  BY <1>4, <1>6

\* A single summary.
LEMMA OneShown ==
  ASSUME NEW x, Truthful(x)
  PROVE  /\ Honest(<<x>>) /\ ShownIn(<<x>>) = Shown(x)
         /\ x.tag \notin Walltimes => Silent(<<x>>)
<1>1. <<x>> \in Seq({x}) /\ \A i \in DOMAIN <<x>> : <<x>>[i] = x
  OBVIOUS
<1>2. Honest(<<x>>)
  BY <1>1 DEF Honest, IsSeq
<1>3. x.tag \notin Walltimes => Silent(<<x>>)
  BY <1>1, <1>2 DEF Silent
<1>4. ShownIn(<<x>>) = FlattenSeq(<<Shown(x)>>)
  BY DEF ShownIn
<1>5. FlattenSeq(<<Shown(x)>>) = Shown(x)
  BY ShownType, FlattenOne
<1>6. QED
  BY <1>2, <1>3, <1>4, <1>5

\* From s to r nothing is reported, or the measurement m is.
Unseen(s, r)   == Honest(r.summaries) /\ ShownIn(r.summaries) = ShownIn(s.summaries)
Ended(s, r, m) ==
  Honest(r.summaries) /\ ShownIn(r.summaries) = Append(ShownIn(s.summaries), m)

LEMMA AddedSummaries ==
  ASSUME NEW s, IsState(s), NEW new
  PROVE  Joined(add_summaries(s, new).summaries, s.summaries, new)
BY DEF Joined, add_summaries, IsState, StateFields

LEMMA SilentIsUnseen ==
  ASSUME NEW s, IsState(s), Honest(s.summaries), NEW new, Silent(new)
  PROVE  Unseen(s, add_summaries(s, new))
<1> DEFINE a == s.summaries
           c == add_summaries(s, new).summaries
<1>1. Joined(c, a, new)
  BY AddedSummaries
<1>2. Honest(a) /\ Honest(new)
  BY DEF Silent
<1> HIDE DEF a, c
<1>3. Honest(c)
  BY <1>1, <1>2, HonestConcat
<1>4. ShownIn(a) \in Seq(Kinds) /\ Joined(ShownIn(c), ShownIn(a), ShownIn(new))
  BY <1>1, <1>2, ShownConcat DEF Honest
<1>5. ShownIn(new) = <<>>
  BY SilentShowsNothing
<1>6. ShownIn(c) = ShownIn(a)
  <2>1. ShownIn(a) \o <<>> = ShownIn(a)
    BY <1>4, ConcatEmptySeq
  <2>2. QED
    BY <1>4, <1>5, <2>1 DEF Joined
<1>7. QED
  BY <1>3, <1>6 DEF Unseen, a, c

\* The last of some summaries ends the measurement.
LEMMA LastEnds ==
  ASSUME NEW s, IsState(s), Honest(s.summaries), NEW b, Silent(b),
         NEW x, Truthful(x), NEW m, Shown(x) = <<m>>, NEW new, Joined(new, b, <<x>>)
  PROVE  Ended(s, add_summaries(s, new), m)
<1> DEFINE a == s.summaries
           c == add_summaries(s, new).summaries
<1>1. Joined(c, a, new)
  BY AddedSummaries
<1>2. Honest(a) /\ Honest(b) /\ Honest(<<x>>)
  BY OneShown DEF Silent
<1> HIDE DEF a, c
<1>3. Honest(new)
  BY <1>2, HonestConcat
<1>4. Honest(c)
  BY <1>1, <1>2, <1>3, HonestConcat
<1>5. ShownIn(a) \in Seq(Kinds) /\ Joined(ShownIn(c), ShownIn(a), ShownIn(new))
  BY <1>1, <1>2, <1>3, ShownConcat DEF Honest
<1>6. Joined(ShownIn(new), ShownIn(b), ShownIn(<<x>>))
  BY <1>2, ShownConcat DEF Honest
<1>7. ShownIn(b) = <<>> /\ ShownIn(<<x>>) = <<m>>
  BY SilentShowsNothing, OneShown
<1>8. ShownIn(new) = <<m>>
  <2>1. <<>> \o <<m>> = <<m>>
    OBVIOUS
  <2>2. QED
    BY <1>6, <1>7, <2>1 DEF Joined
<1>9. ShownIn(c) = Append(ShownIn(a), m)
  <2> DEFINE shown == ShownIn(a)
  <2>1. shown \in Seq(Kinds)
    BY <1>5
  <2> HIDE DEF shown
  <2>2. shown \o <<m>> = Append(shown, m)
    BY <2>1
  <2>3. QED
    BY <1>5, <1>8, <2>2 DEF Joined, shown
<1>10. QED
  BY <1>4, <1>9 DEF Ended, a, c

\* No summary but that of a metric is named like one.
LEMMA OtherNames ==
  ASSUME NEW x,
         x.name \notin {"dram_throughput", "loads_efficiency", "stores_efficiency",
                        "l1_hit_rate", "l2_hit_rate"}
  PROVE  Truthful(x)
<1>1. DOMAIN Metrics = 1 .. 5
  BY DEF Metrics
<1>2. \A i \in 1 .. 5 : Metrics[i] # x.name
  BY DEF Metrics
<1>3. QED
  BY <1>1, <1>2 DEF Truthful, ToSet

LEMMA NoneIsSilent == Silent(<<>>)
<1>1. <<>> \in Seq({})
  OBVIOUS
<1>2. QED
  BY <1>1 DEF Silent, Honest, IsSeq

LEMMA TwoSilent ==
  ASSUME NEW x, Truthful(x), x.tag \notin Walltimes, NEW y, Truthful(y), y.tag \notin Walltimes
  PROVE  Silent(<<x, y>>)
<1>1. Silent(<<x>>) /\ Silent(<<y>>)
  BY OneShown
<1>2. Joined(<<x, y>>, <<x>>, <<y>>)
  BY ShortConcat DEF Joined
<1>3. QED
  BY <1>1, <1>2, HonestConcat DEF Silent

LEMMA ColdEnds ==
  ASSUME NEW s, IsState(s), Honest(s.summaries), NEW n
  PROVE  Ended(s, ColdSummaries(s, n), "cold")
<1> DEFINE x1 == Summary("nv/cold/sample_size", "Samples", n)
           x2 == Summary("nv/cold/time/gpu/mean", "GPU Time", "time")
           x3 == Summary("nv/cold/walltime", "Walltime", "time")
           new == <<x1, x2, x3>>
<1>1. Truthful(x1) /\ Truthful(x2) /\ Truthful(x3)
  BY OtherNames DEF Summary
<1>2. x1.tag \notin Walltimes /\ x2.tag \notin Walltimes /\ Shown(x3) = <<"cold">>
  BY DEF Summary, Walltimes, Shown
<1> HIDE DEF x1, x2, x3
<1>3. Silent(<<x1, x2>>)
  BY <1>1, <1>2, TwoSilent
<1>4. Joined(new, <<x1, x2>>, <<x3>>)
  BY ShortConcat DEF Joined
<1> HIDE DEF new
<1>5. Ended(s, add_summaries(s, new), "cold")
  BY <1>1, <1>2, <1>3, <1>4, LastEnds
<1>6. QED
  BY <1>5 DEF ColdSummaries, new, x1, x2, x3

LEMMA HotShows ==
  ASSUME NEW s, IsState(s), Honest(s.summaries)
  PROVE  Ended(s, HotSummaries(s), "hot")
<1> DEFINE x1 == Summary("nv/batch/sample_size", "Samples", hot.total_samples)
           x2 == Summary("nv/batch/time/gpu/mean", "Batch GPU",
                         <<hot.total_cuda_time, hot.total_samples>>)
           x3 == Summary("nv/batch/walltime", "Walltime", hot.walltime)
           new == <<x1, x2, x3>>
<1>1. Truthful(x1) /\ Truthful(x2) /\ Truthful(x3)
  BY OtherNames DEF Summary
<1>2. x1.tag \notin Walltimes /\ x2.tag \notin Walltimes /\ Shown(x3) = <<"hot">>
  BY DEF Summary, Walltimes, Shown
<1> HIDE DEF x1, x2, x3
<1>3. Silent(<<x1, x2>>)
  BY <1>1, <1>2, TwoSilent
<1>4. Joined(new, <<x1, x2>>, <<x3>>)
  BY ShortConcat DEF Joined
<1> HIDE DEF new
<1>5. Ended(s, add_summaries(s, new), "hot")
  BY <1>1, <1>2, <1>3, <1>4, LastEnds
<1>6. QED
  BY <1>5 DEF HotSummaries, new, x1, x2, x3

LEMMA CpuShows ==
  ASSUME NEW s, IsState(s), Honest(s.summaries)
  PROVE  Ended(s, CpuSummaries(s), "cpu_only")
<1> DEFINE x1 == Summary("nv/cpu_only/sample_size", "Samples", cpu.total_samples)
           x2 == Summary("nv/cpu_only/time/cpu/min", "Min CPU Time", "time")
           x3 == Summary("nv/cpu_only/time/cpu/max", "Max CPU Time", "time")
           x4 == Summary("nv/cpu_only/time/cpu/mean", "CPU Time", "time")
           x5 == Summary("nv/cpu_only/time/cpu/stdev/absolute", "Noise", "time")
           x6 == Summary("nv/cpu_only/time/cpu/stdev/relative", "Noise", "ratio")
           y1 == Summary("nv/cpu_only/bw/item_rate", "Elem/s", s.element_count)
           y2 == Summary("nv/cpu_only/bw/global/bytes_per_second", "GlobalMem BW",
                         s.global_memory_rw_bytes)
           x7 == Summary("nv/cpu_only/walltime", "Walltime", cpu.walltime)
           first == <<x1, x2, x3, x4, x5, x6>>
           items == IF s.element_count # 0 THEN <<y1>> ELSE <<>>
           bytes == IF s.global_memory_rw_bytes # 0 THEN <<y2>> ELSE <<>>
           rates == items \o bytes
           b     == first \o rates
           new   == first \o rates \o <<x7>>
<1>1. \A x \in {x1, x2, x3, x4, x5, x6, y1, y2} : Truthful(x) /\ x.tag \notin Walltimes
  <2>1. /\ Truthful(x1) /\ Truthful(x2) /\ Truthful(x3) /\ Truthful(x4) /\ Truthful(x5)
        /\ Truthful(x6) /\ Truthful(y1) /\ Truthful(y2)
    BY OtherNames DEF Summary
  <2>2. /\ x1.tag \notin Walltimes /\ x2.tag \notin Walltimes /\ x3.tag \notin Walltimes
        /\ x4.tag \notin Walltimes /\ x5.tag \notin Walltimes /\ x6.tag \notin Walltimes
        /\ y1.tag \notin Walltimes /\ y2.tag \notin Walltimes
    BY DEF Summary, Walltimes
  <2> HIDE DEF x1, x2, x3, x4, x5, x6, y1, y2
  <2>3. QED
    BY <2>1, <2>2
<1>2. Truthful(x7) /\ Shown(x7) = <<"cpu_only">>
  BY OtherNames DEF Summary, Shown
<1>3. CpuSummaries(s) = add_summaries(s, new)
  BY DEF CpuSummaries
<1> HIDE DEF x1, x2, x3, x4, x5, x6, y1, y2, x7
<1>4. Silent(first)
  <2>1. /\ first \in Seq({x1, x2, x3, x4, x5, x6})
        /\ \A i \in DOMAIN first : first[i] \in {x1, x2, x3, x4, x5, x6}
    OBVIOUS
  <2> HIDE DEF first
  <2>2. QED
    BY <1>1, <2>1 DEF Silent, Honest, IsSeq
<1>5. Silent(<<>>)
  BY NoneIsSilent
<1>6. Silent(<<y1>>) /\ Silent(<<y2>>)
  BY <1>1, OneShown
<1>7. Silent(items) /\ Silent(bytes)
  BY <1>5, <1>6
<1> HIDE DEF items, bytes
<1>8. Silent(rates)
  <2>1. Joined(rates, items, bytes)
    BY DEF Joined
  <2>2. QED
    BY <1>7, <2>1, HonestConcat DEF Silent
<1> HIDE DEF first, rates
<1>9. Silent(b)
  <2>1. Joined(b, first, rates)
    BY DEF Joined
  <2> HIDE DEF b
  <2>2. QED
    BY <1>4, <1>8, <2>1, HonestConcat DEF Silent
<1>10. Joined(new, b, <<x7>>)
  BY DEF Joined
<1> HIDE DEF b, new
<1>11. QED
  BY <1>2, <1>3, <1>9, <1>10, LastEnds

\* Each metric gets its own value: the results are in the order of the metrics
\* asked for, which is the order in which they are read.
LEMMA ResultsAreOwn ==
  ASSUME NEW s, NEW k \in DOMAIN ids(s)
  PROVE  add_metrics(s)[k] = Metrics[ids(s)[k]]
<1> DEFINE D == DOMAIN Metrics
           V == ToSet(Metrics)
           of(m) == IF Metrics[m] \in s.collected THEN <<m>> ELSE <<>>
           all == [m \in D |-> of(m)]
           own(m) == IF Metrics[m] \in s.collected THEN <<Metrics[m]>> ELSE <<>>
<1>1. D = 1 .. Len(Metrics) /\ Len(Metrics) \in Nat
  BY DEF Metrics
<1>2. ASSUME NEW m \in D PROVE of(m) \in Seq(D)
  <2> HIDE DEF D
  <2>1. <<m>> \in Seq(D) /\ <<>> \in Seq(D)
    OBVIOUS
  <2>2. QED
    BY <2>1
<1>3. Metrics \in [D -> V]
  <2>1. Metrics = [m \in D |-> Metrics[m]]
    BY DEF Metrics
  <2>2. \A m \in D : Metrics[m] \in V
    BY DEF ToSet
  <2> HIDE DEF D, V
  <2>3. QED
    BY <2>1, <2>2
<1>4. ids(s) = FlattenSeq(all)
  BY IdsAre
<1>5. add_metrics(s) = FlattenSeq([m \in D |-> own(m)])
  BY DEF add_metrics, PerMetric
<1>6. ASSUME NEW m \in D PROVE Labels(of(m), Metrics) = own(m)
  <2>1. /\ Labels(<<>>, Metrics) = <<>>
        /\ \A e \in D : Labels(<<e>>, Metrics) = <<Metrics[e]>>
    <3>1. <<>> \in Seq(D) /\ Joined(<<>>, <<>>, <<>>)
      BY DEF Joined
    <3> HIDE DEF D, V
    <3>2. QED
      BY <1>3, <3>1, LabelsConcat
  <2> HIDE DEF D
  <2>2. QED
    BY <2>1
<1> HIDE DEF of, own, D, V
<1>7. /\ all \in Seq(Seq(D)) /\ Len(all) = Len(Metrics)
      /\ \A m \in D : all[m] = of(m)
  BY <1>1, <1>2
<1>8. [m \in 1 .. Len(all) |-> Labels(all[m], Metrics)] = [m \in D |-> own(m)]
  <2>1. \A m \in D : Labels(all[m], Metrics) = own(m)
    BY <1>6, <1>7
  <2> HIDE DEF all
  <2>2. QED
    BY <1>1, <1>7, <2>1
<1> HIDE DEF all
<1>9. FlattenSeq([m \in 1 .. Len(all) |-> Labels(all[m], Metrics)])
        = Labels(FlattenSeq(all), Metrics)
  BY <1>3, <1>7, FlattenLabels
<1>10. add_metrics(s) = Labels(ids(s), Metrics)
  BY <1>4, <1>5, <1>8, <1>9
<1>11. DOMAIN ids(s) = 1 .. Len(ids(s))
  BY IdsType, LenProperties
<1>12. QED
  BY <1>10, <1>11 DEF Labels

LEMMA CuptiShows ==
  ASSUME NEW s, IsState(s), Honest(s.summaries)
  PROVE  Ended(s, generate_cupti_summaries(s), "cupti")
<1> DEFINE result == add_metrics(s)
           of(k) == Summary(cupti_tag(Metrics[ids(s)[k]]), Metrics[ids(s)[k]], result[k])
           new == [k \in DOMAIN ids(s) |-> of(k)]
           x1 == Summary("nv/cupti/sample_size", "Samples", samples)
           x2 == Summary("nv/cupti/walltime", "Walltime", "time")
           r  == add_summaries(s, new)
           r1 == add_summary(r, x1)
           r2 == add_summary(r1, x2)
<1>1. generate_cupti_summaries(s) = r2
  BY DEF generate_cupti_summaries, gen_summaries
<1>2. Silent(new)
  <2>1. \E n \in Nat : DOMAIN ids(s) = 1 .. n
    <3>1. Len(ids(s)) \in Nat /\ DOMAIN ids(s) = 1 .. Len(ids(s))
      BY IdsType, LenProperties
    <3>2. QED
      BY <3>1
  <2>2. new \in Seq({of(k) : k \in DOMAIN ids(s)})
    <3> HIDE DEF of
    <3>1. QED
      BY <2>1
  <2>3. ASSUME NEW k \in DOMAIN ids(s) PROVE Truthful(of(k)) /\ of(k).tag \notin Walltimes
    <3> DEFINE m == Metrics[ids(s)[k]]
    <3>1. ids(s)[k] \in DOMAIN Metrics
      BY IdsType
    <3>2. m \in ToSet(Metrics)
      BY <3>1 DEF ToSet
    <3>3. result[k] = m
      BY ResultsAreOwn
    <3> HIDE DEF m, result
    <3>4. of(k) = Summary(cupti_tag(m), m, m)
      BY <3>3 DEF m
    <3> HIDE DEF of
    <3>5. cupti_tag(m) \notin Walltimes
      BY <3>2, TagAssumption DEF Walltimes
    <3>6. QED
      BY <3>4, <3>5 DEF Summary, Truthful
  <2> HIDE DEF of
  <2>4. \A i \in DOMAIN new : new[i] = of(i) /\ i \in DOMAIN ids(s)
    OBVIOUS
  <2>5. QED
    BY <2>2, <2>3, <2>4 DEF Silent, Honest, IsSeq
<1> HIDE DEF new
<1>3. Truthful(x1) /\ x1.tag \notin Walltimes /\ Truthful(x2) /\ Shown(x2) = <<"cupti">>
  BY OtherNames DEF Summary, Walltimes, Shown
<1> HIDE DEF x1, x2
<1>4. IsState(r) /\ Unseen(s, r)
  BY <1>2, SilentIsUnseen, SummariesKeepSettings DEF SameSettings
<1> HIDE DEF r
<1>5. IsState(r1) /\ Unseen(r, r1)
  <2>1. Silent(<<x1>>)
    BY <1>3, OneShown
  <2>2. QED
    BY <1>4, <2>1, SilentIsUnseen, SummariesKeepSettings DEF SameSettings, Unseen, add_summary
<1> HIDE DEF r1
<1>6. Ended(r1, r2, "cupti")
  <2>1. Joined(<<x2>>, <<>>, <<x2>>)
    BY DEF Joined
  <2>2. Ended(r1, add_summaries(r1, <<x2>>), "cupti")
    BY <1>3, <1>5, <2>1, NoneIsSilent, LastEnds DEF Unseen
  <2>3. QED
    BY <2>2 DEF add_summary
<1> HIDE DEF r2
<1>7. QED
  BY <1>1, <1>4, <1>5, <1>6 DEF Ended, Unseen

\* What the generator adds ends no measurement.
LEMMA CountsAreUnseen ==
  ASSUME NEW s, IsState(s), Honest(s.summaries)
  PROVE  Unseen(s, add_global_memory(add_element_count(s, 1, unnamed), 1, "reads", "a"))
<1> DEFINE r == add_element_count(s, 1, unnamed)
           q == [r EXCEPT !.global_memory_rw_bytes = @ + 1]
           name == IF "a" = unnamed THEN "None" ELSE "a"
           x == Summary(gmem_tag("reads", "a"), name, 1)
<1>1. IsState(r) /\ r.summaries = s.summaries
  BY CountsKeepSettings DEF SameSettings, add_element_count, IsState, StateFields
<1> HIDE DEF r
<1>2. IsState(q) /\ q.summaries = s.summaries
  BY <1>1 DEF IsState, StateFields
<1> HIDE DEF q
<1>3. Truthful(x) /\ x.tag \notin Walltimes
  <2>1. name = "a" \/ name = "None"
    OBVIOUS
  <2> HIDE DEF name
  <2>2. Truthful(x)
    BY <2>1, OtherNames DEF Summary
  <2>3. x.tag \notin Walltimes
    BY TagAssumption DEF Summary, Walltimes
  <2>4. QED
    BY <2>2, <2>3
<1> HIDE DEF x
<1>4. Unseen(q, add_summary(q, x))
  <2>1. Silent(<<x>>)
    BY <1>3, OneShown
  <2>2. QED
    BY <1>2, <2>1, SilentIsUnseen DEF add_summary
<1>5. add_global_memory(r, 1, "reads", "a") \in {q, add_summary(q, x)}
  BY DEF add_global_memory, add_buffer_size, q, x, name
<1>6. Unseen(s, q) /\ Unseen(s, add_summary(q, x))
  BY <1>2, <1>4 DEF Unseen
<1>7. QED
  BY <1>5, <1>6 DEF r

\* An exception reports nothing.
LEMMA CaughtIsUnseen ==
  ASSUME NEW s, IsState(s), Honest(s.summaries), Caught(s)
  PROVE  Unseen(s, st')
<1> DEFINE r == skip(s, "unexpected error")
<1>1. r.summaries = s.summaries
  BY DEF skip, IsState, StateFields
<1> HIDE DEF r
<1>2. st' = s \/ st' = r
  <2>1. st' = IF s.skip_reason # "" THEN s ELSE r
    BY DEF Caught, r
  <2>2. QED
    BY <2>1, Zenon
<1>3. QED
  BY <1>1, <1>2 DEF Unseen

Owable ==
  {<<"cpu_only">>, <<"cold">>, <<"hot">>, <<"cold", "hot">>,
   <<"cupti", "cold">>, <<"cupti", "cold", "hot">>}

\* A call owes nothing or one of these.
LEMMA PlanIsOwable ==
  ASSUME NEW t, NEW s
  PROVE  Plan(t, s) \in Owable \cup {<<>>}
<1> DEFINE only(m, runs) == IF m \in t /\ runs THEN <<m>> ELSE <<>>
           profiled == HasCupti /\ "cold" \in t /\ s.collected # {} /\ ~s.set.run_once
           first == IF profiled THEN <<"cupti">> ELSE <<>>
           second == only("cold", TRUE)
           third == only("hot", ~s.set.run_once)
<1>1. Plan(t, s) = IF s.set.is_cpu_only THEN only("cpu_only", TRUE) ELSE first \o second \o third
  BY DEF Plan
<1>2. only("cpu_only", TRUE) \in {<<"cpu_only">>, <<>>}
  OBVIOUS
<1>3. \/ first = <<"cupti">> /\ second = <<"cold">>
      \/ first = <<>> /\ second \in {<<"cold">>, <<>>}
  OBVIOUS
<1>4. third \in {<<"hot">>, <<>>}
  OBVIOUS
<1> HIDE DEF first, second, third, only
<1>5. /\ <<"cupti">> \o <<"cold">> = <<"cupti", "cold">>
      /\ <<>> \o <<"cold">> = <<"cold">> /\ <<>> \o <<>> = <<>>
  BY ShortConcat
<1>6. /\ \A x \in {<<"cupti", "cold">>, <<"cold">>, <<>>} : x \o <<>> = x
      /\ <<"cupti", "cold">> \o <<"hot">> = <<"cupti", "cold", "hot">>
      /\ <<"cold">> \o <<"hot">> = <<"cold", "hot">>
      /\ <<>> \o <<"hot">> = <<"hot">>
  BY ShortConcat
<1>7. first \o second \in {<<"cupti", "cold">>, <<"cold">>, <<>>}
  BY <1>3, <1>5
<1>8. first \o second \o third \in Owable \cup {<<>>}
  BY <1>4, <1>6, <1>7 DEF Owable
<1>9. QED
  BY <1>1, <1>2, <1>8 DEF Owable

\* The steps of the contract.
LEMMA Reports ==
  ASSUME Honest(st.summaries), NEW m, Measuring(m), plan' = Tail(plan), Ended(st, st', m),
         UNCHANGED outcome
  PROVE  Contract!Report
<1>1. Reported(st) = ShownIn(st.summaries) /\ Reported(st') = ShownIn(st'.summaries)
  BY ReportedIsShown DEF Ended
<1>2. QED
  BY <1>1 DEF Ended, Measuring, Contract!Report

LEMMA GivesUp ==
  ASSUME Honest(st.summaries), plan # <<>>, plan' = <<>>, Unseen(st, st'),
         outcome' # "running"
  PROVE  Contract!GiveUp
<1>1. Reported(st) = ShownIn(st.summaries) /\ Reported(st') = ShownIn(st'.summaries)
  BY ReportedIsShown DEF Unseen
<1>2. QED
  BY <1>1 DEF Unseen, Contract!GiveUp

LEMMA Stutters ==
  ASSUME Honest(st.summaries), plan' = plan, Unseen(st, st'), UNCHANGED outcome
  PROVE  UNCHANGED Contract!vars
<1>1. Reported(st) = ShownIn(st.summaries) /\ Reported(st') = ShownIn(st'.summaries)
  BY ReportedIsShown DEF Unseen
<1>2. QED
  BY <1>1 DEF Unseen, Contract!vars

\* The generator returns or throws while it owes nothing.
LEMMA Ends ==
  ASSUME Honest(st.summaries), Generating, plan' = plan, Unseen(st, st'),
         outcome' # "running"
  PROVE  Contract!End
<1>1. Reported(st) = ShownIn(st.summaries) /\ Reported(st') = ShownIn(st'.summaries)
  BY ReportedIsShown DEF Unseen
<1>2. QED
  BY <1>1 DEF Unseen, Generating, Contract!End

\* A state as it is generated has no reports.
LEMMA NewStateReports ==
  ASSUME NEW s, NEW bench, s = NewState(bench)
  PROVE  Honest(s.summaries) /\ Reported(s) = <<>>
<1>1. s.summaries = <<>>
  BY DEF NewState
<1>2. Silent(s.summaries)
  BY <1>1, NoneIsSilent
<1>3. QED
  BY <1>2, ReportedIsShown, SilentShowsNothing DEF Silent

\* The runner goes on to another state.
LEMMA NextStateImplements ==
  ASSUME NextState
  PROVE  Honest(st'.summaries) /\ Contract!NextState
<1>1. PICK bench \in Benchmarks : st' = NewState(bench)
  BY DEF NextState
<1>2. Honest(st'.summaries) /\ Reported(st') = <<>>
  BY <1>1, NewStateReports
<1>3. outcome # "running" /\ outcome' = "running" /\ plan' = plan
  BY DEF NextState
<1>4. QED
  BY <1>2, <1>3 DEF Contract!NextState

\* An exception out of a measurement, which may have skipped the state.
LEMMA RaiseGivesUp ==
  ASSUME IsState(st), Honest(st.summaries), plan # <<>>,
         Raise(st) \/ Raise(skip(st, "skip_time"))
  PROVE  Honest(st'.summaries) /\ Contract!GiveUp
<1> DEFINE r == skip(st, "skip_time")
<1>1. IsState(r) /\ r.summaries = st.summaries
  BY DEF skip, IsState, StateFields
<1> HIDE DEF r
<1>2. Unseen(st, st')
  <2>1. CASE Raise(st)
    BY <2>1, CaughtIsUnseen DEF Raise
  <2>2. CASE Raise(r)
    BY <1>1, <2>2, CaughtIsUnseen DEF Raise, Unseen
  <2>3. QED
    BY <2>1, <2>2 DEF r
<1>3. plan' = <<>> /\ outcome' # "running"
  BY DEF Raise, Caught
<1>4. QED
  BY <1>2, <1>3, GivesUp DEF Unseen

\* Every step of a measurement is one of the contract, or changes nothing in it.
LEMMA MeasurementImplements ==
  ASSUME IsState(st), Honest(st.summaries), Program \/ Failure
  PROVE  Honest(st'.summaries) /\ [Contract!Next]_(Contract!vars)
<1> USE DEF unbound, control, measuring
<1>0. ASSUME st' = st, plan' = plan, outcome' = outcome
      PROVE  Honest(st'.summaries) /\ UNCHANGED Contract!vars
  BY <1>0, Stutters DEF Unseen
<1>1. ASSUME NEW m, Measuring(m), Finished, Ended(st, st', m), UNCHANGED outcome
      PROVE  Honest(st'.summaries) /\ Contract!Report
  BY <1>1, Reports DEF Finished, Ended
<1>2. CASE Construct
  BY <1>0, <1>2 DEF Construct
<1>3. CASE \E n \in ColdSamples : ColdFinish(n)
  <2>1. PICK n \in ColdSamples : ColdFinish(n)
    BY <1>3
  <2>2. Measuring("cold") /\ Finished /\ Ended(st, st', "cold") /\ UNCHANGED outcome
    BY <2>1, ColdEnds DEF ColdFinish
  <2>3. QED
    BY <1>1, <2>2 DEF Contract!Next
<1>4. CASE HotSteps
  <2>1. st' = st /\ plan' = plan /\ outcome' = outcome
    BY <1>4
    DEF HotSteps, HotCheck, HotStart, HotLaunch, HotUnblock, HotWarmupStop, HotBatchStop
  <2>2. QED
    BY <1>0, <2>1
<1>5. CASE HotEnds
  <2>1. Measuring("hot") /\ Finished /\ Ended(st, st', "hot") /\ UNCHANGED outcome
    BY <1>5, HotShows DEF HotEnds, HotFinish
  <2>2. QED
    BY <1>1, <2>1 DEF Contract!Next
<1>6. CASE CpuSteps
  <2>1. st' = st /\ plan' = plan /\ outcome' = outcome
    BY <1>6 DEF CpuSteps, CpuInitialize, CpuWarmup, CpuTrial, CpuFinished
  <2>2. QED
    BY <1>0, <2>1
<1>7. CASE CpuEnds
  <2>1. Measuring("cpu_only") /\ Finished /\ Ended(st, st', "cpu_only") /\ UNCHANGED outcome
    BY <1>7, CpuShows DEF CpuEnds, CpuFinish
  <2>2. QED
    BY <1>1, <2>1 DEF Contract!Next
<1>8. CASE CuptiSteps
  BY <1>0, <1>8 DEF CuptiSteps
<1>9. CASE CuptiEnds
  <2>1. Measuring("cupti") /\ Finished /\ Ended(st, st', "cupti") /\ UNCHANGED outcome
    BY <1>9, CuptiShows DEF CuptiEnds
  <2>2. QED
    BY <1>1, <2>1 DEF Contract!Next
<1>10. CASE ColdFails \/ HotFails \/ CpuFails
  <2>1. plan # <<>> /\ (Raise(st) \/ Raise(skip(st, "skip_time")))
    BY <1>10 DEF ColdFails, HotFails, CpuFails, Measuring
  <2>2. QED
    BY <2>1, RaiseGivesUp DEF Contract!Next
<1>11. CASE CuptiFails
  <2>1. CASE Raise(st)
    BY <1>11, <2>1, RaiseGivesUp DEF CuptiFails, Measuring, Contract!Next
  <2>2. CASE Finished /\ st' = st /\ outcome' = outcome
    <3>1. Contract!Omit
      BY <1>11, <2>2 DEF CuptiFails, Measuring, Finished, Contract!Omit
    <3>2. QED
      BY <2>2, <3>1 DEF Contract!Next
  <2>3. QED
    BY <1>11, <2>1, <2>2 DEF CuptiFails
<1>12. CASE CuptiTerminates
  <2>1. plan # <<>> /\ plan' = <<>> /\ st' = st /\ outcome' # "running"
    BY <1>12 DEF CuptiTerminates, Measuring
  <2>2. Contract!GiveUp
    BY <2>1, GivesUp DEF Unseen
  <2>3. QED
    BY <2>1, <2>2 DEF Contract!Next
<1>13. QED
  BY <1>2, <1>3, <1>4, <1>5, <1>6, <1>7, <1>8, <1>9, <1>10, <1>11, <1>12
  DEF Program, Failure

\* The generator reports nothing; a call of exec begins a new debt.
LEMMA GeneratorImplements ==
  ASSUME IsState(st), Honest(st.summaries), Generator
  PROVE  Honest(st'.summaries) /\ [Contract!Next]_(Contract!vars)
<1> USE DEF unbound, control, measuring
<1>0. ASSUME plan' = plan, Unseen(st, st'), Generating, outcome' # "running"
      PROVE  Honest(st'.summaries) /\ [Contract!Next]_(Contract!vars)
  BY <1>0, Ends DEF Unseen, Contract!Next
<1>1. ASSUME plan' = plan, Unseen(st, st'), outcome' = outcome
      PROVE  Honest(st'.summaries) /\ UNCHANGED Contract!vars
  BY <1>1, Stutters DEF Unseen
<1>2. CASE GeneratorSkips
  <2>1. skip(st, "generator").summaries = st.summaries
    BY DEF skip, IsState, StateFields
  <2>2. QED
    BY <1>1, <1>2, <2>1 DEF GeneratorSkips, Unseen
<1>3. CASE GeneratorThrows
  BY <1>0, <1>3, CaughtIsUnseen DEF GeneratorThrows, Caught
<1>4. CASE GeneratorReturns
  BY <1>0, <1>4 DEF GeneratorReturns, Unseen
<1>5. CASE GeneratorAdds("a")
  BY <1>1, <1>5, CountsAreUnseen DEF GeneratorAdds
<1>6. CASE \E metrics \in Requests : GeneratorCollects(metrics)
  <2>1. PICK metrics \in Requests : GeneratorCollects(metrics)
    BY <1>6
  <2>2. collect(st, metrics).summaries = st.summaries
    BY DEF collect, IsState, StateFields
  <2>3. QED
    BY <1>1, <2>1, <2>2 DEF GeneratorCollects, Unseen
<1>7. CASE \E t \in TagSets : GeneratorExecs(t)
  <2>1. PICK t \in TagSets : GeneratorExecs(t)
    BY <1>7
  <2>2. CASE Mismatch(Selected(t), st)
    <3>1. Generating /\ Caught(st) /\ plan' = plan /\ outcome' # "running"
      BY <2>1, <2>2 DEF GeneratorExecs, GeneratorCalls, Caught
    <3>2. QED
      BY <1>0, <3>1, CaughtIsUnseen
  <2>3. CASE ~Mismatch(Selected(t), st)
    <3>1. /\ st' = synced(t, st) /\ plan = <<>> /\ outcome = "running" /\ outcome' = outcome
          /\ plan' = IF is_skipped THEN <<>> ELSE Plan(Selected(t), st')
      BY <2>1, <2>3 DEF GeneratorExecs, GeneratorCalls, Generating
    <3>2. st'.summaries = st.summaries
      BY <3>1 DEF synced, IsState, StateFields
    <3>3. Unseen(st, st')
      BY <3>2 DEF Unseen
    <3>4. plan' \in Owable \cup {<<>>}
      BY <3>1, PlanIsOwable
    <3>5. CASE plan' = <<>>
      BY <1>1, <3>1, <3>3, <3>5
    <3>6. CASE plan' \in Owable
      <4>1. Reported(st') = Reported(st)
        BY <3>3, ReportedIsShown DEF Unseen
      <4>2. Contract!Begin
        BY <3>1, <3>6, <4>1 DEF Owable, Contract!Begin
      <4>3. QED
        BY <3>3, <4>2 DEF Unseen, Contract!Next
    <3>7. QED
      BY <3>4, <3>5, <3>6
  <2>4. QED
    BY <2>2, <2>3
<1>8. QED
  BY <1>2, <1>3, <1>4, <1>5, <1>6, <1>7 DEF Generator

LEMMA StepImplements ==
  ASSUME ExecInv, Honest(st.summaries), [Next]_vars
  PROVE  Honest(st'.summaries) /\ [Contract!Next]_(Contract!vars)
<1>1. IsState(st)
  BY DEF ExecInv, StateShape
<1>2. CASE UNCHANGED vars
  <2>1. st' = st /\ plan' = plan /\ outcome' = outcome
    BY <1>2 DEF vars
  <2>2. QED
    BY <2>1, Stutters DEF Unseen
<1>3. CASE NextState
  BY <1>3, NextStateImplements DEF Contract!Next
<1>4. QED
  BY <1>1, <1>2, <1>3, MeasurementImplements, GeneratorImplements DEF Next

LEMMA InitImplements == Init => Honest(st.summaries) /\ Contract!Init
<1> SUFFICES ASSUME Init PROVE Honest(st.summaries) /\ Contract!Init
  OBVIOUS
<1>1. Honest(st.summaries) /\ Reported(st) = <<>>
  BY NewStateReports DEF Init
<1>2. QED
  BY <1>1 DEF Init, Contract!Init

\* exec keeps its contract, whatever the generator calls and whatever fails:
\* the measurements of a call report in order, none twice, none out of turn
\* and each with its own values; what ends one early ends the call and the
\* generator, and only then does the runner go on to another state.
THEOREM ExecImplementsContract == Spec => ImplementsContract
<1>1. Init => Contract!Init /\ Honest(st.summaries)
  BY InitImplements
<1>2. ExecInv /\ Honest(st.summaries) /\ [Next]_vars
        => Honest(st.summaries)' /\ [Contract!Next]_(Contract!vars)
  BY StepImplements
<1>3. QED
  BY <1>1, <1>2, ExecInvariant, PTL DEF Spec, ImplementsContract, Contract!Spec
=============================================================================
