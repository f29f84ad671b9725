------------------------------- MODULE Runner -------------------------------
(***************************************************************************)
(* Running every state of every benchmark: main_run_benchmarks (main.cuh), *)
(* benchmark::do_run (benchmark.cuh), runner::run and run_device           *)
(* (runner.cuh, runner.cxx), with the printer's progress counts            *)
(* (printer_base.cxx) and the active CUDA device.                          *)
(*                                                                         *)
(* The kernel generator is user code; it may return, mark its state        *)
(* skipped, throw a std::exception (with or without having skipped), or    *)
(* throw something else.  It leaves the active device as it found it.      *)
(***************************************************************************)
EXTENDS StateGenerator

CONSTANTS
  Programs,     \* the lists of benchmarks considered
  FirstDevice   \* device active when main starts

ASSUME ProgramsAssumption == Programs \subseteq Seq(Benchmark)

VARIABLES
  benchmarks,   \* option_parser::get_benchmarks()
  current,      \* benchmark being run; 0 before main_run_benchmarks
  point,        \* where the host thread is
  states,       \* m_states of each benchmark
  pass,         \* position in Passes(benchmarks[current])
  typeConfig,   \* type_config_index of run_device
  cursor,       \* position of cur_state
  active,       \* the active CUDA device
  completed,    \* printer's completed_state_count
  total,        \* printer's total_state_count
  runs          \* for each benchmark, the calls of its kernel generator

loop     == <<pass, typeConfig, cursor>>
progress == <<completed, total>>
vars == <<benchmarks, current, point, states, loop, active, progress, runs>>

Bench == benchmarks[current]
CurState == states[current][cursor]

TypeOK ==
  /\ benchmarks \in Programs
  /\ current \in 0 .. Len(benchmarks) + 1
  /\ point \in {"main", "benchmark", "device", "scan", "running",
                "finished", "aborted"}
  /\ DOMAIN states = DOMAIN benchmarks /\ DOMAIN runs = DOMAIN benchmarks
  /\ pass \in Nat \ {0} /\ typeConfig \in Nat /\ cursor \in Nat \ {0}
  /\ point = "running" => cursor \in DOMAIN states[current]
  /\ completed \in Nat /\ total \in Nat

Init ==
  /\ benchmarks \in Programs
  /\ current = 0 /\ point = "main"
  /\ states = [b \in DOMAIN benchmarks |-> <<>>]
  /\ pass = 1 /\ typeConfig = 0 /\ cursor = 1
  /\ active = FirstDevice
  /\ completed = 0 /\ total = 0
  /\ runs = [b \in DOMAIN benchmarks |-> <<>>]

\* The sum over the benchmarks, empty or not.
TotalConfigs(program) ==
  LET upto[b \in 0 .. Len(program)] ==
        IF b = 0 THEN 0 ELSE upto[b - 1] + get_config_count(program[b])
  IN  upto[Len(program)]

\* main_run_benchmarks: the totals, before any state is generated.
CountConfigs ==
  /\ point = "main"
  /\ total' = TotalConfigs(benchmarks)
  /\ completed' = 0
  /\ current' = 1 /\ point' = "benchmark"
  /\ UNCHANGED <<benchmarks, states, loop, active, runs>>

\* do_run: generate_states() makes every state before the first one runs.
GenerateStates ==
  /\ point = "benchmark" /\ current <= Len(benchmarks)
  /\ states' = [states EXCEPT ![current] = build_states(Bench, active)]
  /\ active' = IF states'[current] = <<>> THEN active
               ELSE Activated(active, Last(states'[current]).device)
  /\ pass' = 1 /\ point' = "device"
  /\ UNCHANGED <<benchmarks, current, typeConfig, cursor, progress, runs>>

\* Mutants of StartDevice: the device is left as it is; the first state is
\* missed.
StartDevice_NotActivated ==
  /\ point = "device" /\ pass <= Len(Passes(Bench))
  /\ typeConfig' = 0 /\ cursor' = 1 /\ point' = "scan"
  /\ UNCHANGED <<benchmarks, current, states, pass, active, progress, runs>>

StartDevice_FromZero ==
  /\ point = "device" /\ pass <= Len(Passes(Bench))
  /\ active' = Activated(active, Passes(Bench)[pass])
  /\ typeConfig' = 0 /\ cursor' = 0 /\ point' = "scan"
  /\ UNCHANGED <<benchmarks, current, states, pass, progress, runs>>

\* run_device begins: the device is made active, the indices start over.
StartDevice ==
  /\ point = "device" /\ pass <= Len(Passes(Bench))
  /\ active' = Activated(active, Passes(Bench)[pass])
  /\ typeConfig' = 0 /\ cursor' = 1 /\ point' = "scan"
  /\ UNCHANGED <<benchmarks, current, states, pass, progress, runs>>

InTypeConfig == point = "scan" /\ typeConfig < Len(type_configs(Bench))

\* Mutant of Selected: the device of the state is not looked at.
Selected_AnyDevice == CurState.typeConfig = typeConfig

Selected == /\ CurState.device = Passes(Bench)[pass]
            /\ CurState.typeConfig = typeConfig

\* Mutant of PassOver: the loop continues without advancing.
PassOver_Stays ==
  /\ InTypeConfig /\ cursor <= Len(states[current]) /\ ~Selected
  /\ UNCHANGED vars

PassOver ==
  /\ InTypeConfig /\ cursor <= Len(states[current]) /\ ~Selected
  /\ cursor' = cursor + 1
  /\ UNCHANGED <<benchmarks, current, point, states, pass, typeConfig,
                 active, progress, runs>>

\* run_state_prologue, then the call of the kernel generator instantiated for
\* the type configuration the foreach has reached.
RunState ==
  /\ InTypeConfig /\ cursor <= Len(states[current]) /\ Selected
  /\ point' = "running"
  /\ runs' = [runs EXCEPT ![current] = Append(@,
                [state |-> cursor, types |-> type_configs(Bench)[typeConfig + 1]])]
  /\ UNCHANGED <<benchmarks, current, states, loop, active, progress>>

\* Mutant of StateCompletes: a state that skips or fails is not counted.
StateCompletes_SkipUncounted ==
  /\ point = "running"
  /\ \E skips, throws \in BOOLEAN :
       states' = [states EXCEPT ![current][cursor].skipped = @ \/ skips \/ throws]
  /\ completed' = IF states'[current][cursor].skipped THEN completed
                                                      ELSE completed + 1
  /\ cursor' = cursor + 1 /\ point' = "scan"
  /\ UNCHANGED <<benchmarks, current, pass, typeConfig, active, total, runs>>

\* The generator returns or throws a std::exception: a skipped state stays
\* skipped, a failed one becomes so; run_state_epilogue counts it either way.
StateCompletes ==
  /\ point = "running"
  /\ \E skips, throws \in BOOLEAN :
       states' = [states EXCEPT ![current][cursor].skipped = @ \/ skips \/ throws]
  /\ completed' = completed + 1
  /\ cursor' = cursor + 1 /\ point' = "scan"
  /\ UNCHANGED <<benchmarks, current, pass, typeConfig, active, total, runs>>

\* Anything that is not a std::exception leaves run() for main's catch (...).
GeneratorAborts ==
  /\ point = "running"
  /\ point' = "aborted"
  /\ UNCHANGED <<benchmarks, current, states, loop, active, progress, runs>>

NextTypeConfig ==
  /\ InTypeConfig /\ cursor > Len(states[current])
  /\ typeConfig' = typeConfig + 1 /\ cursor' = 1
  /\ UNCHANGED <<benchmarks, current, point, states, pass, active, progress, runs>>

FinishDevice ==
  /\ point = "scan" /\ typeConfig = Len(type_configs(Bench))
  /\ pass' = pass + 1 /\ point' = "device"
  /\ UNCHANGED <<benchmarks, current, states, typeConfig, cursor, active,
                 progress, runs>>

FinishBenchmark ==
  /\ point = "device" /\ pass > Len(Passes(Bench))
  /\ current' = current + 1 /\ point' = "benchmark"
  /\ UNCHANGED <<benchmarks, states, loop, active, progress, runs>>

FinishAll ==
  /\ point = "benchmark" /\ current > Len(benchmarks)
  /\ point' = "finished"
  /\ UNCHANGED <<benchmarks, current, states, loop, active, progress, runs>>

Next == \/ CountConfigs \/ GenerateStates \/ StartDevice
        \/ PassOver \/ RunState \/ StateCompletes \/ GeneratorAborts
        \/ NextTypeConfig \/ FinishDevice \/ FinishBenchmark \/ FinishAll

Spec == Init /\ [][Next]_vars

\* One host thread that never waits, provided the generators return.
FairSpec == Spec /\ WF_vars(Next)

-----------------------------------------------------------------------------
(* Properties.                                                             *)

Generated == {b \in DOMAIN benchmarks :
                b < current \/ (b = current /\ point # "benchmark")}

\* A state is always handed to the template instantiation of its own types:
\* the run-time odometer and the compile-time cartesian product number the
\* type configurations alike (state_generator.cxx, build_axis_configs).
RunsOwnInstantiation ==
  \A b \in DOMAIN runs : \A r \in DOMAIN runs[b] :
    runs[b][r].types = states[b][runs[b][r].state].types

\* While a state runs, its device is the active one, and its stream was made
\* on that device (checked by measure_cold_base::check at run time).
RunsOnOwnDevice ==
  point = "running" /\ CurState.device # NoDevice =>
    active = CurState.device /\ CurState.stream = CurState.device

\* The ways to take one of the values offered by each of several axes.
Selections(offered) ==
  {u \in [DOMAIN offered -> UNION ToSet(offered)] :
     \A a \in DOMAIN offered : u[a] \in offered[a]}

\* The configurations the axes, masks and devices call for, whatever the order.
Expected(bench) ==
  LET Active(a) == {i \in 0 .. Len(bench.types[a]) - 1 : bench.types[a][i + 1]}
  IN  [types  : Selections([a \in DOMAIN bench.types |-> Active(a)]),
       others : Selections([a \in DOMAIN bench.others |-> 0 .. bench.others[a] - 1]),
       device : ToSet(Passes(bench))]

\* A benchmark that has been run called its generator exactly once for each
\* configuration called for, however many of its states failed or skipped,
\* and never for a masked one, if no device is listed twice.
FinishedBenchmarkCovered ==
  \A b \in DOMAIN runs : b < current /\ IsInjective(benchmarks[b].devices) =>
    LET Ran(r) == LET s == states[b][r.state]
                  IN  [types |-> r.types, others |-> s.others, device |-> s.device]
        ran == [r \in DOMAIN runs[b] |-> Ran(runs[b][r])]
    IN  IsInjective(ran) /\ ToSet(ran) = Expected(benchmarks[b])

\* Without devices the count of the states is zero, and a device listed twice
\* makes each of its states run twice.
DevicesAreCounted(bench) == bench.devices # <<>> /\ IsInjective(bench.devices)

\* The progress line "[completed + 1 / total]" never passes the total, and a
\* run that finishes has completed the total, if the devices of the benchmarks
\* are counted.
ProgressIsExact ==
  (\A b \in DOMAIN benchmarks : DevicesAreCounted(benchmarks[b])) =>
    /\ point = "running" => completed + 1 <= total
    /\ point = "finished" => completed = total

\* The loops over benchmarks, devices, type configurations and states end,
\* whichever of the states skip or fail (runner.cuh, run_device).
RunEnds == <>(point \in {"finished", "aborted"})
=============================================================================
