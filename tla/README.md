# hipBench in TLA+

TLA+ specifications of hipBench, the HIP/ROCm port of NVBench: a C++ library
that generates the states of micro-benchmarks from their axes, runs a kernel
launcher in each of them under several measurement schemes, decides by a
statistical criterion when enough samples were taken, and reports the results.
The modules model the parts of `src/nvbench` that hold the program's own control
logic. TLC checks them on small instances, and TLAPS proves the properties that
matter most for every value of the constants.

Paths below are relative to `src/nvbench` unless they begin with `docs/`.

## 1. Inventory

The process has one host thread. The concurrency is between this thread and the
devices: streams execute what was queued, and one kernel of the library's own
(`block_stream`) communicates with the host through mapped memory while it runs.

```
main.cuh ── option_parser ──> benchmarks ──> runner ──> state_generator ──> states
    │                                          │  (one per type x value x device)
    │                                          v
    │                                kernel generator (user code)
    │                                          │ state.exec(tags, launcher)
    │                                          v
    │   measure_cupti, then measure_cold, then measure_hot;  or measure_cpu_only
    │                  │            │                 │
    │         blocking_kernel   gpu_frequency   stopping criterion (shared, by name)
    │                  │                              │
    │          device kernel                    ring_buffer, statistics
    v
printer_multiplex ──> markdown, csv, json printers ──> results, sample files
```

| Part | State it keeps | Operations | Hard behaviour | What makes it correct |
|---|---|---|---|---|
| Blocking kernel (`blocking_kernel.{cu,cuh}`) | two mapped words (flag, timeout flag), the spinning kernel | constructor, `block`, `unblock`, destructor; the device loop | interleaving of host, device and store buffer; deadlines; unwinding | work is timed only after it was released; a timeout is genuine; memory outlives the kernel; the host never waits forever |
| Cold measurement (`detail/measure_cold.{cu,cuh}`) | sample counts, times, throttle counters, wall clock | check, initialize, warm-up, trial, record, is_finished, summaries, skip time | throttling, timeout against convergence, exceptions | discarded trials leave no trace; it ends, soon after the timeout; it ends for a reason that is reported |
| Hot measurement (`detail/measure_hot.*`) | totals, batch size, launches of the batch, whether the stream is held | warm-up, batches, summaries | prediction of the batch size, two launches while blocked, a sample count taken from another measurement | more samples than the isolated measurement before it, or the timeout; progress in every batch |
| CPU-only measurement (`detail/measure_cpu_only.*`) | as the cold one, CPU times | as the cold one | timeout, skip time | it ends whatever the criterion answers |
| CUPTI measurement and profiler (`detail/measure_cupti.*`, `cupti_profiler.*`) | the library's profiler, session, pass, evaluator, configuration | constructor, replayed passes, counter values, destructor | some thirty calls any of which fails; destructors that check their call | closed before another measurement launches; each metric has its own value |
| exec dispatch (`detail/state_exec.cuh`, `exec_tag.cuh`) | settings of the state, the measurements a call owes | exec | the sync tag is sticky, exceptions between measurements, skip | the measurements the tags ask for, in order, once; a launcher that synchronizes is never behind a blocking kernel |
| State (`state.*`, `summary.cuh`) | settings, summaries, counts, metrics, skip mark | skip, add_summary, get_summary, add_element_count, add_global_memory_*, collect_* | summaries are found by tag, then by name | what one measurement leaves is what the next finds |
| `stdrel` criterion (`detail/stdrel_criterion.*`) | sample count, total time, noise tracker | initialize, add_measurement, is_finished | one object for all measurements; small samples; wrap-around | stops only by the noise of its own measurement |
| `entropy` criterion (`detail/entropy_criterion.*`) | sample count, sorted frequency table, tracker of entropies | the same | the same; a table kept sorted by hand | the table counts exactly its own samples; stops only by their entropies |
| Ring buffer (`detail/ring_buffer.cuh`) | slots, index, full mark | push_back, clear, iteration, back | wrap-around, exactly full, clear when full | a sliding window |
| Criterion registry and parameters (`criterion_manager.*`, `stopping_criterion.*`, `named_values.*`) | one criterion per name, its parameters | get_criterion, initialize, set_from | history of earlier benchmarks | given values in force, names and types kept |
| State generation (`detail/state_generator.*`, `detail/type_list_impl.cuh`) | odometers, configurations, states | add_axis, next, build_axis_configs, build_states | two enumerations, one at compile time, that must agree | each state meets its own instantiation |
| Runner (`runner.*`, `benchmark.cuh`, `main.cuh`) | states, loop indices, active device, progress | generate_states, run, run_device, exception handling | failing states, several devices, masks | each configuration runs once, on its device; progress is exact |
| Benchmark manager (`benchmark_manager.*`) | registered benchmarks | add, clone, initialize, lookup | devices are not known at static initialization | every benchmark gets its devices |
| Axes (`axes_metadata.*`, `*_axis.*`, `range.cuh`) | names, types, inputs, values, masks | declaration, update from the command line | powers of two at the width of the integer, strides, masks that are replaced | an axis reads as it was last given |
| Option parser (`option_parser.*`) | benchmarks, global arguments, recent devices, printers | one handler per option | replay of global arguments, order of options | an option reaches exactly the benchmarks in its scope |
| Printers (`*_printer.*`, `printer_multiplex.*`, `internal/table_builder.cuh`) | output, number of sample files, progress | log, bulk data, results, lists | ragged summaries, files that cannot be written, a printer that throws | a value stays in the row of its state; a sample file is that of the state that names it |
| Devices, timers, L2 flush, frequency | handles | wrappers of runtime calls | - | - |

`PROJECT.json` lists every part with its status, and the hazards with the line
at which each bites and the properties that would catch it.

## 2. Modules

| Module | Models | Used by |
|---|---|---|
| `TrialGate` | abstract: what a measurement is promised about one trial | `BlockingKernel` (refinement) |
| `BlockingKernel` | `blocking_kernel`, its device kernel and `kernel_launch_timer` | `MCBlockingKernel`, `MeasureColdProofs` |
| `MeasureCold` | `measure_cold`, `measure_cold_base` | `MCMeasureCold`, `MeasureColdProofs` |
| `State` | `state`: settings, summaries, counts, metrics | the three below |
| `MeasureHot` | `measure_hot`, `measure_hot_base` | `Exec` |
| `MeasureCpuOnly` | `measure_cpu_only`, `measure_cpu_only_base` | `Exec` |
| `MeasureCupti` | `measure_cupti`, `cupti_profiler` | `Exec` |
| `ExecContract` | abstract: the measurements a call of exec owes and reports | `Exec` (refinement) |
| `Exec` | `state::exec`, `exec_tag`, the generator's calls and the runner's handler | `MCExec`, `ExecProofs` |
| `SlidingWindow` | abstract: the last N values since the last clear | `RingBuffer` (refinement) |
| `RingBuffer` | `ring_buffer` as operators and as a state machine | both criteria (instances), `RingBufferProofs` |
| `StdrelCriterion` | `stdrel_criterion` under the measurement loop | `Criteria` |
| `EntropyCriterion` | `entropy_criterion` as an object | `Criteria` (instance) |
| `Criteria` | both criteria in one process | `MCCriteria`, `CriteriaProofs` |
| `CriterionRegistry` | `criterion_manager`, `criterion_params`, `named_values` | `MCCriterionRegistry`, `CriteriaProofs` |
| `StateGenerator` | `state_generator`, `state_iterator`, `tl::cartesian_product`, `get_config_count` as operators | `Runner` |
| `Runner` | `main_run_benchmarks`, `do_run`, `run`, `run_device`, progress | `MCRunner`, `RunnerProofs` |
| `Axes` | axes of every type, value specifications, `range` | `OptionParser` |
| `OptionParser` | `option_parser`, `benchmark_manager`, settings of `benchmark_base`, used devices | `MCOptionParser`, `OptionParserProofs` |
| `Report` | `table_builder`, the markdown, CSV and JSON documents as structures | `Results` (EXTENDS) |
| `Results` | the phases of `main`, `printer_multiplex`, sample files | `MCResults`, `ResultsProofs` |
| `SequenceLemmas` | nothing of the code: lemmas on sequences, recursion, flattened lists and sums | the proofs of `Exec`, `Runner`, `Criteria`, `Results`, `OptionParser` |

### BlockingKernel

`host` is the program counter of the thread inside `start()` .. `stop()`, with
one value per access to the shared words; `kernel` is that of the device kernel.
`flag` and `timeoutFlag` are `m_host_flag` and `m_host_timeout_flag`,
`registered` is their mapping into the device's address space. Accesses on the
host that the compiler may not reorder can still be delayed by the processor's
store buffer: `unblock()` stores the flag and then loads the timeout flag, so
`StoreFlag` only sets `pendingStore`, and `StoreDrains` makes the store visible
at any later point. A stream synchronization drains it. The kernel reads the
clock (`KernelSamples`) at another moment than it acts on it, as in the code.
Once the memory is unregistered (`Destroy`), what the kernel reads is
undefined: `FlagRead` is then any value.

The launcher is user code. `plain` submits and returns, `syncs` also waits for
the device after each entry (the case the documentation warns of), `throws` may
throw at any point of its frame. The stream is in order, so `WorkRuns` waits for
the kernel. `early` and `called` are history: an entry ran before `unblock()`
was entered, and `unblock()` was entered.

`TrialGate` says the same without flags, clocks, kernel or buffer: a gate that
may give way, and a trial that is not accepted when it did. `ImplementsGate`
maps `begun` to whether an entry ran, early or not, and `verdict` to the outcome.

### MeasureCold

One action per method of `measure_cold`, in the order of `operator()()`. The
wall clock advances in trials and in cool-down pauses. `Discard` and `Record`
are the two branches of `record_measurements`, each with all the state it
changes: the pause grows from the fourth consecutive discard on, by at most half
a second. Times and noise are kept only as far as the code compares them: the
position of the noise relative to `max-noise` and of the total relative to
`min-time`. The criterion is its answer. For `stdrel`, `MayAnswer` constrains it
to what `do_is_finished` can return for these positions (`StdrelCriterion` has
its details); any other criterion may answer anything, and its `initialize`, the
last thing `Initialize` calls, may throw (`CriterionRegistry`). A launch that throws
stands for an exception of the user and for `unblock()` that throws
(`BlockingKernel` with outcome `timeout`).

### State, MeasureHot, MeasureCpuOnly, MeasureCupti and Exec

`st` is the `nvbench::state`, a record; its operations are operators on it, so
that `Exec` can apply several of them in one step. Summaries are kept in order
with tag, name and value, because the code finds them so: `get_summary` looks for
the tag, then for the name, and throws when it meets one without a name.

`MeasureHot` is the loop of `run_trials`: `HotStart` begins a batch, each launch
is a step, and the stream is held while at most two are queued. The size of the
next batch is computed in integers from the measured time; a division by a time
of zero gives the least integer on x86-64, which the clamp to one absorbs.
`MeasureCpuOnly` is the loop of its measurement with a criterion that answers
anything: what the two built-in ones answer is in `Criteria`.

`MeasureCupti` is a little machine. The profiler is a sequence of library calls,
so each method is a sequence of instructions: a call, the acquisition or release
of a resource, and the point from which a destructor would release it. An
instruction succeeds (`CuptiStep`) or fails; then the guarded resources are
released and the rest stays held, unless a destructor throws as well, which
ends the process.

`Exec` composes them. The generator is user code: it may skip, count, ask for
metrics, call exec with any of the tag sets, throw or return, several times in
any order. `plan` is what the call in progress owes. `Construct` is the
constructor of the next measurement, the point at which it reads the state;
whatever throws unwinds the measurement, ends the call and the generator, and
the runner skips the state (`Caught`). Then, as after a generator that returned,
it goes on to another state in the same process (`NextState`), so that what a
profiler failed to release meets the measurements that follow; `left` is history,
what profiled measurements that threw have left acquired. The isolated
measurement is one step with any number of samples: `MeasureCold` says how it
gets there. `ExecContract` knows only what is owed, what has been reported on the
state, and whether its generator is through, and `ImplementsContract` maps
`reported` to the summaries that end each measurement.

### StdrelCriterion, EntropyCriterion, RingBuffer and Criteria

The criterion objects survive their measurements: `Initialize` clears counters
and tracker, and `GiveUp` abandons a measurement at any point, as a timeout or an
exception does. Whether the noise is finite depends on the number of samples and
on the mean, as in `statistics::standard_deviation`; its value is then an
arbitrary level. The comparison of the spread of the tracked noise with 5 % is
made in integers. `fed` is history: the finite noise of this measurement.
`RingBuffer` keeps old values in the slots when it is cleared, as the code does.

`EntropyCriterion` keeps the table of `<<time, count>>` pairs with the insertion
at the place a lower bound finds. Entropies are fixed-point numbers made from a
table of logarithms, the slope and R^2 of the regression are compared as
rationals without dividing, so that the module is exact in integers. `Criteria`
is the process: both objects, and measurements that choose one of them.

### CriterionRegistry

Parameters are lists of entries, since `named_values` is a vector: a lookup
finds the first entry of a name, `set_value` appends. `SetNext` is one round of
the loop of `set_from`, over the names read when it started, so that an
ill-typed parameter leaves the earlier ones set.

### StateGenerator and Runner

The odometer, the reversal of the type axes and the masks are functions of the
benchmark's axes, next to the recursion of `cartesian_product` they have to agree
with; both are recursive functions, not RECURSIVE operators. A state carries
the device it belongs to and the device its stream was created on, which is
whatever device was active. In `Runner`, `pass`, `typeConfig` and `cursor` are
the three loops; a generator may return, skip, throw a `std::exception` before or
after skipping, or throw something else, which leaves for `main`'s
`catch (...)`. `runs` is history: the calls of the generator with the types it
was instantiated for.

### Axes and OptionParser

A word of the command line is what the parsers see of it: its text, and the
number `std::stoi` finds at its start. Integers have the width `WordSize`, where
`1 << exponent` of a power-of-two axis wraps. A parser of values returns them,
refuses, or never returns (`Endless`: a range with a stride of zero or less).

The handlers of `parse_range` are operators on the parser's record, because
`add_benchmark` re-enters them: options given before the first `--benchmark` are
kept and replayed on every benchmark cloned later. `Initialize` is
`main_initialize`, `FinishParse` the rest of `parse_impl` (all benchmarks when
none was named, the default printer, the used devices).

### Report and Results

A table is its columns with keys and rows; a number is its order of magnitude,
which decides the unit. `Report` says what each printer makes of finished
benchmarks, as structures. `Results` runs through the phases of `main`:
preamble, states, epilogue, results; the multiplexer hands each call to the
printers in order. A state runs one measurement after the other, as many as its
generator's calls of exec make (`Measured`); each isolated or CPU-only one
(`TimeState`) hands its sample times to the printers, and the JSON printer with
binary output writes a file of them: written, cut off by a write that throws, not
opened, without a directory, or with a tail that is lost without a word, since
the stream is closed by its destructor. The generator may skip or throw after any
of them (`SkipState`), and the files and summaries of the earlier ones stay. `at`
is the state to run next, over benchmarks some of which have no states;
`NextBenchmark` is the loop of `main_run_benchmarks`. A
benchmark without devices adds nothing to the total of the progress lines
(`get_config_count`), and without a total they show none. A loop with `continue`
is a `Selection`: what is kept, at which places.

## 3. Properties and runs

Each run lists its properties in `PROJECT.json`; each property is stated in words
above its definition.

**kernel** (`MCBlockingKernel.cfg`). `RecordedTrialWasGated` is the promise of
the header: no entry of a recorded trial executed before `unblock()`. It needs the
timeout flag to be up before the kernel ends, and the flag to be cleared before
the launch. `TimeoutIsGenuine` excludes a report left by an earlier trial.
`FlagsOutliveKernel` says that memory which a kernel still polls is unmapped on
one path only, neither the normal end nor a detected timeout: that of a launcher
which throws between `block()` and `unblock()` (disagreement 5). `HostFinishes` is
liveness, with launchers that deadlock included. `ImplementsGate` is the refinement. Bounds: two
trials (all cross-trial effects are from one trial to the next: every flag is
rewritten at the start of each), two entries per trial (one before and one after
a synchronization), clock up to 2 with timeouts -1, 0, 1, 2 (disabled, at once,
and room for a sample before and after the deadline).

**negative** (violation, `NegativeDisablesTimeout`). A negative timeout,
documented to disable the check, is reported and may reject the trial: the test
after the loop ignores `use_timeout`.

**criterion** (`MCCriteria.cfg`). `StoppedByOwnMeasurements` relates a positive
answer to the samples of this measurement alone: for stdrel to the noise fed to
it, for entropy to the entropies of every prefix of its times, recomputed from
the times. `FrequenciesAreOwn` says that the sorted table counts exactly those
times. `TrackersAreWindows` is the refinement of both ring buffers to windows, as
the criteria drive them. `BackOfNonEmptyTracker` is the assertion in `back()`; it
holds with min_samples 4 or more. Bounds: trackers of 3, convergence after 2
values, checked every 2 samples, 8 and 6 samples, two measurements of either
criterion, the first perhaps abandoned: the trackers wrap and converge, as 512,
299, 64 and 16 do; two times are enough for an insertion before, at and after an
entry.

**registry** (`MCCriterionRegistry_shape.cfg`). `GivenParametersInForce` over
three measurements of 15 kinds of benchmark, with unknown criteria and ill-typed
values, in any order; two would show an effect on the next, three show that it
does not accumulate.

**stale** (violation, `UngivenParametersAreDefault`). A parameter outlives the
benchmark that gave it.

**runner** (`MCRunner.cfg`). `RunsOwnInstantiation` (the two enumerations
agree), `RunsOnOwnDevice` (also for the stream made at generation time),
`FinishedBenchmarkCovered` (each configuration exactly once, against a
definition of the configurations that uses no order), `ProgressIsExact`,
`RunEnds`. The programs have type axes of different lengths, where a reversed
order shows, masks at the start, end and everywhere, an axis without values,
no type axis, no other axis, no benchmark, two devices in either order, no device
and one that is listed twice. For the last two the code does something else than
the properties of coverage and progress say (each state runs twice, and the total
is zero), so these are stated for lists of devices without repetition and, for
progress, not empty (`DevicesAreCounted`).

**cold** (`MCMeasureCold.cfg`). `DiscardedNeverSampled`, `OvershootBounded`,
`EndsForAReason`, `SilentTimeoutOnBoundary`, `NoPartialResults` and the liveness
property `MeasurementEnds`. A trial lasts at least one tick and the timeout is at
most 6, so that no measurement has more than 7 trials: `MaxTrials` = 8 never
binds, and if it did a trial would be due that can not begin and the liveness
property would fail. Six ticks allow four consecutive discards, the last with a
grown pause; min_samples is 2, so that a total can be above min-time with too few
samples.

**exec** (`MCExec.cfg`). `SyncNeverBlocked` relates the tags of the call in
progress to whichever measurement holds the stream. `HotMatchesCold` relates the
sample sizes two measurements reported, across calls. `ProfilerClosed` says that
while another measurement runs, of this state or of a later one, the profiler
holds nothing but what a thrown failure has left: the run reaches such
measurements, as the destructor of the profiler ends no session.
`ImplementsContract` is the refinement of `ExecContract`, in which a profiled
measurement counts as reported only if each metric has its own value. `ExecEnds`
is liveness: no batch size, criterion or failure keeps a call from ending.
Bounds: five benchmarks (plain, run once, CPU-only with and without, blocking
kernel disabled), five sets of tags, three calls on all states together (one exec that
leaves settings, summaries or a session, something in between, another exec, on
the same state or on the next; a second profiled measurement behind a session
that was left takes four, and only the theorem covers it), GPU times 0 and 4 and
CPU times 0 and 2 against a timeout of 5 (or 2) and a minimum time of 3, so that batches
overshoot, converge, or measure nothing; sample counts 1 and 3 against a
min_samples of 0; metrics two of which are neighbours in the middle of the list,
so that an index that is off shows; up to two passes.

**blocks** (violation, `DisabledMeansUnblocked`). The batched measurement blocks
the stream although the blocking kernel is disabled.

**options** (`MCOptionParser.cfg`). The four properties read the command line
without replaying it: `SettingsInForce`, `DevicesInForce` and `AxesInForce` say
that each benchmark has what the last option in its scope asks for, where the
scope is what follows its `--benchmark` and what precedes all of them;
`PrintersAsAsked` does so for the printers. A range has to hold every number up to
its end that its stride reaches and none beyond; of a floating-point one the code
lets in one number more, by no more than half a stride, which `GivesNumbers` admits
and disagreement 16 describes. Bounds: lines of up to four of 25 options (a
global option, two benchmarks and an option of the second is the shortest line
where replay could reach the wrong one), two registered benchmarks with
axes of every type and one name in common, two devices, words of six bits.

**lock** (violation, `ModifiesMostRecentDevices`). A replayed global `--devices`
changes the devices that a later `--lock-gpu-clocks` acts on.

**results** (`MCResults.cfg`). `RowsAligned` compares each printed table with the
summaries of its states, cell by cell; `SampleFilesAreOwn` follows the files from
the state that names them to the measurement they are of, and asks for a warning
for each failure but the one that closing a file hides; both are stated in
`Results`, next to the definition of a table that has given rows (`TableOf`).
Bounds: a benchmark of four states on two devices, one without states and a
CPU-only one, so that rows, devices and file numbers of different states and
benchmarks can be confused; two measurements over all states, which are enough for
two of one state, one before a skip, and one of each of two states or benchmarks
(files, numbers and cells are related in pairs); three kinds of summaries, one
given twice and one without a value, at which two of the printers throw.

`CHECK_DEADLOCK FALSE` is set for `Runner`, `MeasureCold`, `Exec` and `Results`,
which end; in `BlockingKernel`, `Criteria`, `CriterionRegistry` and
`OptionParser` the end is an explicit step, so that a deadlock would be an error.

### Fairness

`BlockingKernel`: weak fairness of the host thread (it is scheduled), of the
resident kernel and of queued work (the device makes progress), of the device
clock and of the store buffer (stores become visible in finite time). No
fairness is assumed of the launcher: that it returns, throws or submits is
the host's step, but which of these is its own choice, and `syncs` waits.
`Runner` and `MeasureCold`: weak fairness of `Next`, that is one thread that
never stops, given that user code returns; for `MeasureCold` this is what
`BlockingKernel`'s `HostFinishes` provides. `Exec`: weak fairness of
`Program`, the steps of the measurements that succeed; none of the failures and
none of what the generator does is assumed to happen. The safety properties
assume no fairness.

## 4. Proofs

`MeasureColdProofs` holds the proofs of two separate specifications, that of the
measurement and that of the kernel which gates its trials. About `BlockingKernel`,
from `ConstantsAssumption` alone:

- `KernelTypeCorrect`: `KernelTypeOK` is inductive by itself.
- `RecordedTrialsWereGated`. The property alone is not inductive. `GateInv` adds
  why: from the reset of the flag until `unblock()` no store is pending and the
  flag is 0 (`TimedOutIfEnded`), so a kernel that left its loop is past its
  deadline and one that ended has raised the timeout flag; hence an entry that
  ran early is known to `unblock()` (`EarlyIsReported`). The memory is registered
  throughout, so the undefined reads of a destroyed blocker do not matter here.
- `TimeoutsAreGenuine`, with `GenuineInv`: the timeout flag is 0 from its reset
  until the kernel of this trial is past its deadline on a clock that started
  with it. No kernel of an earlier trial can raise it since `start()` waits.
- `FlagsOutliveTheKernel`, with `MemoryInv`: which points of the host have the
  memory registered, and that a kernel is over when the host leaves the last
  synchronization. What it leaves open is the launcher that throws before
  `unblock()`: there the blocker is destroyed while its kernel waits.
- `KernelImplementsGate`: with `MapInv`, which ties the outcome to the point of
  the host, initial states map to initial states, and each action maps to one
  action of the gate (`Start` to `Arm`, `StoreFlag` to `Open`, the first
  `WorkRuns` to `Begin`, `FinalSync` to `Accept`, `ReadTimeoutFlag` to `Reject`,
  `LauncherThrows` to `Abandon`) or to a stutter.

About `MeasureCold`, from `MeasureAssumption` alone, with one inductive invariant
per theorem: `SampleInv` (before the first trial nothing is recorded, and in
`record` exactly the latest trial is undecided), `ClockInv` (in the loop the
clock at the last test was within the timeout), `ReasonInv` (why the loop was
left), `ReportInv` (under stdrel, an answer `no` with enough samples places noise
and time), `PartialInv` (where a skipped state can be). They establish
`DiscardedNeverSampled`, `OvershootBounded`, `EndsForAReason`,
`SilentTimeoutOnBoundary` and `NoPartialResults`.

`ExecProofs`, from `ExecAssumption` (the tag sets the generator uses compile,
metrics are the ones there are), `BenchmarksAssumption` (types of the settings),
`PassesAssumption` (at least one pass), the types of durations and times, and, for
`HotMatchesCold` and `ImplementsContract`, `TagAssumption`: tags that are put
together from names are none of those that are looked for. TLC evaluates the last;
the provers know nothing of the concatenation of strings.

- `PublicTagsCompile`: any union of public tags without both `gpu` and `no_gpu`
  satisfies the assumption, with the measurements it selects by default. So the
  theorems below hold of every program that compiles.
- `SyncIsNeverBlocked`. The tags of a call and the measurement that holds the
  stream are connected through the state, which the next one replaces only when
  no call is in progress (`EndedOwesNothing`): `ExecInv` says that the settings of a
  `sync` tag are still there while the call lasts (`SyncDisables`: no operation of
  the state, no summary and no exception changes a setting), that the isolated
  measurement holds the stream only if they allow it (`ColdHolds`), that the
  batched one does only while its turn lasts (`HotHolds`), and that a plan has no
  batched measurement its tags did not select (`PlanOfTags`), which the
  static_asserts exclude for `sync`. The batched measurement ignores the
  setting (finding 4), so this detour is what the deadlock freedom rests on.
- `SkippedIsNotMeasured`, from the same invariant: `SkippedOwesNothing`.
- `ProfilerIsClosed`. The instructions of the profiler are sequences put together
  by concatenation, so what they leave behind is first defined for any sequence
  (`Leaves`, `GuardsHeld`, `GuardedAtOnce`) and shown to carry over to a
  concatenation (`SoundConcat`, `PieceConcat`); each method of `cupti_profiler` is
  then a lemma (`EvaluatorPiece` .. `ValuesSound`). `ProfilerInv` says that what
  is held when code remains is what that code lets go of, in the loop over the
  passes (`LaunchesLast`, `Kept`) and behind it (`Unguarded`: what a failing
  instruction does not release has a destructor that does), each time up to what
  earlier failures have left, which no step makes less. The theorem is about every
  state the runner goes on to. It does not say that a failure leaves nothing: one
  that is thrown between the begin of a session and its end leaves it open.
- `TypeCorrect`, with `TypeInv`: the numbers of the batched loop are integers
  although they come from divisions and from summaries (`Typed`).
- `HotIsAsLongAsCold`, with `MatchInv`: the summaries so far match (`Matched`),
  also when any other operation adds one (`ForeignKeepsMatched`), and a batched
  measurement in progress waits for the sample size that a lookup of its state
  still finds (`HotWaits`), although lookups go by tag and then by name.
- `ExecImplementsContract`, the refinement of `ExecContract`, step by step: a
  measurement that finishes is a `Report` (`ColdEnds`, `HotShows`, `CpuShows`,
  `CuptiShows`), unreadable counters are an `Omit`, what is thrown a `GiveUp`, a
  call of exec a `Begin` of one of the plans that exist (`PlanIsOwable`), the end
  of the generator an `End` and the next state a `NextState` without reports, and
  every other step stutters. What is reported is a function of the summaries, so the
  proof shows that added summaries report what they do in any list (`ShownConcat`)
  and that all but the last of a measurement report nothing (`LastEnds`). It needs
  the invariant `Honest`: every summary named like a metric has the value of that
  metric. That holds because the results are in the order of the metrics asked for
  (`ResultsAreOwn`: two selections from one list, labelled, are the same selection
  from its labels, `FlattenLabels`).

`CriteriaProofs` also has the theorems about `CriterionRegistry`, from
`RegistryAssumption` (the lists of entries a criterion or a benchmark begins with
have no name twice):

- `RegistryTypeCorrect`: an update removes one entry and appends one with its name and
  type, so a list keeps its shape (`ReplacedIs`), in any order.
- `InForce`, with `SetSoFar`: while `set_from` goes through the names it read at
  the start, each name is due once, and every parameter given whose turn has
  been is the one in force. The names are read before the first change, so the
  entries that move to the end while the loop runs are not visited again.

`RunnerProofs`, from `ProgramsAssumption` (the programs are lists of benchmarks),
for any number of axes of any lengths, any masks, devices and benchmarks:

- `ConfigsAgree`: `state_generator`'s odometer over the reversed type axes and
  `tl::cartesian_product` enumerate the same configurations in the same order.
  Both are recursive; each is shown to satisfy its defining equation
  (`NumberOfStates`, `EnumerationIs`, `ProductSteps`), then to climb from the
  lowest tuple to the highest by the same step (`Bump`, `ProductIs`,
  `OdometerIsProduct`), by induction over the number of axes.
- `TypeCorrect`, `OnOwnDevice` and `OwnInstantiation`, with `RunnerInv`: where the
  loops are and which device is active there (`Placed`), what the lists of states
  hold (`Listed`), what the generators were called with (`Called`).
- `BenchmarksCovered`. Each enumeration lists every tuple below its sizes and none
  twice (`ProductLists`, `EnumerationLists`); what `build_states` flattens
  therefore lists the expected configurations (`StatesList`, `ExpectedIs`).
  `CoverInv` adds that the states that have run are exactly those the three loops
  have passed (`Reached`, `Passed`), each once (`Once`).
- `ProgressExact`: `get_config_count`, which multiplies before any state exists,
  is the length of the list of states (`ConfigurationsCount`), and `Counted` says
  how far the count has come in terms of the calls made (`RunsCounted`).

`SequenceLemmas` holds what these proofs need of sequences and recursion. The
library's induction theorems cannot be used here, since they take an operator as
parameter; induction is by the least element of a set of naturals
(`LeastNatural`, `UpTo`, `FromZero`) applied to a set defined in the proof, and a
recursive function is shown to have its defining equation by constructing it up to
each bound (`RecursionUpTo`). `FlattenSteps` does so for `FlattenSeq`, a fold;
`FlattenPlaces` and `FlattenLists` say where its elements come from and when it
lists a union once; `FlattenConcat` and `FlattenLabels` that it distributes over
concatenation and over a function applied to each element. `SumFunction` is another fold over a set: its table of partial
sums exists and is unique (`SumTableExists`, `SumsAreUnique`), any element may be
taken first (`SumPicks`), and sums are monotonic, linear and independent of names
(`SumIsMonotonic`, `SumIsLinear`, `SumIsMoved`, `SumOfCounts`).

`CriteriaProofs`, from `StdrelAssumption`, `CriteriaAssumption` (the logarithm
grows, starts at zero and covers every number of samples; the window holds
something) and, where stdrel's verdict or `back()` is concerned,
`MinSamples + 1 >= StdevSamples`, without which the code does read it of an empty
tracker (finding 6):

- `BackHasAValue`, with `TrackedWhenFinite`: when the noise of the samples so far
  is finite the tracker is not empty.
- `FrequenciesAreExact`, with `EntropyInv`: the members of the entropy criterion
  are a function of the times added since the last initialize (`EntropyIs`). The
  place a lower bound finds divides the table into less and not less (`PlaceOf`),
  so counting up, inserting there and appending each keep the order and add one
  occurrence (`CountedIs`).
- `CriteriaTypeCorrect`. That an entropy stays between zero and the largest
  possible needs sums: the entropy made of the table is that of the times
  (`TableHasEntropy`, a sum does not depend on what its summands are called), and
  the counts add up to the number of samples, so the sum of count * log2(count) is
  between zero and n * log2(n) (`EntropyIsEntropy`).
- `StopsByOwnMeasurements`, for both criteria: while one measures, its tracker
  holds the window over the noise, or the entropies after each prefix, of this
  measurement alone (`NoiseInv`, `EntropyStops`), through any measurements of the
  other in between. `StdrelStopsByOwnNoise` is its stdrel half.
- `TrackersImplementWindows`: every step of the process pushes one value into a
  tracker, clears it or leaves it alone, and each is a step of `SlidingWindow`.

`RingBufferProofs`, for a positive capacity: `TypeCorrect`, `BackIsTheNewest` and
`BufferImplementsWindow`. The remainder is a comparison for positions below twice
the capacity (`Wrapped`); `PushWithRoom` and `PushWhenFull` then compare the
contents before and after a push position by position. `TracksPushed` and
`TrackedHistory` say what a push and a read mean for a history of which the
buffer keeps the end (`Latest`); `CriteriaProofs` uses the module twice, for the
tracker of noise and the tracker of entropies.

`ResultsProofs`, from `ResultsAssumption`: printers have formats, states are as
the generator makes them (on one of the devices of their benchmark, one for each
device if there are no axes), and measurements collect no summaries of the type
"file". The first half is about tables and names no step:

- `TableIs`: `Table(rows)` has the given rows (`TableOf`). `ColumnOK` is what
  `add_cell` keeps of a column when it has placed k cells of row r: the cells of
  the rows before are right, it ends at a value, and it has one in this row
  exactly when one of the k cells has its key. Every column then has its length
  from a value (`Filled`), so the longest one is as long as the table unless the
  last rows are empty; hence the hypothesis that at most one row is empty, and
  only if it is the only one. A CSV row is never empty (`CsvCellsAre`), a
  markdown row only without axes (`MarkdownCellsAre`), and then a device has one
  state (`DeviceTable`).
- `AddRowSteps` and `AllRowSteps` turn the folds into tables of steps, and
  `SelectionIs` says which elements a selection has, each from a place of its own.

The second half is the inductive invariant, in four parts that TLC has checked on
the instance of the run:

- `Structure` (`Structured`): the states are the generated ones, only their
  summaries and skip marks change (`GivenSummaries`), the runner is at one of them
  or at the end of a list, and the logs only grow (`LogsGrow`).
- `Documents` (`DocumentsKept`): every printed document says what the benchmarks
  have collected, since nothing changes them after the last state (`AfterRun`).
  `Aligned` follows with `MarkdownIsAligned` and `CsvIsAligned`. It is stated for
  benchmarks that list no device twice: with a device listed twice each of the
  two tables has the states of both passes (hazard at `runner.cuh:69`), so the
  claim that a state is in one table is false of the code then. The part about
  the CSV table needs no such hypothesis.
- `Counts` (`Counting`): the states counted are those before the current one,
  over all benchmarks (`SizesAre`), no printer has taken more numbers than there
  were measurements (one less until its turn has come), and every file has a
  number below the next one.
- `SummariesOwn`: what a state names was given to a measurement of that state
  (`Own`), with a number that no other measurement has (`Apart`), and no write of the
  file has failed or a warning is in every markdown log. A path is fresh when it is
  given because numbers are taken before files are opened (`BulkFiles`,
  `FreshIsOwn`), a step names at most one file (`StepNames`), and a warning stays
  (`WarnedStays`). `FilesAreOwn` and `TypeCorrect` follow. What is lost when a stream
  is closed has no warning in the code and none in the property (disagreement 13).

`OptionParserProofs`, from `ParserAssumption` (the registry holds benchmarks, a
CPU-only one has no devices, an option is one the parser knows, the ids in a
`--devices` are integers), for lines of any length. The line is read by key: a
setting, a criterion parameter, or the devices. An option gives values to keys
(`Gives`, `Meant`) and the value in force at some places is the last one given
there (`InForce`).

- Every handler is one of two things (`SetsOrKeeps`): before any benchmark it
  keeps an option that stands for the one given, afterwards it gives the values
  of the option to the last benchmark and changes no other (`GivenBy`).
  `HandleApplies` says so of all of them, with `--profile`, which is kept as two
  options, and of what they do to the printers (`Prints`).
- Replaying is a fold of the same handlers. What was kept leaves the same in force
  as the options it was kept from (`Noted`, `AgreeNext`), so a benchmark cloned
  later has what the options before the first `--benchmark` say (`ReplayGives`,
  `ClonedAdds`, and `AddAllAdds` when the line names no benchmark).
- The scope of a benchmark is known by the rank of places among those of
  `--benchmark`, and one more option extends one scope, or all of them
  (`ScopeStarts`, `ScopeGoesOn`); `StartKeepsParsing` and `OptionKeepsParsing`
  are the two cases of the induction over the line.
- The inductive invariant is `Structure` (types, and a registry of clean
  benchmarks with all devices) and `Progress`: while the line is read, each
  benchmark has what the options in its scope so far give (`FromLine`), what was
  kept agrees with them (`Noted`), and the printers are those asked for so far
  (`Printing`). `TypeCorrect`, `Settings` and `Printers` follow.
- `Devices` also needs that reading `--devices` yields the ids the option gives:
  the number of steps of a range, a division rounded up, reaches exactly the
  elements of the range (`RangeIs`), and that there is an ascending sequence of
  any set of ids (`AscendingExists`).

Only model-checked: liveness (`HostFinishes`, `MeasurementEnds`, `ExecEnds`,
`RunEnds`), which is beyond the prover, and `AxesInForce`: what an axis reads
like involves powers of two modulo the width of a word, an exponentiation the
provers know nothing of, and numbers sorted by value.

## 5. Disagreements between code and documentation

`PROJECT.json` quotes the lines. With a run that shows them:

1. A negative blocking-kernel timeout does not disable the report
   (`blocking_kernel.cu:76`, `state.cuh:227`): **negative**.
2. Parameters of a criterion outlive the benchmark that gave them
   (`stopping_criterion.cxx:42`, `stopping_criterion.cuh:85`): **stale**.
3. `--lock-gpu-clocks` acts on the devices of a replayed global `--devices`
   (`option_parser.cu:807`, `docs/cli_help.md:33`): **lock**.
4. The batched measurement blocks the stream when the blocking kernel is
   disabled (`detail/measure_hot.cuh:105`, `docs/cli_help.md:163`): **blocks**.

Read off the code while modelling it, without a run of their own:

5. A launcher that throws leaves `block()` without `unblock()`
   (`detail/measure_cold.cuh:249`, `blocking_kernel.cuh:71`).
6. `stdrel` reads the back of an empty tracker when min_samples is below four
   (`detail/stdrel_criterion.cxx:64`, `detail/ring_buffer.cuh:225`).
7. A timeout can be silent (`detail/measure_cold.cu:388`,
   `benchmark_base.cuh:238`).
8. `get_config_count` is zero without devices (`benchmark_base.cxx:88`,
   `benchmark_base.cuh:137`).
9. The batched measurement of a second exec takes the sample size of the first
   (`detail/measure_hot.cu:49`).
10. A benchmark whose name starts with a digit is taken for an index
    (`option_parser.cu:87`, `docs/cli_help.md:64`).
11. `--devices 0,1` is refused (`option_parser.cu:242`, `docs/cli_help.md:81`).
12. The JSON device of a CPU-only state is uninitialized (`json_printer.cu:413`).
13. "Wrote" and the summary of a sample file appear when it could not be written
    (`json_printer.cu:222`). The stream is not flushed or closed inside the `try`: a
    failure to write what is left in its buffer, which is all of a small file, is
    swallowed by its destructor, and no "Error writing" is logged.
14. A profiler that cannot be set up ends the call of exec, although its
    constructor handles the error (`detail/measure_cupti.cu:172`).
15. `set_type_axes_names` asserts the opposite of what holds
    (`axes_metadata.cxx:66`).
16. A floating-point range can go past its end, which is documented as inclusive:
    the end is padded by half a stride, so `[0:1:2]` gives 0 and 2.0 to a float64
    axis (`range.cuh:41`, `docs/benchmarks.md:216`).

Also met: a device listed twice makes every state run twice (`runner.cuh:69`); a
failure of the profiler between the begin and the end of its session leaves the
session open for the states that follow, since `~cupti_profiler` only
de-initializes (`cupti_profiler.cxx:577`, the session ends at line 691 only) and
the runner goes on after the exception (`runner.cuh:107`); and
`blocking_kernel.cuh` speaks of a timeout "greater than 0" where the code uses one
of 0 too.

## 6. What could come next

1. `AxesInForce` for every line. `Gives` and `Meant` extend to one key for each
   axis, with the width of a word as a constant and what is known of its powers
   of two as an assumption on it.
2. `Runner` with `Exec` in place of the free choice of its generator. The two
   meet at `Caught` and at the skip mark only, so the product adds states, not
   interactions; it would pay off with criteria parameters in the picture. The
   same holds of `Results`, whose states run in a fixed order here.

## 7. Not modelled, and why

Floating-point arithmetic: means, deviations and the frequency of a GPU are
compared by the program and never stored for later decisions, except for what
the criteria track, which is in integers here. The entropies of the model are
fixed-point: rounding of the last bits of a double is not represented.
Formatting and layout of output, version and platform fields, `--help`. NVML and
the device queries, the CUDA timers and events, the L2 flush: wrappers of calls
without state of this program's own; the in-order stream is kept as far as the
blocking kernel depends on it. `launch` and the timer wrapper around a launcher
forward calls. Registration of custom criteria happens before `main`, and
their code is the user's. Static initialization order and the build. The
`nvbench-ctl` tool, a `main()` around the option parser. The scripts, which
compare finished results offline.
