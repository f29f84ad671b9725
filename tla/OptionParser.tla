---------------------------- MODULE OptionParser ----------------------------
(***************************************************************************)
(* From the command line to the benchmarks to run: option_parser.cu, with  *)
(* the registry it clones from (benchmark_manager.cxx, benchmark_base.cuh) *)
(* and the devices it selects (device_manager.cu).                         *)
(*                                                                         *)
(* The handlers are operators on the parser's record, so that options kept *)
(* from before the first --benchmark are replayed by the handlers that     *)
(* first met them.  An option is a record [opt, arg].                      *)
(***************************************************************************)
EXTENDS Axes, FiniteSets, FiniteSetsExt

CONSTANTS
  Options,        \* the options that may be given
  Registered,     \* benchmarks declared by the program
  NumDevices,     \* cudaGetDeviceCount
  ParamTypes,     \* criterion_manager::get_params_description
  Unopenable,     \* files std::ofstream::open fails on
  MaxOptions      \* bound: options on the line

VARIABLES
  registry,       \* m_benchmarks of the benchmark_manager
  parser,         \* the option_parser
  phase,          \* "loaded", "parsing", "parsed", "exited", "refused", "endless"
  line,           \* options consumed
  used            \* m_used_devices of the device_manager

vars == <<registry, parser, phase, line, used>>

get_devices == [i \in 1 .. NumDevices |-> i - 1]

OptionNames ==
  {"--benchmark", "--devices", "--axis", "--param", "--run-once", "--profile",
   "--disable-blocking-kernel", "--stopping-criterion", "--min-samples",
   "--quiet", "--color", "--md", "--csv", "--json", "--jsonbin", "--list",
   "--persistence-mode", "--lock-gpu-clocks",
   "--skip-time", "--timeout", "--throttle-threshold", "--throttle-recovery-delay"}

-----------------------------------------------------------------------------
(* Benchmarks: records with their settings *)

\* What a benchmark is constructed with.  Floating point settings are in
\* hundredths; a ratio is in hundredths of a percent.
Defaults ==
  [run_once |-> FALSE, disable_blocking_kernel |-> FALSE, min_samples |-> 10,
   skip_time |-> -100, timeout |-> 1500, throttle_threshold |-> 7500,
   throttle_recovery_delay |-> 5, stopping_criterion |-> "stdrel"]

\* A CPU-only benchmark has no devices; the others are given theirs later.
ASSUME ParserAssumption ==
  /\ NumDevices \in Nat /\ "stdout" \notin Unopenable
  /\ Registered \in Seq(ToSet(Registered))
  /\ \A b \in ToSet(Registered) :
       /\ DOMAIN b = {"name", "cpuOnly", "axes", "devices", "settings", "params"}
       /\ DOMAIN b.settings = DOMAIN Defaults
       /\ b.cpuOnly \in BOOLEAN /\ (b.cpuOnly => b.devices = <<>>)
  /\ \A o \in Options :
       /\ o.opt \in OptionNames
       /\ o.opt = "--devices" /\ o.arg.kind # "all" =>
            /\ o.arg.words \in Seq(ToSet(o.arg.words))
            /\ \A w \in ToSet(o.arg.words) : w.number \in Int

DefaultParams == [p \in {"max-noise", "min-time"} |-> 50]

NewBenchmark(name, cpuOnly, axes) ==
  [name |-> name, cpuOnly |-> cpuOnly, axes |-> axes, devices |-> <<>>,
   settings |-> Defaults, params |-> DefaultParams]

set_devices(bench, devices) ==
  IF bench.cpuOnly THEN bench ELSE [bench EXCEPT !.devices = devices]

set(bench, key, value) == [bench EXCEPT !.settings[key] = value]

clone(bench) == bench

get_benchmark(name) == SelectInSeq(registry, LAMBDA b : b.name = name)

-----------------------------------------------------------------------------
(* The parser *)

Fail(p)    == [p EXCEPT !.status = "refused"]
LastBenchmark(p) == p.benchmarks[Len(p.benchmarks)]
Update(p, bench) == [p EXCEPT !.benchmarks[Len(p.benchmarks)] = bench]

\* Options that come before any benchmark are kept as they are, unread.
Keep(p, o) == [p EXCEPT !.global = Append(@, o)]

\* A std::exception from a device call: NVML is absent, or the call failed.
\* Without recent devices nothing is called.
DeviceCalls(p, devices, refused) ==
  LET n == IF refused \in DOMAIN devices THEN refused ELSE Len(devices)
  IN  [p EXCEPT !.touched = SubSeq(devices, 1, n),
                !.status = IF refused \in DOMAIN devices THEN "refused" ELSE @]

\* set_persistence_mode; the device call number 'refused' throws.
set_persistence_mode(p, o, refused) ==
  LET q == [p EXCEPT !.exit_after_parsing = TRUE]
  IN  IF o.arg.numeric THEN DeviceCalls(q, q.recent, refused) ELSE Fail(q)

Rates == {"reset", "unlock", "none", "base", "tdp", "max", "maximum"}

lock_gpu_clocks(p, o, refused) ==
  LET q == [p EXCEPT !.exit_after_parsing = TRUE]
  IN  IF o.arg.text \in Rates THEN DeviceCalls(q, q.recent, refused) ELSE Fail(q)

set_flag(p, o, key) ==
  IF p.benchmarks = <<>> THEN Keep(p, o) ELSE Update(p, set(LastBenchmark(p), key, TRUE))

\* --profile keeps the two options it stands for.
enable_run_once(p) == set_flag(p, [opt |-> "--run-once"], "run_once")
disable_blocking_kernel(p) ==
  set_flag(p, [opt |-> "--disable-blocking-kernel"], "disable_blocking_kernel")

set_stopping_criterion(p, o) ==
  IF p.benchmarks = <<>> THEN Keep(p, o)
  ELSE Update(p, set(LastBenchmark(p), "stopping_criterion", o.arg.text))

update_int64_prop(p, o) ==
  IF p.benchmarks = <<>> THEN Keep(p, o)
  ELSE IF ~o.arg.numeric THEN Fail(p)
  ELSE Update(p, set(LastBenchmark(p), "min_samples", o.arg.number))

FloatProps ==
  [o \in {"--skip-time", "--timeout", "--throttle-threshold",
          "--throttle-recovery-delay"} |->
    CASE o = "--skip-time" -> "skip_time"
      [] o = "--timeout"   -> "timeout"
      [] o = "--throttle-threshold"      -> "throttle_threshold"
      [] o = "--throttle-recovery-delay" -> "throttle_recovery_delay"]

\* The throttle threshold is given in percent and kept as a ratio.
update_float64_prop(p, o) ==
  IF p.benchmarks = <<>> THEN Keep(p, o)
  ELSE IF ~o.arg.numeric THEN Fail(p)
  ELSE Update(p, set(LastBenchmark(p), FloatProps[o.opt], 100 * o.arg.number))

\* A parameter of some criterion, whatever the criterion in use.  max-noise is
\* given in percent and kept as a ratio.
update_criterion_prop(p, o) ==
  LET bench == LastBenchmark(p)
      type  == ParamTypes[o.param]
  IN  IF p.benchmarks = <<>> THEN Keep(p, o)
      ELSE IF ~AllParse(type, <<o.arg>>) THEN Fail(p)
      ELSE Update(p, [bench EXCEPT !.params =
             [n \in DOMAIN @ \cup {o.param} |->
                IF n = o.param THEN parse(type, o.arg) ELSE @[n]]])

\* Mutant of parse_devices: ids are not validated.
parse_devices_Any(spec) ==
  IF spec.kind = "all" THEN Values(get_devices) ELSE parse_values("int32", spec)

\* parse_devices: "all", or ids below the number of devices.
parse_devices(spec) ==
  LET ids == parse_values("int32", spec)
  IN  CASE spec.kind = "all" -> Values(get_devices)
        [] spec.kind # "all" -> IF ToSet(ids.values) \subseteq 0 .. NumDevices - 1
                                  THEN ids ELSE Refused

\* Mutant of update_devices: a global --devices is not kept.
update_devices_NotKept(p, o) ==
  LET devices == parse_devices(o.arg)
      q == IF p.benchmarks = <<>> THEN p
           ELSE Update(p, set_devices(LastBenchmark(p), devices.values))
  IN  IF devices.result = "values" THEN [q EXCEPT !.recent = devices.values]
      ELSE [p EXCEPT !.status = devices.result]

\* The ids are read at once, also before the first benchmark.  Every call, a
\* replayed one included, makes them the most recent devices.
update_devices(p, o) ==
  LET devices == parse_devices(o.arg)
      q == IF p.benchmarks = <<>> THEN Keep(p, o)
           ELSE Update(p, set_devices(LastBenchmark(p), devices.values))
  IN  IF devices.result = "values" THEN [q EXCEPT !.recent = devices.values]
      ELSE [p EXCEPT !.status = devices.result]

update_axis(p, o) ==
  LET bench == LastBenchmark(p)
      i     == get_axis(bench.axes, o.arg.name)
      new   == updated_axis(bench.axes[i], o.arg.flag, o.arg)
  IN  IF p.benchmarks = <<>> THEN Keep(p, o)
      ELSE IF i = 0 THEN Fail(p)
      ELSE IF new.result # "values" THEN [p EXCEPT !.status = new.result]
      ELSE Update(p, [bench EXCEPT !.axes[i] = new.axis])

\* Mutant of add_printer: the default printer is added all the same.
add_printer_Forgets(p, o) ==
  IF o.arg.text \in Unopenable THEN Fail(p)
  ELSE [p EXCEPT
    !.printers = Append(@, [format |-> o.opt, stream |-> o.arg.text,
      color |-> o.opt = "--md" /\ o.arg.text = "stdout" /\ p.color])]

\* printer_spec_to_ostream and the add_*_printer functions.  --color counts
\* for the markdown printers added to stdout after it.
add_printer(p, o) ==
  IF o.arg.text \in Unopenable THEN Fail(p)
  ELSE [p EXCEPT
    !.printers = Append(@, [format |-> o.opt, stream |-> o.arg.text,
      color |-> o.opt = "--md" /\ o.arg.text = "stdout" /\ p.color]),
    !.have_stdout_printer = @ \/ o.arg.text = "stdout"]

\* The options of parse_range other than queries and --benchmark.
handle(p, o) ==
  IF p.status # "ok" THEN p ELSE
  CASE o.opt = "--run-once"            -> enable_run_once(p)
    [] o.opt = "--disable-blocking-kernel" -> disable_blocking_kernel(p)
    [] o.opt = "--profile"             -> disable_blocking_kernel(enable_run_once(p))
    [] o.opt = "--stopping-criterion"  -> set_stopping_criterion(p, o)
    [] o.opt = "--quiet"               -> [p EXCEPT !.have_stdout_printer = TRUE]
    [] o.opt = "--color"               -> [p EXCEPT !.color = TRUE]
    [] o.opt \in {"--md", "--csv", "--json", "--jsonbin"} -> add_printer(p, o)
    [] o.opt = "--devices"             -> update_devices(p, o)
    [] o.opt = "--axis"                -> update_axis(p, o)
    [] o.opt = "--min-samples"         -> update_int64_prop(p, o)
    [] o.opt \in DOMAIN FloatProps     -> update_float64_prop(p, o)
    [] o.opt = "--param"               -> update_criterion_prop(p, o)
    [] OTHER                           -> Fail(p)

\* Mutant of replay_global_args: replayed from the last to the first.
replay_global_args_Back(p) == FoldLeft(handle, p, Reverse(p.global))

replay_global_args(p) == FoldLeft(handle, p, p.global)

Cloned(p, i) ==
  replay_global_args([p EXCEPT !.benchmarks = Append(@, clone(registry[i]))])

\* add_benchmark: a name that starts with a number is an index.
add_benchmark(p, o) ==
  LET i == IF o.arg.numeric /\ o.arg.number >= 0 THEN o.arg.number + 1
           ELSE get_benchmark(o.arg.text)
  IN  IF i \in DOMAIN registry THEN Cloned(p, i) ELSE Fail(p)

NewParser ==
  [status |-> "ok", global |-> <<>>, benchmarks |-> <<>>, recent |-> get_devices,
   touched |-> <<>>, printers |-> <<>>, have_stdout_printer |-> FALSE,
   color |-> FALSE, exit_after_parsing |-> FALSE]

-----------------------------------------------------------------------------
(* The program *)

Init ==
  /\ registry = Registered
  /\ parser = [NewParser EXCEPT !.recent = <<>>]
  /\ phase = "loaded" /\ line = <<>> /\ used = <<>>

\* main_initialize: benchmark_manager::initialize gives every benchmark all
\* devices; then parse_impl starts, with NVBENCH_COLOR or without.
Initialize ==
  /\ phase = "loaded"
  /\ registry' = [i \in DOMAIN registry |-> set_devices(registry[i], get_devices)]
  /\ \E c \in BOOLEAN : parser' = [NewParser EXCEPT !.color = c]
  /\ phase' = "parsing"
  /\ UNCHANGED <<line, used>>

PhaseOf(p) == IF p.status = "ok" THEN "parsing" ELSE p.status

Consume(o, p) ==
  /\ parser' = p /\ line' = Append(line, o) /\ phase' = PhaseOf(p)
  /\ UNCHANGED <<registry, used>>

More == phase = "parsing" /\ Len(line) < MaxOptions

AddBenchmark(o) ==
  /\ More /\ o.opt = "--benchmark"
  /\ Consume(o, add_benchmark(parser, o))

ModifyDevices(o) ==
  /\ More /\ o.opt \in {"--persistence-mode", "--lock-gpu-clocks"}
  /\ \E refused \in 0 .. Len(parser.recent) :
       Consume(o, IF o.opt = "--lock-gpu-clocks"
                    THEN lock_gpu_clocks(parser, o, refused)
                    ELSE set_persistence_mode(parser, o, refused))

\* --help, --list and the like print and leave at once.
Query(o) ==
  /\ More /\ o.opt = "--list"
  /\ phase' = "exited" /\ line' = Append(line, o)
  /\ UNCHANGED <<registry, parser, used>>

Configure(o) ==
  /\ More
  /\ o.opt \notin {"--benchmark", "--persistence-mode", "--lock-gpu-clocks", "--list"}
  /\ Consume(o, handle(parser, o))

\* Without --benchmark, every registered benchmark is added in turn.
AddAll(p) ==
  IF p.benchmarks # <<>> THEN p
  ELSE FoldLeft(LAMBDA q, i : IF q.status = "ok" THEN Cloned(q, i) ELSE q, p,
                [i \in DOMAIN registry |-> i])

AddDefaultPrinter(p) ==
  IF p.have_stdout_printer THEN p
  ELSE add_printer(p, [opt |-> "--md", arg |-> [text |-> "stdout"]])

\* The elements of a set of integers in ascending order, without duplicates.
Ascending(S) ==
  CHOOSE s \in [1 .. Cardinality(S) -> S] :
    ToSet(s) = S /\ \A i, j \in DOMAIN s : i < j => s[i] < s[j]

update_used_device_state(p) ==
  Ascending(UNION {ToSet(p.benchmarks[i].devices) : i \in DOMAIN p.benchmarks})

\* The rest of parse_impl.
FinishParse ==
  /\ phase = "parsing"
  /\ IF parser.exit_after_parsing
       THEN phase' = "exited" /\ UNCHANGED <<parser, used>>
       ELSE LET p == AddAll(parser)
            IN  IF p.status # "ok"
                  THEN parser' = p /\ phase' = p.status /\ UNCHANGED used
                  ELSE /\ parser' = AddDefaultPrinter(p) /\ phase' = "parsed"
                       /\ used' = update_used_device_state(p)
  /\ UNCHANGED <<registry, line>>

Ended == phase \in {"parsed", "exited", "refused", "endless"} /\ UNCHANGED vars

Next ==
  \/ Initialize
  \/ \E o \in Options :
       AddBenchmark(o) \/ ModifyDevices(o) \/ Query(o) \/ Configure(o)
  \/ FinishParse
  \/ Ended

Spec == Init /\ [][Next]_vars

-----------------------------------------------------------------------------
(* Properties: what the line says, read without replaying it.  An option   *)
(* is in the scope of a benchmark when it follows its --benchmark and no   *)
(* other, or precedes every --benchmark.                                   *)

\* Types of the parser, and: a parser that is not parsing has stopped for a
\* reason it records.  (option_parser.cuh, the members.)
TypeOK ==
  /\ phase \in {"loaded", "parsing", "parsed", "exited", "refused", "endless"}
  /\ phase \in {"loaded", "parsing", "parsed", "exited"} <=> parser.status = "ok"
  /\ \A j \in DOMAIN line : line[j].opt \in OptionNames
  /\ DOMAIN registry = DOMAIN Registered
  /\ \A i \in DOMAIN parser.benchmarks :
       DOMAIN parser.benchmarks[i].settings = DOMAIN Defaults
  /\ ToSet(used) \subseteq ToSet(get_devices)

\* How many of some places are at or before j.
Rank(places, j) == Cardinality({k \in places : k <= j})

Starts == {j \in DOMAIN line : line[j].opt = "--benchmark"}

\* Positions in the scope of the benchmark number i of the parser.
Scope(i) == {j \in DOMAIN line : Rank(Starts, j) \in {0, i}}

\* The last option in the scope that satisfies a test; 0 if there is none.
LastIn(i, Test(_)) == Max({0} \cup {j \in Scope(i) : Test(line[j])})

\* The registered benchmarks it may be a clone of.
Origins(b) == {origin \in ToSet(registry) : origin.name = b.name}

Writes(o, key) ==
  CASE key = "run_once" -> o.opt \in {"--run-once", "--profile"}
    [] key = "disable_blocking_kernel" ->
         o.opt \in {"--disable-blocking-kernel", "--profile"}
    [] key = "min_samples" -> o.opt = "--min-samples"
    [] key = "stopping_criterion" -> o.opt = "--stopping-criterion"
    [] OTHER -> o.opt \in DOMAIN FloatProps /\ FloatProps[o.opt] = key

Meaning(o, key) ==
  CASE key \in {"run_once", "disable_blocking_kernel"} -> TRUE
    [] key = "min_samples"        -> o.arg.number
    [] key = "stopping_criterion" -> o.arg.text
    [] OTHER                      -> 100 * o.arg.number

\* Every benchmark about to run has, for each setting and each criterion
\* parameter, the value the last option in its scope gives it, and the
\* registered one when there is none: whatever was given to other benchmarks,
\* and however often its own were replayed.
SettingsInForce ==
  phase \in {"parsing", "parsed"} =>
  \A i \in DOMAIN parser.benchmarks :
    LET b == parser.benchmarks[i] IN
    \E origin \in Origins(b) :
      /\ \A key \in DOMAIN Defaults :
           LET j == LastIn(i, LAMBDA o : Writes(o, key))
           IN  b.settings[key] = IF j = 0 THEN origin.settings[key] ELSE Meaning(line[j], key)
      /\ \A p \in DOMAIN ParamTypes :
           LET j == LastIn(i, LAMBDA o : o.opt = "--param" /\ o.param = p)
           IN  IF j # 0 THEN b.params[p] = parse(ParamTypes[p], line[j].arg)
               ELSE p \in DOMAIN b.params => b.params[p] = origin.params[p]

DevicesGiven(spec) ==
  LET n(k) == spec.words[k].number
      step == IF Len(spec.words) = 3 THEN n(3) ELSE 1
  IN  CASE spec.kind = "all"   -> 0 .. NumDevices - 1
        [] spec.kind = "range" -> {x \in n(1) .. n(2) : (x - n(1)) % step = 0}
        [] OTHER               -> {n(k) : k \in DOMAIN spec.words}

\* A benchmark runs on the devices its last --devices gives, or on all; a
\* CPU-only benchmark on none.  The devices reported as used are exactly those
\* of the benchmarks, once each.
DevicesInForce ==
  phase \in {"parsing", "parsed"} =>
  /\ \A i \in DOMAIN parser.benchmarks :
       LET b == parser.benchmarks[i]
           j == LastIn(i, LAMBDA o : o.opt = "--devices")
       IN  ToSet(b.devices) =
             CASE b.cpuOnly -> {}
               [] j = 0 /\ ~b.cpuOnly -> 0 .. NumDevices - 1
               [] OTHER -> DevicesGiven(line[j].arg)
  /\ phase = "parsed" =>
       /\ \A m, n \in DOMAIN used : m < n => used[m] < used[n]
       /\ ToSet(used) = UNION {ToSet(parser.benchmarks[i].devices) :
                                 i \in DOMAIN parser.benchmarks}

\* Numbers as an axis of the type keeps them, "start and end are inclusive"
\* (docs/benchmarks.md): a list gives its numbers, a range those that go up
\* from its start by its stride, among them every one up to its end.  Beyond
\* the end there is none, but for a float64 axis: there one more, at most half
\* a stride past it, is let in for the sake of rounding errors.
GivesNumbers(values, type, spec) ==
  LET unit == IF type = "float64" THEN 100 ELSE 1
      n(k) == unit * spec.words[k].number
      step == IF Len(spec.words) = 3 THEN n(3) ELSE unit
      all  == {x \in n(1) .. n(2) : (x - n(1)) % step = 0}
      past == ToSet(values) \ all
  IN  IF spec.kind # "range" THEN values = [k \in DOMAIN spec.words |-> n(k)]
      ELSE /\ all \subseteq ToSet(values)
           /\ \A k \in DOMAIN values : values[k] = n(1) + (k - 1) * step
           /\ past # {} => type = "float64" /\ Cardinality(past) = 1
           /\ \A x \in past : 2 * (x - n(2)) <= step

TwosComplement(x) == ((x + 2 ^ (WordSize - 1)) % (2 ^ WordSize)) - 2 ^ (WordSize - 1)

\* What an axis reads like after --axis with this argument.
Reads(axis, given, before) ==
  CASE axis.type = "type" ->
         /\ axis.inputs = before.inputs
         /\ {axis.inputs[k] : k \in axis.active} = {w.text : w \in ToSet(given.words)}
    [] axis.type = "string" ->
         axis.values = [k \in DOMAIN given.words |-> given.words[k].text]
    [] axis.type = "float64" -> GivesNumbers(axis.values, "float64", given)
    [] axis.type = "int64" ->
         /\ GivesNumbers(axis.inputs, "int64", given)
         /\ axis.values =
              IF given.flag = "pow2"
                THEN [k \in DOMAIN axis.inputs |-> TwosComplement(2 ^ axis.inputs[k])]
                ELSE axis.inputs

BadStride(o) ==
  /\ o.opt \in {"--axis", "--devices"} /\ o.arg.kind = "range"
  /\ Len(o.arg.words) = 3 /\ o.arg.words[3].number <= 0

\* Every axis of a benchmark about to run reads like the last --axis in its
\* scope that names it, and is as registered when there is none; each --axis in
\* the scope of a benchmark names an axis of it.  Only a range whose stride is
\* not positive keeps the parser from returning.
AxesInForce ==
  /\ phase \in {"parsing", "parsed"} =>
     \A i \in DOMAIN parser.benchmarks :
       LET b == parser.benchmarks[i] IN
       /\ \E origin \in Origins(b) : \A a \in DOMAIN b.axes :
            LET j == LastIn(i, LAMBDA o : o.opt = "--axis" /\ o.arg.name = b.axes[a].name)
            IN  IF j = 0 THEN b.axes[a] = origin.axes[a]
                ELSE Reads(b.axes[a], line[j].arg, origin.axes[a])
       /\ \A j \in Scope(i) : line[j].opt = "--axis" =>
            \E a \in DOMAIN b.axes : b.axes[a].name = line[j].arg.name
  /\ phase = "endless" => \E j \in DOMAIN line : BadStride(line[j])

Asked == {j \in DOMAIN line : line[j].opt \in {"--md", "--csv", "--json", "--jsonbin"}}

\* The printers are those of the line in their order, and a markdown one on
\* stdout exactly when nothing was to go to stdout and --quiet was not given;
\* a markdown printer on stdout has colour once --color was given before it.
PrintersAsAsked ==
  phase = "parsed" =>
  LET n      == Cardinality(Asked)
      number(j) == Rank(Asked, j)
      quiet  == \E j \in DOMAIN line : line[j].opt = "--quiet"
      spoken == \E j \in Asked : line[j].arg.text = "stdout"
  IN  /\ Len(parser.printers) = n + (IF quiet \/ spoken THEN 0 ELSE 1)
      /\ \A j \in Asked : /\ parser.printers[number(j)].format = line[j].opt
                          /\ parser.printers[number(j)].stream = line[j].arg.text
      /\ Len(parser.printers) > n =>
           parser.printers[n + 1] =
             [format |-> "--md", stream |-> "stdout", color |-> parser.color]
      /\ \A k \in DOMAIN parser.printers : parser.printers[k].color => parser.color
      /\ \A j \in DOMAIN line, l \in Asked :
           j < l /\ line[j].opt = "--color" /\ line[l].opt = "--md" /\
           line[l].arg.text = "stdout" => parser.printers[number(l)].color

\* "Applies to the devices described by the most recent --devices option, or
\* all devices if --devices is not specified" (docs/cli_help.md, for the device
\* modification options).
ModifiesMostRecentDevices ==
  (phase # "loaded" /\ line # <<>> /\
   Last(line).opt \in {"--persistence-mode", "--lock-gpu-clocks"}) =>
    LET j == Max({0} \cup {k \in DOMAIN line : line[k].opt = "--devices"})
    IN  ToSet(parser.touched) \subseteq
          IF j = 0 THEN ToSet(get_devices) ELSE DevicesGiven(line[j].arg)
=============================================================================
