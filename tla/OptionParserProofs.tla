------------------------- MODULE OptionParserProofs -------------------------
(***************************************************************************)
(* Proofs about OptionParser, for every set of options, every registry,    *)
(* any number of devices and lines of any length.                          *)
(*                                                                         *)
(* The settings of a benchmark come from replaying what was kept before    *)
(* the first --benchmark and from the options after its own.  They are     *)
(* read here by key: a setting, a criterion parameter or the devices.  An  *)
(* option gives a value to some keys, a benchmark has one for each of its  *)
(* keys, and the value in force is the last one given in its scope, or the *)
(* registered one.  Every handler either keeps an option or gives its      *)
(* values to the last benchmark, and what is kept leaves the same values   *)
(* in force as the options it was kept from; so replaying it does too.     *)
(***************************************************************************)
EXTENDS OptionParser, SequenceLemmas, TLAPS

-----------------------------------------------------------------------------
(* Parsers and benchmarks                                                  *)

BenchFields == {"name", "cpuOnly", "axes", "devices", "settings", "params"}

IsBench(b) ==
  /\ DOMAIN b = BenchFields /\ DOMAIN b.settings = DOMAIN Defaults /\ b.cpuOnly \in BOOLEAN
  /\ b.cpuOnly => b.devices = <<>>
  /\ ToSet(b.devices) \subseteq 0 .. NumDevices - 1

ParserFields ==
  {"status", "global", "benchmarks", "recent", "touched", "printers", "have_stdout_printer",
   "color", "exit_after_parsing"}

IsParser(p) ==
  /\ DOMAIN p = ParserFields /\ p.status \in {"ok", "refused", "endless"}
  /\ IsSeq(p.global) /\ IsSeq(p.printers) /\ IsSeq(p.benchmarks)
  /\ \A i \in 1 .. Len(p.benchmarks) : IsBench(p.benchmarks[i])
  /\ p.have_stdout_printer \in BOOLEAN /\ p.color \in BOOLEAN

\* What an option can give to a benchmark.
Keys ==
  [kind : {"setting"}, name : DOMAIN Defaults] \cup [kind : {"param"}, name : DOMAIN ParamTypes]
    \cup [kind : {"devices"}, name : {"devices"}]

\* A CPU-only benchmark is given no devices.
KeysOf(b) == {k \in Keys : ~(b.cpuOnly /\ k.kind = "devices")}

Gives(o, k) ==
  \/ k.kind = "setting" /\ Writes(o, k.name)
  \/ k.kind = "param" /\ o.opt = "--param" /\ o.param = k.name
  \/ k.kind = "devices" /\ o.opt = "--devices"

Meant(o, k) ==
  CASE k.kind = "setting" -> <<Meaning(o, k.name)>>
    [] k.kind = "param"   -> <<parse(ParamTypes[k.name], o.arg)>>
    [] k.kind = "devices" -> <<parse_devices(o.arg).values>>

Has(b, k) ==
  CASE k.kind = "setting" -> <<b.settings[k.name]>>
    [] k.kind = "param"   -> IF k.name \in DOMAIN b.params THEN <<b.params[k.name]>> ELSE <<>>
    [] k.kind = "devices" -> <<b.devices>>

\* What an option makes of a benchmark.
GivenBy(o, b, c) ==
  /\ IsBench(c) /\ c.name = b.name /\ c.cpuOnly = b.cpuOnly
  /\ \A k \in KeysOf(b) : Has(c, k) = IF Gives(o, k) THEN Meant(o, k) ELSE Has(b, k)

SameOutput(p, q) ==
  /\ q.printers = p.printers /\ q.have_stdout_printer = p.have_stdout_printer /\ q.color = p.color

\* The benchmark c takes the place of the last one.
ChangesLast(p, q, c) ==
  /\ Len(q.benchmarks) = Len(p.benchmarks) /\ q.benchmarks[Len(p.benchmarks)] = c
  /\ \A i \in 1 .. Len(p.benchmarks) - 1 : q.benchmarks[i] = p.benchmarks[i]

\* A sequence with one more element.
LEMMA AppendIs ==
  ASSUME NEW s, IsSeq(s), NEW x
  PROVE  /\ IsSeq(Append(s, x)) /\ Len(s) \in Nat /\ Len(Append(s, x)) = Len(s) + 1
         /\ DOMAIN s = 1 .. Len(s) /\ DOMAIN Append(s, x) = 1 .. Len(s) + 1
         /\ Append(s, x)[Len(s) + 1] = x /\ \A k \in 1 .. Len(s) : Append(s, x)[k] = s[k]
<1>1. PICK S : s \in Seq(S)
  BY DEF IsSeq
<1>2. s \in Seq(S \cup {x})
  BY <1>1
<1>3. Append(s, x) \in Seq(S \cup {x})
  BY <1>2
<1>4. QED
  BY <1>2, <1>3 DEF IsSeq

\* A sequence is empty exactly when its length is 0.
LEMMA EmptyIs ==
  ASSUME NEW s, IsSeq(s)
  PROVE  /\ Len(s) \in Nat /\ DOMAIN s = 1 .. Len(s) /\ (s = <<>> <=> Len(s) = 0)
         /\ IsSeq(<<>>) /\ Len(<<>>) = 0
<1>1. PICK S : s \in Seq(S)
  BY DEF IsSeq
<1>2. <<>> \in Seq(S) /\ Len(<<>>) = 0
  BY EmptySeq
<1>3. s = <<>> <=> Len(s) = 0
  BY <1>1, EmptySeq
<1>4. QED
  BY <1>1, <1>2, <1>3, LenProperties DEF IsSeq

\* The last benchmark is changed in place.
LEMMA UpdateIs ==
  ASSUME NEW p, IsParser(p), p.benchmarks # <<>>, NEW c, IsBench(c)
  PROVE  /\ IsParser(Update(p, c)) /\ Update(p, c).status = p.status
         /\ Update(p, c).global = p.global /\ SameOutput(p, Update(p, c))
         /\ ChangesLast(p, Update(p, c), c)
         /\ Update(p, c).benchmarks # <<>>
<1> DEFINE n == Len(p.benchmarks)
           s == p.benchmarks
           t == [s EXCEPT ![n] = c]
<1>1. n \in Nat \ {0} /\ DOMAIN s = 1 .. n
  BY EmptyIs DEF IsParser
<1>2. PICK S : s \in Seq(S)
  BY DEF IsParser, IsSeq
<1>3. t \in Seq(S \cup {c}) /\ Len(t) = n
  <2>1. s \in Seq(S \cup {c}) /\ s = [i \in 1 .. n |-> s[i]]
    BY <1>1, <1>2
  <2>2. t = [i \in 1 .. n |-> IF i = n THEN c ELSE s[i]]
    BY <1>1, <2>1
  <2>3. t \in [1 .. n -> S \cup {c}]
    BY <2>1, <2>2
  <2> HIDE DEF t, n, s
  <2>4. t \in Seq(S \cup {c}) /\ DOMAIN t = 1 .. n
    BY <1>1, <2>3
  <2>5. QED
    BY <1>1, <2>4, LenProperties
<1>4. t[n] = c /\ \A i \in 1 .. n - 1 : t[i] = s[i]
  BY <1>1
<1>5. IsSeq(t) /\ t # <<>>
  BY <1>1, <1>3, EmptySeq DEF IsSeq
<1>6. \A i \in 1 .. Len(t) : IsBench(t[i])
  BY <1>1, <1>3, <1>4 DEF IsParser
<1>7. Update(p, c) = [p EXCEPT !.benchmarks = t]
  BY DEF Update, IsParser, ParserFields
<1> HIDE DEF t
<1>8. QED
  BY <1>3, <1>4, <1>5, <1>6, <1>7 DEF IsParser, ParserFields, SameOutput, ChangesLast

\* An option that comes before any benchmark is kept.
LEMMA KeepIs ==
  ASSUME NEW p, IsParser(p), NEW o
  PROVE  /\ IsParser(Keep(p, o)) /\ Keep(p, o).status = p.status
         /\ Keep(p, o).benchmarks = p.benchmarks /\ SameOutput(p, Keep(p, o))
         /\ Keep(p, o).global = Append(p.global, o)
BY AppendIs DEF Keep, IsParser, ParserFields, SameOutput

\* The settings there are.
LEMMA DefaultsAre ==
  DOMAIN Defaults = {"run_once", "disable_blocking_kernel", "min_samples", "skip_time", "timeout",
                     "throttle_threshold", "throttle_recovery_delay", "stopping_criterion"}
BY DEF Defaults

\* Setting one key of a benchmark changes no other.
LEMMA SetIs ==
  ASSUME NEW b, IsBench(b), NEW key \in DOMAIN Defaults, NEW v
  PROVE  /\ IsBench(set(b, key, v)) /\ set(b, key, v).name = b.name
         /\ set(b, key, v).cpuOnly = b.cpuOnly
         /\ \A k \in Keys : Has(set(b, key, v), k)
              = IF k.kind = "setting" /\ k.name = key THEN <<v>> ELSE Has(b, k)
<1> DEFINE c == set(b, key, v)
<1>1. /\ DOMAIN c = BenchFields /\ c.settings = [b.settings EXCEPT ![key] = v]
      /\ c.name = b.name /\ c.cpuOnly = b.cpuOnly /\ c.devices = b.devices /\ c.params = b.params
  BY DEF set, IsBench, BenchFields
<1>2. /\ DOMAIN c.settings = DOMAIN Defaults /\ c.settings[key] = v
      /\ \A x \in DOMAIN Defaults : x # key => c.settings[x] = b.settings[x]
  BY <1>1 DEF IsBench
<1> HIDE DEF c
<1>3. IsBench(c)
  BY <1>1, <1>2 DEF IsBench
<1>4. ASSUME NEW k \in Keys
      PROVE  Has(c, k) = IF k.kind = "setting" /\ k.name = key THEN <<v>> ELSE Has(b, k)
  <2>1. CASE k.kind = "setting"
    <3>1. k.name \in DOMAIN Defaults
      BY <2>1 DEF Keys
    <3>2. QED
      BY <1>2, <2>1, <3>1 DEF Has
  <2>2. CASE k.kind # "setting"
    <3>1. k.kind = "param" \/ k.kind = "devices"
      BY <2>2 DEF Keys
    <3>2. QED
      BY <1>1, <2>2, <3>1 DEF Has
  <2>3. QED
    BY <2>1, <2>2
<1>5. QED
  BY <1>1, <1>3, <1>4 DEF c

-----------------------------------------------------------------------------
(* Options                                                                 *)

\* The options that set something in a benchmark.
Setters ==
  {"--run-once", "--disable-blocking-kernel", "--stopping-criterion", "--devices", "--axis",
   "--min-samples", "--param", "--skip-time", "--timeout", "--throttle-threshold",
   "--throttle-recovery-delay"}

\* An option that was kept stands for the one that was given.
StandsFor(kept, o) ==
  /\ kept.opt \in Setters
  /\ \A k \in Keys : /\ Gives(kept, k) <=> Gives(o, k)
                     /\ Gives(o, k) => Meant(kept, k) = Meant(o, k)

\* What an option that sets something does: to the last benchmark, if there is
\* one; else it is kept.
SetsOrKeeps(p, q, o) ==
  /\ IsParser(q)
  /\ q.status = "ok" =>
       /\ SameOutput(p, q)
       /\ p.benchmarks = <<>> =>
            /\ q.benchmarks = <<>>
            /\ \E kept : StandsFor(kept, o) /\ q.global = Append(p.global, kept)
       /\ p.benchmarks # <<>> =>
            /\ q.global = p.global /\ q.benchmarks # <<>>
            /\ \E c : ChangesLast(p, q, c) /\ GivenBy(o, LastBenchmark(p), c)

\* The last benchmark is one.
LEMMA LastIs ==
  ASSUME NEW p, IsParser(p), p.benchmarks # <<>>
  PROVE  IsBench(LastBenchmark(p))
BY EmptyIs DEF LastBenchmark, IsParser

\* A handler that changes the last benchmark as the option says.
LEMMA UpdateSets ==
  ASSUME NEW p, IsParser(p), p.benchmarks # <<>>, NEW o, NEW c, GivenBy(o, LastBenchmark(p), c)
  PROVE  SetsOrKeeps(p, Update(p, c), o)
BY UpdateIs DEF SetsOrKeeps, GivenBy

\* A handler that keeps what stands for the option.
LEMMA KeepKeeps ==
  ASSUME NEW p, IsParser(p), p.benchmarks = <<>>, NEW o, NEW kept, StandsFor(kept, o)
  PROVE  SetsOrKeeps(p, Keep(p, kept), o)
BY KeepIs DEF SetsOrKeeps

\* A parser that stops keeps its types.
LEMMA StopIs ==
  ASSUME NEW p, IsParser(p), NEW r \in {"refused", "endless"}
  PROVE  IsParser([p EXCEPT !.status = r]) /\ [p EXCEPT !.status = r].status = r
BY DEF IsParser, ParserFields

\* A handler that stops promises nothing more.
LEMMA StopSets ==
  ASSUME NEW p, IsParser(p), NEW r \in {"refused", "endless"}, NEW o
  PROVE  SetsOrKeeps(p, [p EXCEPT !.status = r], o)
<1> DEFINE q == [p EXCEPT !.status = r]
<1>1. IsParser(q) /\ q.status = r
  BY StopIs
<1> HIDE DEF q
<1>2. SetsOrKeeps(p, q, o)
  BY <1>1 DEF SetsOrKeeps
<1>3. QED
  BY <1>2 DEF q

\* An option stands for itself.
LEMMA StandsForItself ==
  ASSUME NEW o, o.opt \in Setters
  PROVE  StandsFor(o, o)
BY DEF StandsFor

\* A flag that is kept stands for any option with its name.
LEMMA FlagStandsFor ==
  ASSUME NEW o, NEW kept, kept.opt = o.opt, o.opt \in {"--run-once", "--disable-blocking-kernel"}
  PROVE  StandsFor(kept, o)
<1>1. kept.opt \in Setters
  BY DEF Setters
<1>2. ASSUME NEW k \in Keys
      PROVE  /\ Gives(kept, k) <=> Gives(o, k)
             /\ Gives(o, k) => Meant(kept, k) = Meant(o, k)
  <2>1. CASE k.kind = "setting"
    <3>1. k.name \in DOMAIN Defaults
      BY <2>1 DEF Keys
    <3>2. \A x \in {o, kept} : Gives(x, k) <=> Writes(x, k.name)
      BY <2>1 DEF Gives
    <3>3. \A x \in {o, kept} : Writes(x, k.name) =>
            k.name \in {"run_once", "disable_blocking_kernel"}
      BY <3>1, DefaultsAre DEF Writes, FloatProps
    <3>4. Writes(o, k.name) <=> Writes(kept, k.name)
      BY <3>1, DefaultsAre DEF Writes, FloatProps
    <3>5. \A x \in {o, kept} : Gives(x, k) => Meant(x, k) = <<TRUE>>
      BY <2>1, <3>2, <3>3 DEF Meant, Meaning
    <3>6. QED
      BY <3>2, <3>4, <3>5
  <2>2. CASE k.kind # "setting"
    BY <2>2 DEF Gives
  <2>3. QED
    BY <2>1, <2>2
<1>3. QED
  BY <1>1, <1>2 DEF StandsFor

\* An option that sets one setting.
LEMMA SetGives ==
  ASSUME NEW b, IsBench(b), NEW key \in DOMAIN Defaults, NEW o, NEW v, v = Meaning(o, key),
         o.opt # "--param", o.opt # "--devices",
         \A x \in DOMAIN Defaults : Writes(o, x) <=> x = key
  PROVE  GivenBy(o, b, set(b, key, v))
<1>1. ASSUME NEW k \in Keys
      PROVE  Has(set(b, key, v), k) = IF Gives(o, k) THEN Meant(o, k) ELSE Has(b, k)
  <2>1. Gives(o, k) <=> k.kind = "setting" /\ k.name = key
    BY DEF Gives, Keys
  <2>2. Gives(o, k) => Meant(o, k) = <<v>>
    BY <2>1 DEF Meant
  <2>3. QED
    BY <2>1, <2>2, SetIs
<1>2. QED
  BY <1>1, SetIs DEF GivenBy, KeysOf

\* An option that is refused.
LEMMA FailSets ==
  ASSUME NEW p, IsParser(p), NEW o
  PROVE  SetsOrKeeps(p, Fail(p), o)
BY StopSets DEF Fail

\* The handlers of options that set something, one by one.
LEMMA FlagSets ==
  ASSUME NEW p, IsParser(p), NEW o, NEW key,
         \/ o.opt = "--run-once" /\ key = "run_once"
         \/ o.opt = "--disable-blocking-kernel" /\ key = "disable_blocking_kernel"
  PROVE  /\ SetsOrKeeps(p, set_flag(p, [opt |-> o.opt], key), o)
         /\ set_flag(p, [opt |-> o.opt], key).status = p.status
<1>1. CASE p.benchmarks = <<>>
  <2>1. StandsFor([opt |-> o.opt], o)
    BY FlagStandsFor
  <2>2. QED
    BY <1>1, <2>1, KeepKeeps, KeepIs DEF set_flag
<1>2. CASE p.benchmarks # <<>>
  <2> DEFINE b == LastBenchmark(p)
             c == set(b, key, TRUE)
  <2>1. key \in DOMAIN Defaults /\ IsBench(b)
    BY <1>2, LastIs, DefaultsAre
  <2>2. \A x \in DOMAIN Defaults : Writes(o, x) <=> x = key
    BY DefaultsAre DEF Writes, FloatProps
  <2>3. TRUE = Meaning(o, key)
    BY DEF Meaning
  <2>4. GivenBy(o, b, c)
    BY <2>1, <2>2, <2>3, SetGives
  <2>5. set_flag(p, [opt |-> o.opt], key) = Update(p, c)
    BY <1>2 DEF set_flag
  <2> HIDE DEF c, b
  <2>6. IsBench(c)
    BY <2>4 DEF GivenBy
  <2>7. QED
    BY <1>2, <2>4, <2>5, <2>6, UpdateSets, UpdateIs DEF b
<1>3. QED
  BY <1>1, <1>2

\* --stopping-criterion.
LEMMA CriterionSets ==
  ASSUME NEW p, IsParser(p), NEW o, o.opt = "--stopping-criterion"
  PROVE  SetsOrKeeps(p, set_stopping_criterion(p, o), o)
<1>1. CASE p.benchmarks = <<>>
  <2>1. o.opt \in Setters
    BY DEF Setters
  <2>2. QED
    BY <1>1, <2>1, StandsForItself, KeepKeeps DEF set_stopping_criterion
<1>2. CASE p.benchmarks # <<>>
  <2> DEFINE b == LastBenchmark(p)
             key == "stopping_criterion"
  <2>1. key \in DOMAIN Defaults /\ IsBench(b)
    BY <1>2, LastIs, DefaultsAre
  <2>2. \A x \in DOMAIN Defaults : Writes(o, x) <=> x = key
    BY DefaultsAre DEF Writes, FloatProps
  <2>3. o.arg.text = Meaning(o, key)
    BY DEF Meaning
  <2>4. GivenBy(o, b, set(b, key, o.arg.text))
    BY <2>1, <2>2, <2>3, SetGives
  <2>5. QED
    BY <1>2, <2>4, UpdateSets DEF set_stopping_criterion
<1>3. QED
  BY <1>1, <1>2

\* --min-samples.
LEMMA SamplesSets ==
  ASSUME NEW p, IsParser(p), NEW o, o.opt = "--min-samples"
  PROVE  SetsOrKeeps(p, update_int64_prop(p, o), o)
<1>1. CASE p.benchmarks = <<>>
  <2>1. o.opt \in Setters
    BY DEF Setters
  <2>2. QED
    BY <1>1, <2>1, StandsForItself, KeepKeeps DEF update_int64_prop
<1>2. CASE p.benchmarks # <<>> /\ o.arg.numeric
  <2> DEFINE b == LastBenchmark(p)
             key == "min_samples"
  <2>1. key \in DOMAIN Defaults /\ IsBench(b)
    BY <1>2, LastIs, DefaultsAre
  <2>2. \A x \in DOMAIN Defaults : Writes(o, x) <=> x = key
    BY DefaultsAre DEF Writes, FloatProps
  <2>3. o.arg.number = Meaning(o, key)
    BY DEF Meaning
  <2>4. GivenBy(o, b, set(b, key, o.arg.number))
    BY <2>1, <2>2, <2>3, SetGives
  <2>5. QED
    BY <1>2, <2>4, UpdateSets DEF update_int64_prop
<1>3. CASE p.benchmarks # <<>> /\ ~o.arg.numeric
  <2>1. update_int64_prop(p, o) = Fail(p)
    BY <1>3 DEF update_int64_prop
  <2>2. QED
    BY <2>1, FailSets
<1>4. QED
  BY <1>1, <1>2, <1>3

FloatOptions == {"--skip-time", "--timeout", "--throttle-threshold", "--throttle-recovery-delay"}

\* The options with a floating point value.
LEMMA FloatSets ==
  ASSUME NEW p, IsParser(p), NEW o, o.opt \in FloatOptions
  PROVE  SetsOrKeeps(p, update_float64_prop(p, o), o)
<1>1. CASE p.benchmarks = <<>>
  <2>1. o.opt \in Setters
    BY DEF Setters, FloatOptions
  <2>2. QED
    BY <1>1, <2>1, StandsForItself, KeepKeeps DEF update_float64_prop
<1>2. CASE p.benchmarks # <<>> /\ o.arg.numeric
  <2> DEFINE b == LastBenchmark(p)
             key == FloatProps[o.opt]
             v == 100 * o.arg.number
  <2>1. key \in DOMAIN Defaults /\ IsBench(b)
    BY <1>2, LastIs, DefaultsAre DEF FloatProps, FloatOptions
  <2>2. \A x \in DOMAIN Defaults : Writes(o, x) <=> x = key
    BY DefaultsAre DEF Writes, FloatProps, FloatOptions
  <2>3. v = Meaning(o, key)
    BY DEF Meaning, FloatProps, FloatOptions
  <2>4. o.opt # "--param" /\ o.opt # "--devices"
    BY DEF FloatOptions
  <2>5. update_float64_prop(p, o) = Update(p, set(b, key, v))
    BY <1>2 DEF update_float64_prop
  <2> HIDE DEF key, b, v
  <2>6. GivenBy(o, b, set(b, key, v))
    BY <2>1, <2>2, <2>3, <2>4, SetGives
  <2>7. QED
    BY <1>2, <2>5, <2>6, UpdateSets DEF b
<1>3. CASE p.benchmarks # <<>> /\ ~o.arg.numeric
  <2>1. update_float64_prop(p, o) = Fail(p)
    BY <1>3 DEF update_float64_prop
  <2>2. QED
    BY <2>1, FailSets
<1>4. QED
  BY <1>1, <1>2, <1>3

\* The parameters of the criteria.
LEMMA ParamSets ==
  ASSUME NEW p, IsParser(p), NEW o, o.opt = "--param"
  PROVE  SetsOrKeeps(p, update_criterion_prop(p, o), o)
<1> DEFINE b == LastBenchmark(p)
           type == ParamTypes[o.param]
           v == parse(type, o.arg)
           c == [b EXCEPT !.params = [n \in DOMAIN @ \cup {o.param} |->
                                        IF n = o.param THEN v ELSE @[n]]]
<1>1. CASE p.benchmarks = <<>>
  <2>1. o.opt \in Setters
    BY DEF Setters
  <2>2. QED
    BY <1>1, <2>1, StandsForItself, KeepKeeps DEF update_criterion_prop
<1>2. CASE p.benchmarks # <<>> /\ AllParse(type, <<o.arg>>)
  <2>1. IsBench(b)
    BY <1>2, LastIs
  <2>2. /\ DOMAIN c = BenchFields /\ c.name = b.name /\ c.cpuOnly = b.cpuOnly
        /\ c.devices = b.devices /\ c.settings = b.settings
        /\ c.params = [n \in DOMAIN b.params \cup {o.param} |->
                         IF n = o.param THEN v ELSE b.params[n]]
    BY <2>1 DEF IsBench, BenchFields
  <2>3. update_criterion_prop(p, o) = Update(p, c)
    BY <1>2 DEF update_criterion_prop
  <2>4. v = parse(ParamTypes[o.param], o.arg)
    OBVIOUS
  <2> HIDE DEF b, c, v
  <2>5. IsBench(c)
    BY <2>1, <2>2 DEF IsBench
  <2>6. ASSUME NEW k \in Keys PROVE Has(c, k) = IF Gives(o, k) THEN Meant(o, k) ELSE Has(b, k)
    <3>1. CASE k.kind = "param"
      <4>1. CASE k.name = o.param
        BY <2>2, <2>4, <3>1, <4>1 DEF Has, Gives, Meant
      <4>2. CASE k.name # o.param
        BY <2>2, <3>1, <4>2 DEF Has, Gives
      <4>3. QED
        BY <4>1, <4>2
    <3>2. CASE k.kind = "setting"
      <4>1. ~Writes(o, k.name)
        BY DEF Writes, FloatProps
      <4>2. QED
        BY <2>2, <3>2, <4>1 DEF Has, Gives
    <3>3. CASE k.kind = "devices"
      BY <2>2, <3>3 DEF Has, Gives
    <3>4. QED
      BY <3>1, <3>2, <3>3 DEF Keys
  <2>7. GivenBy(o, b, c)
    BY <2>2, <2>5, <2>6 DEF GivenBy, KeysOf
  <2>8. QED
    BY <1>2, <2>3, <2>7, UpdateSets DEF b
<1>3. CASE p.benchmarks # <<>> /\ ~AllParse(type, <<o.arg>>)
  <2>1. update_criterion_prop(p, o) = Fail(p)
    BY <1>3 DEF update_criterion_prop
  <2>2. QED
    BY <2>1, FailSets
<1>4. QED
  BY <1>1, <1>2, <1>3

Outcomes == {"values", "refused", "endless"}

\* Values are read or not, or reading them does not return.
LEMMA ValuesOutcome ==
  ASSUME NEW type, NEW spec
  PROVE  parse_values(type, spec).result \in Outcomes
<1>1. /\ \A v : Values(v).result = "values"
      /\ Refused.result = "refused" /\ Endless.result = "endless"
  BY DEF Values, Refused, Endless
<1>2. ASSUME NEW first, NEW last, NEW stride
      PROVE  range_(type, first, last, stride).result \in Outcomes
  BY <1>1 DEF range_, Outcomes
<1>3. parse_range_values(type, spec.words).result \in Outcomes
  BY <1>1, <1>2 DEF parse_range_values, Outcomes
<1>4. parse_list_values(type, spec.words).result \in Outcomes
  BY <1>1 DEF parse_list_values, Outcomes
<1>5. Refused.result \in Outcomes
  BY <1>1 DEF Outcomes
<1>6. QED
  BY <1>3, <1>4, <1>5 DEF parse_values

\* So is an axis.
LEMMA AxisOutcome ==
  ASSUME NEW axis, NEW flag, NEW spec
  PROVE  updated_axis(axis, flag, spec).result \in Outcomes
<1>1. /\ \A a : Done(a).result = "values"
      /\ \A x, a : Not(x, a).result = x.result
      /\ Refused.result = "refused"
  BY DEF Done, Not, Refused
<1>2. \A type : parse_values(type, spec).result \in Outcomes
  BY ValuesOutcome
<1>3. update_plain_axis(axis, flag, spec).result \in Outcomes
  BY <1>1, <1>2 DEF update_plain_axis, Outcomes
<1>4. \A inputs, pow2 : set_inputs(axis, inputs, pow2).result \in Outcomes
  BY <1>1 DEF set_inputs, Outcomes
<1>5. \A inputs : set_active_inputs(axis, inputs).result \in Outcomes
  BY <1>1 DEF set_active_inputs, Outcomes
<1>6. update_int64_axis(axis, flag, spec).result \in Outcomes
  BY <1>1, <1>2, <1>4 DEF update_int64_axis, Outcomes
<1>7. update_type_axis(axis, flag, spec).result \in Outcomes
  BY <1>1, <1>2, <1>5 DEF update_type_axis, Outcomes
<1>8. QED
  BY <1>3, <1>6, <1>7 DEF updated_axis

\* get_devices: the ids below the number of devices.
LEMMA AllDevices ==
  ASSUME NumDevices \in Nat
  PROVE  ToSet(get_devices) = 0 .. NumDevices - 1
<1>1. DOMAIN get_devices = 1 .. NumDevices /\ \A i \in 1 .. NumDevices : get_devices[i] = i - 1
  BY DEF get_devices
<1>2. \A d \in 0 .. NumDevices - 1 : d + 1 \in 1 .. NumDevices /\ (d + 1) - 1 = d
  OBVIOUS
<1>3. \A i \in 1 .. NumDevices : i - 1 \in 0 .. NumDevices - 1
  OBVIOUS
<1>4. ASSUME NEW d PROVE d \in ToSet(get_devices) <=> d \in 0 .. NumDevices - 1
  <2>1. d \in ToSet(get_devices) <=> \E i \in 1 .. NumDevices : d = i - 1
    BY <1>1 DEF ToSet
  <2>2. QED
    BY <1>2, <1>3, <2>1
<1>5. QED
  BY <1>4

\* Devices that are read are devices of the machine.
LEMMA DevicesRead ==
  ASSUME NEW spec, parse_devices(spec).result = "values"
  PROVE  ToSet(parse_devices(spec).values) \subseteq 0 .. NumDevices - 1
<1>1. NumDevices \in Nat
  BY ParserAssumption
<1>2. \A v : Values(v).values = v
  BY DEF Values
<1>3. Refused.result # "values"
  BY DEF Refused
<1>4. CASE spec.kind = "all"
  BY <1>1, <1>2, <1>4, AllDevices DEF parse_devices
<1>5. CASE spec.kind # "all"
  BY <1>3, <1>5 DEF parse_devices
<1>6. QED
  BY <1>4, <1>5

\* Devices are read or not, or reading them does not return.
LEMMA DevicesOutcome ==
  ASSUME NEW spec
  PROVE  parse_devices(spec).result \in Outcomes
<1>1. parse_values("int32", spec).result \in Outcomes /\ Refused.result \in Outcomes
      /\ Values(get_devices).result \in Outcomes
  BY ValuesOutcome DEF Refused, Values, Outcomes
<1>2. QED
  BY <1>1 DEF parse_devices

\* The most recent devices are no part of what the proofs are about.
LEMMA RecentIs ==
  ASSUME NEW p, IsParser(p), NEW v
  PROVE  LET q == [p EXCEPT !.recent = v]
         IN  /\ IsParser(q) /\ q.status = p.status /\ q.global = p.global
             /\ q.benchmarks = p.benchmarks /\ SameOutput(p, q)
BY DEF IsParser, ParserFields, SameOutput

\* A handler that also notes the most recent devices.
LEMMA RecentSets ==
  ASSUME NEW p, NEW q, IsParser(q), NEW o, SetsOrKeeps(p, q, o), NEW v
  PROVE  SetsOrKeeps(p, [q EXCEPT !.recent = v], o)
<1> DEFINE r == [q EXCEPT !.recent = v]
<1>1. /\ IsParser(r) /\ r.status = q.status /\ r.global = q.global
      /\ r.benchmarks = q.benchmarks /\ SameOutput(q, r)
  BY RecentIs
<1> HIDE DEF r
<1>2. SetsOrKeeps(p, r, o)
  BY <1>1 DEF SetsOrKeeps, SameOutput, ChangesLast
<1>3. QED
  BY <1>2 DEF r

\* Devices that were read are given to the benchmark.
LEMMA DevicesSet ==
  ASSUME NEW b, IsBench(b), NEW o, o.opt = "--devices", parse_devices(o.arg).result = "values"
  PROVE  GivenBy(o, b, set_devices(b, parse_devices(o.arg).values))
<1> DEFINE v == parse_devices(o.arg).values
           c == set_devices(b, v)
<1>1. ToSet(v) \subseteq 0 .. NumDevices - 1
  BY DevicesRead
<1>2. \A k \in Keys : Gives(o, k) <=> k.kind = "devices"
  BY DEF Gives, Keys, Writes, FloatProps
<1>3. CASE b.cpuOnly
  <2>1. c = b
    BY <1>3 DEF set_devices
  <2> HIDE DEF c
  <2>2. QED
    BY <1>2, <1>3, <2>1 DEF GivenBy, KeysOf, c
<1>4. CASE ~b.cpuOnly
  <2>1. /\ DOMAIN c = BenchFields /\ c.name = b.name /\ c.cpuOnly = b.cpuOnly /\ c.devices = v
        /\ c.settings = b.settings /\ c.params = b.params
    BY <1>4 DEF set_devices, IsBench, BenchFields
  <2>2. v = parse_devices(o.arg).values
    OBVIOUS
  <2> HIDE DEF c, v
  <2>3. IsBench(c)
    BY <1>1, <1>4, <2>1 DEF IsBench
  <2>4. \A k \in Keys : Has(c, k) = IF Gives(o, k) THEN Meant(o, k) ELSE Has(b, k)
    BY <1>2, <2>1, <2>2 DEF Keys, Has, Meant
  <2>5. QED
    BY <2>1, <2>3, <2>4 DEF GivenBy, KeysOf, c, v
<1>5. QED
  BY <1>3, <1>4 DEF IsBench

\* --devices.
LEMMA DevicesSets ==
  ASSUME NEW p, IsParser(p), NEW o, o.opt = "--devices"
  PROVE  SetsOrKeeps(p, update_devices(p, o), o)
<1> DEFINE d == parse_devices(o.arg)
           b == LastBenchmark(p)
           q == IF p.benchmarks = <<>> THEN Keep(p, o) ELSE Update(p, set_devices(b, d.values))
<1>1. CASE d.result # "values"
  <2>1. update_devices(p, o) = [p EXCEPT !.status = d.result]
    BY <1>1 DEF update_devices
  <2>2. d.result \in {"refused", "endless"}
    BY <1>1, DevicesOutcome DEF Outcomes
  <2> HIDE DEF d
  <2>3. /\ SetsOrKeeps(p, [p EXCEPT !.status = "refused"], o)
        /\ SetsOrKeeps(p, [p EXCEPT !.status = "endless"], o)
    BY StopSets
  <2>4. QED
    BY <2>1, <2>2, <2>3
<1>2. CASE d.result = "values"
  <2>1. update_devices(p, o) = [q EXCEPT !.recent = d.values]
    BY <1>2 DEF update_devices
  <2>2. SetsOrKeeps(p, q, o)
    <3>1. CASE p.benchmarks = <<>>
      <4>1. o.opt \in Setters
        BY DEF Setters
      <4>2. QED
        BY <3>1, <4>1, StandsForItself, KeepKeeps
    <3>2. CASE p.benchmarks # <<>>
      <4>1. GivenBy(o, b, set_devices(b, d.values))
        BY <1>2, <3>2, LastIs, DevicesSet
      <4> HIDE DEF d
      <4>2. q = Update(p, set_devices(b, d.values))
        BY <3>2
      <4>3. QED
        BY <3>2, <4>1, <4>2, UpdateSets
    <3>3. QED
      BY <3>1, <3>2
  <2> HIDE DEF q, d
  <2>3. IsParser(q)
    BY <2>2 DEF SetsOrKeeps
  <2>4. \A v : SetsOrKeeps(p, [q EXCEPT !.recent = v], o)
    BY <2>2, <2>3, RecentSets
  <2>5. QED
    BY <2>1, <2>4, Zenon
<1>3. QED
  BY <1>1, <1>2

\* --axis: it changes the axes and nothing else.
LEMMA AxisSets ==
  ASSUME NEW p, IsParser(p), NEW o, o.opt = "--axis"
  PROVE  SetsOrKeeps(p, update_axis(p, o), o)
<1> DEFINE b == LastBenchmark(p)
           i == get_axis(b.axes, o.arg.name)
           new == updated_axis(b.axes[i], o.arg.flag, o.arg)
           c == [b EXCEPT !.axes[i] = new.axis]
<1>1. CASE p.benchmarks = <<>>
  <2>1. o.opt \in Setters
    BY DEF Setters
  <2>2. QED
    BY <1>1, <2>1, StandsForItself, KeepKeeps DEF update_axis
<1>2. CASE p.benchmarks # <<>> /\ i = 0
  <2>1. update_axis(p, o) = Fail(p)
    BY <1>2 DEF update_axis
  <2>2. QED
    BY <2>1, FailSets
<1>3. CASE p.benchmarks # <<>> /\ i # 0 /\ new.result # "values"
  <2>1. update_axis(p, o) = [p EXCEPT !.status = new.result]
    BY <1>3 DEF update_axis
  <2>2. new.result \in Outcomes
    BY AxisOutcome
  <2> HIDE DEF new
  <2>3. new.result \in {"refused", "endless"}
    BY <1>3, <2>2 DEF Outcomes
  <2>4. /\ SetsOrKeeps(p, [p EXCEPT !.status = "refused"], o)
        /\ SetsOrKeeps(p, [p EXCEPT !.status = "endless"], o)
    BY StopSets
  <2>5. QED
    BY <2>1, <2>3, <2>4
<1>4. CASE p.benchmarks # <<>> /\ i # 0 /\ new.result = "values"
  <2>1. update_axis(p, o) = Update(p, c)
    BY <1>4 DEF update_axis
  <2> HIDE DEF i, new
  <2>2. IsBench(b)
    BY <1>4, LastIs
  <2>3. /\ DOMAIN c = BenchFields /\ c.name = b.name /\ c.cpuOnly = b.cpuOnly
        /\ c.devices = b.devices /\ c.settings = b.settings /\ c.params = b.params
    BY <2>2 DEF IsBench, BenchFields
  <2>4. \A k \in Keys : ~Gives(o, k)
    BY DEF Gives, Keys, Writes, FloatProps
  <2> HIDE DEF b, c
  <2>5. IsBench(c)
    BY <2>2, <2>3 DEF IsBench
  <2>6. \A k \in Keys : Has(c, k) = Has(b, k)
    BY <2>3 DEF Has, Keys
  <2>7. GivenBy(o, b, c)
    BY <2>3, <2>4, <2>5, <2>6 DEF GivenBy, KeysOf
  <2>8. QED
    BY <1>4, <2>1, <2>7, UpdateSets DEF b
<1> HIDE DEF i, new
<1>5. QED
  BY <1>1, <1>2, <1>3, <1>4

Formats == {"--md", "--csv", "--json", "--jsonbin"}

\* What is kept of an option: it gives what the option gives.
Recorded(g, h, o) ==
  /\ IsSeq(h) /\ Len(g) <= Len(h)
  /\ \A i \in 1 .. Len(g) : h[i] = g[i]
  /\ \A i \in Len(g) + 1 .. Len(h) : h[i].opt \in Setters
  /\ \A k \in Keys :
       IF Gives(o, k)
         THEN \E i \in Len(g) + 1 .. Len(h) :
                /\ Gives(h[i], k) /\ Meant(h[i], k) = Meant(o, k)
                /\ \A j \in i + 1 .. Len(h) : ~Gives(h[j], k)
         ELSE \A i \in Len(g) + 1 .. Len(h) : ~Gives(h[i], k)

\* What an option does to the benchmarks.
Applies(p, q, o) ==
  /\ IsParser(q)
  /\ q.status = "ok" =>
       /\ p.benchmarks = <<>> => q.benchmarks = <<>> /\ Recorded(p.global, q.global, o)
       /\ p.benchmarks # <<>> =>
            /\ q.global = p.global /\ q.benchmarks # <<>>
            /\ \E c : ChangesLast(p, q, c) /\ GivenBy(o, LastBenchmark(p), c)

PrinterOf(p, o) ==
  [format |-> o.opt, stream |-> o.arg.text,
   color |-> o.opt = "--md" /\ o.arg.text = "stdout" /\ p.color]

\* What an option does to the printers.
Prints(p, q, o) ==
  q.status = "ok" =>
    /\ q.color = (p.color \/ o.opt = "--color")
    /\ q.have_stdout_printer =
         (p.have_stdout_printer \/ o.opt = "--quiet"
            \/ (o.opt \in Formats /\ o.arg.text = "stdout"))
    /\ q.printers = IF o.opt \in Formats THEN Append(p.printers, PrinterOf(p, o)) ELSE p.printers

\* One option that is kept.
LEMMA KeptIsRecorded ==
  ASSUME NEW g, IsSeq(g), NEW o, NEW kept, StandsFor(kept, o)
  PROVE  Recorded(g, Append(g, kept), o)
<1> DEFINE h == Append(g, kept)
<1>1. /\ IsSeq(h) /\ Len(g) \in Nat /\ Len(h) = Len(g) + 1 /\ h[Len(g) + 1] = kept
      /\ \A i \in 1 .. Len(g) : h[i] = g[i]
  BY AppendIs
<1> HIDE DEF h
<1>2. \A i \in Len(g) + 1 .. Len(h) : i = Len(g) + 1 /\ h[i] = kept
  BY <1>1
<1>3. Len(g) + 1 \in Len(g) + 1 .. Len(h) /\ ~\E j \in (Len(g) + 1) + 1 .. Len(h) : TRUE
  BY <1>1
<1>4. ASSUME NEW k \in Keys, Gives(o, k)
      PROVE  \E i \in Len(g) + 1 .. Len(h) :
                /\ Gives(h[i], k) /\ Meant(h[i], k) = Meant(o, k)
                /\ \A j \in i + 1 .. Len(h) : ~Gives(h[j], k)
  <2>1. Gives(kept, k) /\ Meant(kept, k) = Meant(o, k)
    BY <1>4 DEF StandsFor
  <2>2. QED
    BY <1>1, <1>3, <2>1
<1>5. ASSUME NEW k \in Keys, ~Gives(o, k), NEW i \in Len(g) + 1 .. Len(h)
      PROVE  ~Gives(h[i], k)
  BY <1>2, <1>5 DEF StandsFor
<1>6. \A i \in Len(g) + 1 .. Len(h) : h[i].opt \in Setters
  BY <1>2 DEF StandsFor
<1>7. Len(g) <= Len(h)
  BY <1>1
<1>8. QED
  BY <1>1, <1>4, <1>5, <1>6, <1>7 DEF Recorded, h

\* A handler of an option that sets something does what the option says,
\* and nothing to the printers.
LEMMA SetterApplies ==
  ASSUME NEW p, IsParser(p), NEW o, NEW q, SetsOrKeeps(p, q, o), o.opt \in Setters
  PROVE  Applies(p, q, o) /\ Prints(p, q, o)
<1>1. IsSeq(p.global) /\ p.color \in BOOLEAN /\ p.have_stdout_printer \in BOOLEAN
  BY DEF IsParser
<1>2. o.opt \notin Formats \cup {"--color", "--quiet"}
  BY DEF Setters, Formats
<1>3. Prints(p, q, o)
  BY <1>1, <1>2 DEF Prints, SetsOrKeeps, SameOutput
<1>4. ASSUME q.status = "ok", p.benchmarks = <<>>
      PROVE  q.benchmarks = <<>> /\ Recorded(p.global, q.global, o)
  <2>1. PICK kept : StandsFor(kept, o) /\ q.global = Append(p.global, kept)
    BY <1>4 DEF SetsOrKeeps
  <2>2. QED
    BY <1>1, <1>4, <2>1, KeptIsRecorded DEF SetsOrKeeps
<1>5. QED
  BY <1>3, <1>4 DEF Applies, SetsOrKeeps

\* An option that gives nothing to benchmarks.
LEMMA OtherApplies ==
  ASSUME NEW p, IsParser(p), NEW o, NEW q, IsParser(q),
         o.opt \in Formats \cup {"--color", "--quiet", "--persistence-mode", "--lock-gpu-clocks"},
         q.global = p.global, q.benchmarks = p.benchmarks
  PROVE  Applies(p, q, o)
<1>1. \A k \in Keys : ~Gives(o, k)
  BY DEF Keys, Gives, Writes, FloatProps, Formats
<1>2. IsSeq(p.global) /\ Len(p.global) \in Nat
  BY EmptyIs DEF IsParser
<1>3. Recorded(p.global, p.global, o)
  BY <1>1, <1>2 DEF Recorded
<1>4. ASSUME p.benchmarks # <<>>
      PROVE  /\ ChangesLast(p, q, LastBenchmark(p))
             /\ GivenBy(o, LastBenchmark(p), LastBenchmark(p))
  BY <1>1, <1>4, LastIs DEF ChangesLast, GivenBy, LastBenchmark, KeysOf
<1>5. QED
  BY <1>3, <1>4 DEF Applies

\* The options that add a printer.
LEMMA PrinterApplies ==
  ASSUME NEW p, IsParser(p), NEW o, o.opt \in Formats
  PROVE  Applies(p, add_printer(p, o), o) /\ Prints(p, add_printer(p, o), o)
<1> DEFINE q == add_printer(p, o)
<1>1. CASE o.arg.text \in Unopenable
  <2>1. q = Fail(p)
    BY <1>1 DEF add_printer
  <2>2. IsParser(Fail(p)) /\ Fail(p).status = "refused"
    BY StopIs DEF Fail
  <2> HIDE DEF q
  <2>3. Applies(p, q, o) /\ Prints(p, q, o)
    BY <2>1, <2>2 DEF Applies, Prints
  <2>4. QED
    BY <2>3 DEF q
<1>2. CASE o.arg.text \notin Unopenable
  <2>1. /\ DOMAIN q = ParserFields /\ q.status = p.status /\ q.global = p.global
        /\ q.benchmarks = p.benchmarks /\ q.color = p.color
        /\ q.printers = Append(p.printers, PrinterOf(p, o))
        /\ q.have_stdout_printer = (p.have_stdout_printer \/ o.arg.text = "stdout")
    BY <1>2 DEF add_printer, IsParser, ParserFields, PrinterOf
  <2>2. IsSeq(Append(p.printers, PrinterOf(p, o)))
    BY AppendIs DEF IsParser
  <2> HIDE DEF q
  <2>3. IsParser(q)
    BY <2>1, <2>2 DEF IsParser
  <2>4. Applies(p, q, o)
    BY <2>1, <2>3, OtherApplies
  <2>5. o.opt # "--quiet" /\ o.opt # "--color" /\ p.color \in BOOLEAN
    BY DEF Formats, IsParser
  <2>6. Prints(p, q, o)
    BY <2>1, <2>5 DEF Prints
  <2>7. QED
    BY <2>4, <2>6 DEF q
<1>3. QED
  BY <1>1, <1>2

\* --quiet.
LEMMA QuietApplies ==
  ASSUME NEW p, IsParser(p), NEW o, o.opt = "--quiet"
  PROVE  LET q == [p EXCEPT !.have_stdout_printer = TRUE]
         IN  Applies(p, q, o) /\ Prints(p, q, o)
<1> DEFINE q == [p EXCEPT !.have_stdout_printer = TRUE]
<1>1. /\ DOMAIN q = ParserFields /\ q.status = p.status /\ q.global = p.global
      /\ q.benchmarks = p.benchmarks /\ q.color = p.color /\ q.printers = p.printers
      /\ q.have_stdout_printer = TRUE
  BY DEF IsParser, ParserFields
<1> HIDE DEF q
<1>2. IsParser(q) /\ p.color \in BOOLEAN /\ o.opt \notin Formats /\ o.opt # "--color"
  BY <1>1 DEF IsParser, Formats
<1>3. Applies(p, q, o) /\ Prints(p, q, o)
  BY <1>1, <1>2, OtherApplies DEF Prints
<1>4. QED
  BY <1>3 DEF q

\* --color.
LEMMA ColorApplies ==
  ASSUME NEW p, IsParser(p), NEW o, o.opt = "--color"
  PROVE  LET q == [p EXCEPT !.color = TRUE]
         IN  Applies(p, q, o) /\ Prints(p, q, o)
<1> DEFINE q == [p EXCEPT !.color = TRUE]
<1>1. /\ DOMAIN q = ParserFields /\ q.status = p.status /\ q.global = p.global
      /\ q.benchmarks = p.benchmarks /\ q.color = TRUE /\ q.printers = p.printers
      /\ q.have_stdout_printer = p.have_stdout_printer
  BY DEF IsParser, ParserFields
<1> HIDE DEF q
<1>2. IsParser(q) /\ p.have_stdout_printer \in BOOLEAN /\ o.opt \notin Formats /\ o.opt # "--quiet"
  BY <1>1 DEF IsParser, Formats
<1>3. Applies(p, q, o) /\ Prints(p, q, o)
  BY <1>1, <1>2, OtherApplies DEF Prints
<1>4. QED
  BY <1>3 DEF q

\* What setting a flag gives.
LEMMA FlagGives ==
  ASSUME NEW b, IsBench(b), NEW key \in {"run_once", "disable_blocking_kernel"}
  PROVE  /\ IsBench(set(b, key, TRUE)) /\ set(b, key, TRUE).name = b.name
         /\ set(b, key, TRUE).cpuOnly = b.cpuOnly
         /\ \A k \in Keys : Has(set(b, key, TRUE), k)
              = IF k.kind = "setting" /\ k.name = key THEN <<TRUE>> ELSE Has(b, k)
<1>1. key \in DOMAIN Defaults
  BY DefaultsAre
<1>2. ASSUME NEW v
      PROVE  /\ IsBench(set(b, key, v)) /\ set(b, key, v).name = b.name
             /\ set(b, key, v).cpuOnly = b.cpuOnly
             /\ \A k \in Keys : Has(set(b, key, v), k)
                  = IF k.kind = "setting" /\ k.name = key THEN <<v>> ELSE Has(b, k)
  <2> HIDE DEF Keys
  <2>1. QED
    BY <1>1, SetIs
<1>3. QED
  BY <1>2, Zenon

\* --profile gives the two settings.
LEMMA ProfileGives ==
  ASSUME NEW o, o.opt = "--profile", NEW k \in Keys
  PROVE  /\ Gives(o, k) <=> k.kind = "setting" /\ k.name \in {"run_once", "disable_blocking_kernel"}
         /\ Gives(o, k) => Meant(o, k) = <<TRUE>>
<1>1. Gives(o, k) <=> k.kind = "setting" /\ k.name \in {"run_once", "disable_blocking_kernel"}
  <2>1. CASE k.kind = "setting"
    <3>1. k.name \in DOMAIN Defaults
      BY <2>1 DEF Keys
    <3>2. QED
      BY <2>1, <3>1, DefaultsAre DEF Gives, Writes, FloatProps
  <2>2. CASE k.kind # "setting"
    BY <2>2 DEF Gives
  <2>3. QED
    BY <2>1, <2>2
<1>2. Gives(o, k) => Meant(o, k) = <<TRUE>>
  BY <1>1 DEF Meant, Meaning
<1>3. QED
  BY <1>1, <1>2

\* What the two options kept for --profile give.
LEMMA KeptFlagGives ==
  ASSUME NEW o, NEW key,
         \/ o.opt = "--run-once" /\ key = "run_once"
         \/ o.opt = "--disable-blocking-kernel" /\ key = "disable_blocking_kernel",
         NEW k \in Keys
  PROVE  /\ Gives(o, k) <=> k.kind = "setting" /\ k.name = key
         /\ Gives(o, k) => Meant(o, k) = <<TRUE>>
<1>1. Gives(o, k) <=> k.kind = "setting" /\ k.name = key
  <2>1. CASE k.kind = "setting"
    <3>1. k.name \in DOMAIN Defaults
      BY <2>1 DEF Keys
    <3>2. QED
      BY <2>1, <3>1, DefaultsAre DEF Gives, Writes, FloatProps
  <2>2. CASE k.kind # "setting"
    BY <2>2 DEF Gives
  <2>3. QED
    BY <2>1, <2>2
<1>2. Gives(o, k) => Meant(o, k) = <<TRUE>>
  BY <1>1 DEF Meant, Meaning
<1>3. QED
  BY <1>1, <1>2

\* The two options kept for --profile record it.
LEMMA ProfileIsRecorded ==
  ASSUME NEW g, IsSeq(g), NEW o, o.opt = "--profile"
  PROVE  Recorded(g, Append(Append(g, [opt |-> "--run-once"]),
                            [opt |-> "--disable-blocking-kernel"]), o)
<1> DEFINE first == [opt |-> "--run-once"]
           second == [opt |-> "--disable-blocking-kernel"]
           h == Append(Append(g, first), second)
           n == Len(g)
<1>1. /\ IsSeq(h) /\ n \in Nat /\ Len(h) = n + 2 /\ h[n + 1] = first /\ h[n + 2] = second
      /\ \A i \in 1 .. n : h[i] = g[i]
  <2>1. /\ IsSeq(Append(g, first)) /\ n \in Nat /\ Len(Append(g, first)) = n + 1
        /\ Append(g, first)[n + 1] = first /\ \A i \in 1 .. n : Append(g, first)[i] = g[i]
    BY AppendIs
  <2> DEFINE f == Append(g, first)
  <2>2. /\ IsSeq(Append(f, second)) /\ Len(Append(f, second)) = Len(f) + 1
        /\ Append(f, second)[Len(f) + 1] = second
        /\ \A i \in 1 .. Len(f) : Append(f, second)[i] = f[i]
    BY <2>1, AppendIs
  <2> HIDE DEF f
  <2>3. h = Append(f, second) /\ Len(f) = n + 1 /\ f[n + 1] = first /\ n \in Nat
        /\ \A i \in 1 .. n : f[i] = g[i]
    BY <2>1 DEF f
  <2> HIDE DEF h, n
  <2>4. QED
    BY <2>2, <2>3
<1>2. first.opt = "--run-once" /\ second.opt = "--disable-blocking-kernel"
  OBVIOUS
<1> HIDE DEF h, n, first, second
<1>3. \A i \in n + 1 .. Len(h) : i = n + 1 \/ i = n + 2
  BY <1>1
<1>4. n + 1 \in n + 1 .. Len(h) /\ n + 2 \in n + 1 .. Len(h) /\ n <= Len(h)
      /\ (\A j \in (n + 1) + 1 .. Len(h) : j = n + 2) /\ ~\E j \in (n + 2) + 1 .. Len(h) : TRUE
  BY <1>1
<1>5. \A i \in n + 1 .. Len(h) : h[i].opt \in Setters
  BY <1>1, <1>2, <1>3 DEF Setters
<1>6. ASSUME NEW k \in Keys
      PROVE  /\ Gives(first, k) <=> k.kind = "setting" /\ k.name = "run_once"
             /\ Gives(second, k) <=> k.kind = "setting" /\ k.name = "disable_blocking_kernel"
             /\ Gives(first, k) => Meant(first, k) = <<TRUE>>
             /\ Gives(second, k) => Meant(second, k) = <<TRUE>>
             /\ Gives(o, k) <=> Gives(first, k) \/ Gives(second, k)
             /\ Gives(o, k) => Meant(o, k) = <<TRUE>>
  <2>1. /\ Gives(first, k) <=> k.kind = "setting" /\ k.name = "run_once"
        /\ Gives(first, k) => Meant(first, k) = <<TRUE>>
    BY <1>2, KeptFlagGives
  <2>2. /\ Gives(second, k) <=> k.kind = "setting" /\ k.name = "disable_blocking_kernel"
        /\ Gives(second, k) => Meant(second, k) = <<TRUE>>
    BY <1>2, KeptFlagGives
  <2>3. /\ Gives(o, k) <=> k.kind = "setting" /\ k.name \in {"run_once", "disable_blocking_kernel"}
        /\ Gives(o, k) => Meant(o, k) = <<TRUE>>
    BY ProfileGives
  <2>4. QED
    BY <2>1, <2>2, <2>3
<1>7. ASSUME NEW k \in Keys, Gives(o, k)
      PROVE  \E i \in n + 1 .. Len(h) :
                /\ Gives(h[i], k) /\ Meant(h[i], k) = Meant(o, k)
                /\ \A j \in i + 1 .. Len(h) : ~Gives(h[j], k)
  <2>1. CASE Gives(first, k)
    <3>1. ~Gives(second, k)
      BY <1>6, <2>1
    <3>2. Gives(h[n + 1], k) /\ Meant(h[n + 1], k) = Meant(o, k)
      BY <1>1, <1>6, <1>7, <2>1
    <3>3. \A j \in (n + 1) + 1 .. Len(h) : ~Gives(h[j], k)
      BY <1>1, <1>4, <3>1
    <3>4. QED
      BY <1>4, <3>2, <3>3
  <2>2. CASE Gives(second, k)
    <3>1. Gives(h[n + 2], k) /\ Meant(h[n + 2], k) = Meant(o, k)
      BY <1>1, <1>6, <1>7, <2>2
    <3>2. QED
      BY <1>4, <3>1
  <2>3. QED
    BY <1>6, <1>7, <2>1, <2>2
<1>8. ASSUME NEW k \in Keys, ~Gives(o, k), NEW i \in n + 1 .. Len(h)
      PROVE  ~Gives(h[i], k)
  BY <1>1, <1>3, <1>6, <1>8
<1>9. Recorded(g, h, o)
  BY <1>1, <1>4, <1>5, <1>7, <1>8 DEF Recorded, n
<1>10. QED
  BY <1>9 DEF h, first, second

\* --profile, before any benchmark and after one.
LEMMA ProfileApplies ==
  ASSUME NEW p, IsParser(p), NEW o, o.opt = "--profile"
  PROVE  LET q == disable_blocking_kernel(enable_run_once(p))
         IN  Applies(p, q, o) /\ Prints(p, q, o)
<1> DEFINE q == disable_blocking_kernel(enable_run_once(p))
           x == enable_run_once(p)
<1>0. o.opt \notin Formats /\ o.opt # "--color" /\ o.opt # "--quiet"
      /\ p.color \in BOOLEAN /\ p.have_stdout_printer \in BOOLEAN
  BY DEF Formats, IsParser
<1>1. CASE p.benchmarks = <<>>
  <2>1. x = Keep(p, [opt |-> "--run-once"])
    BY <1>1 DEF enable_run_once, set_flag
  <2> HIDE DEF x
  <2>2. /\ IsParser(x) /\ x.benchmarks = <<>> /\ SameOutput(p, x)
        /\ x.global = Append(p.global, [opt |-> "--run-once"])
    BY <1>1, <2>1, KeepIs
  <2>3. q = Keep(x, [opt |-> "--disable-blocking-kernel"])
    BY <2>2 DEF disable_blocking_kernel, set_flag, x
  <2> HIDE DEF q
  <2>4. /\ IsParser(q) /\ q.benchmarks = <<>> /\ SameOutput(x, q)
        /\ q.global = Append(x.global, [opt |-> "--disable-blocking-kernel"])
    BY <2>2, <2>3, KeepIs
  <2>5. Recorded(p.global, q.global, o)
    BY <2>2, <2>4, ProfileIsRecorded DEF IsParser
  <2>6. Applies(p, q, o)
    BY <1>1, <2>4, <2>5 DEF Applies
  <2>7. Prints(p, q, o)
    BY <1>0, <2>2, <2>4 DEF Prints, SameOutput
  <2>8. QED
    BY <2>6, <2>7 DEF q
<1>2. CASE p.benchmarks # <<>>
  <2> DEFINE b == LastBenchmark(p)
             c == set(b, "run_once", TRUE)
             d == set(c, "disable_blocking_kernel", TRUE)
  <2>1. x = Update(p, c)
    BY <1>2 DEF enable_run_once, set_flag
  <2>2. IsBench(b)
    BY <1>2, LastIs
  <2> HIDE DEF b
  <2>3. /\ IsBench(c) /\ c.name = b.name /\ c.cpuOnly = b.cpuOnly
        /\ \A k \in Keys : Has(c, k)
             = IF k.kind = "setting" /\ k.name = "run_once" THEN <<TRUE>> ELSE Has(b, k)
    BY <2>2, FlagGives
  <2> HIDE DEF x, c
  <2>4. /\ IsParser(x) /\ x.global = p.global /\ SameOutput(p, x)
        /\ ChangesLast(p, x, c) /\ x.benchmarks # <<>>
    BY <1>2, <2>1, <2>3, UpdateIs
  <2>5. LastBenchmark(x) = c /\ Len(x.benchmarks) = Len(p.benchmarks)
    BY <2>4 DEF ChangesLast, LastBenchmark
  <2>6. q = Update(x, d)
    BY <2>4, <2>5 DEF disable_blocking_kernel, set_flag, x
  <2>7. /\ IsBench(d) /\ d.name = c.name /\ d.cpuOnly = c.cpuOnly
        /\ \A k \in Keys : Has(d, k)
             = IF k.kind = "setting" /\ k.name = "disable_blocking_kernel"
                 THEN <<TRUE>> ELSE Has(c, k)
    BY <2>3, FlagGives
  <2> HIDE DEF d, q
  <2>8. /\ IsParser(q) /\ q.global = x.global /\ SameOutput(x, q)
        /\ ChangesLast(x, q, d) /\ q.benchmarks # <<>>
    BY <2>4, <2>6, <2>7, UpdateIs
  <2>9. GivenBy(o, b, d)
    <3>1. \A k \in Keys : Has(d, k) = IF Gives(o, k) THEN Meant(o, k) ELSE Has(b, k)
      BY <2>3, <2>7, ProfileGives
    <3>2. QED
      BY <2>3, <2>7, <3>1 DEF GivenBy, KeysOf
  <2>10. ChangesLast(p, q, d)
    BY <2>4, <2>5, <2>8 DEF ChangesLast
  <2>11. Applies(p, q, o)
    BY <1>2, <2>4, <2>8, <2>9, <2>10 DEF Applies, b
  <2>12. Prints(p, q, o)
    BY <1>0, <2>4, <2>8 DEF Prints, SameOutput
  <2>13. QED
    BY <2>11, <2>12 DEF q
<1>3. QED
  BY <1>1, <1>2

\* The options that are handled alike, given or replayed.
Handled == Setters \cup Formats \cup {"--profile", "--quiet", "--color"}

\* Every option that is handled does what it should to the benchmarks and to
\* the printers.
LEMMA HandleApplies ==
  ASSUME NEW p, IsParser(p), p.status = "ok", NEW o, o.opt \in Handled
  PROVE  Applies(p, handle(p, o), o) /\ Prints(p, handle(p, o), o)
<1>0. DOMAIN FloatProps = FloatOptions
  BY DEF FloatProps, FloatOptions
<1>1. CASE o.opt = "--run-once"
  <2>1. handle(p, o) = set_flag(p, [opt |-> o.opt], "run_once")
    BY <1>0, <1>1 DEF handle, enable_run_once, FloatOptions
  <2>2. SetsOrKeeps(p, set_flag(p, [opt |-> o.opt], "run_once"), o)
    BY <1>1, FlagSets
  <2>3. o.opt \in Setters
    BY <1>1 DEF Setters
  <2>4. QED
    BY <2>1, <2>2, <2>3, SetterApplies
<1>2. CASE o.opt = "--disable-blocking-kernel"
  <2>1. handle(p, o) = set_flag(p, [opt |-> o.opt], "disable_blocking_kernel")
    BY <1>0, <1>2 DEF handle, disable_blocking_kernel, FloatOptions
  <2>2. SetsOrKeeps(p, set_flag(p, [opt |-> o.opt], "disable_blocking_kernel"), o)
    BY <1>2, FlagSets
  <2>3. o.opt \in Setters
    BY <1>2 DEF Setters
  <2>4. QED
    BY <2>1, <2>2, <2>3, SetterApplies
<1>3. CASE o.opt = "--profile"
  <2>1. handle(p, o) = disable_blocking_kernel(enable_run_once(p))
    BY <1>0, <1>3 DEF handle, FloatOptions
  <2>2. QED
    BY <1>3, <2>1, ProfileApplies
<1>4. CASE o.opt = "--stopping-criterion"
  <2>1. handle(p, o) = set_stopping_criterion(p, o)
    BY <1>0, <1>4 DEF handle, FloatOptions
  <2>2. o.opt \in Setters
    BY <1>4 DEF Setters
  <2>3. QED
    BY <1>4, <2>1, <2>2, CriterionSets, SetterApplies
<1>5. CASE o.opt = "--quiet"
  <2>1. handle(p, o) = [p EXCEPT !.have_stdout_printer = TRUE]
    BY <1>0, <1>5 DEF handle, FloatOptions
  <2>2. QED
    BY <1>5, <2>1, QuietApplies
<1>6. CASE o.opt = "--color"
  <2>1. handle(p, o) = [p EXCEPT !.color = TRUE]
    BY <1>0, <1>6 DEF handle, FloatOptions
  <2>3. QED
    BY <1>6, <2>1, ColorApplies
<1>7. CASE o.opt \in Formats
  <2>1. handle(p, o) = add_printer(p, o)
    <3>1. CASE o.opt = "--md"
      BY <1>0, <3>1 DEF handle, FloatOptions
    <3>2. CASE o.opt = "--csv"
      BY <1>0, <3>2 DEF handle, FloatOptions
    <3>3. CASE o.opt = "--json"
      BY <1>0, <3>3 DEF handle, FloatOptions
    <3>4. CASE o.opt = "--jsonbin"
      BY <1>0, <3>4 DEF handle, FloatOptions
    <3>5. QED
      BY <1>7, <3>1, <3>2, <3>3, <3>4 DEF Formats
  <2>2. QED
    BY <1>7, <2>1, PrinterApplies
<1>8. CASE o.opt = "--devices"
  <2>1. handle(p, o) = update_devices(p, o)
    BY <1>0, <1>8 DEF handle, FloatOptions
  <2>2. o.opt \in Setters
    BY <1>8 DEF Setters
  <2>3. QED
    BY <1>8, <2>1, <2>2, DevicesSets, SetterApplies
<1>9. CASE o.opt = "--axis"
  <2>1. handle(p, o) = update_axis(p, o)
    BY <1>0, <1>9 DEF handle, FloatOptions
  <2>2. o.opt \in Setters
    BY <1>9 DEF Setters
  <2>3. QED
    BY <1>9, <2>1, <2>2, AxisSets, SetterApplies
<1>10. CASE o.opt = "--min-samples"
  <2>1. handle(p, o) = update_int64_prop(p, o)
    BY <1>0, <1>10 DEF handle, FloatOptions
  <2>2. o.opt \in Setters
    BY <1>10 DEF Setters
  <2>3. QED
    BY <1>10, <2>1, <2>2, SamplesSets, SetterApplies
<1>11. CASE o.opt \in FloatOptions
  <2>1. handle(p, o) = update_float64_prop(p, o)
    BY <1>0, <1>11 DEF handle, FloatOptions
  <2>2. o.opt \in Setters
    BY <1>11 DEF FloatOptions, Setters
  <2>3. QED
    BY <1>11, <2>1, <2>2, FloatSets, SetterApplies
<1>12. CASE o.opt = "--param"
  <2>1. handle(p, o) = update_criterion_prop(p, o)
    BY <1>0, <1>12 DEF handle, FloatOptions
  <2>2. o.opt \in Setters
    BY <1>12 DEF Setters
  <2>3. QED
    BY <1>12, <2>1, <2>2, ParamSets, SetterApplies
<1>13. QED
  BY <1>1, <1>2, <1>3, <1>4, <1>5, <1>6, <1>7, <1>8, <1>9, <1>10, <1>11, <1>12
  DEF Handled, Setters, FloatOptions

-----------------------------------------------------------------------------
(* The option in force                                                     *)

Silent(s, places, k) == \A j \in places : ~Gives(s[j], k)

LastGiver(s, places, k, j) ==
  j \in places /\ Gives(s[j], k) /\ \A l \in places : l > j => ~Gives(s[l], k)

\* The value x is the last one given at some places of s; else it is the base.
InForce(x, base, s, places, k) ==
  \/ Silent(s, places, k) /\ x = base
  \/ \E j \in places : LastGiver(s, places, k, j) /\ x = Meant(s[j], k)

\* Two sequences of options leave the same value in force.
Agree(s, places, t, others, k) ==
  \/ Silent(s, places, k) /\ Silent(t, others, k)
  \/ \E i \in places, j \in others :
       /\ LastGiver(s, places, k, i) /\ LastGiver(t, others, k, j)
       /\ Meant(s[i], k) = Meant(t[j], k)

\* Options that agree leave the same value in force.
LEMMA InForceAlike ==
  ASSUME NEW s, NEW P \in SUBSET Int, NEW t, NEW Q \in SUBSET Int, NEW k, Agree(s, P, t, Q, k),
         NEW x, NEW base, InForce(x, base, s, P, k)
  PROVE  InForce(x, base, t, Q, k)
<1>1. CASE Silent(s, P, k) /\ Silent(t, Q, k)
  <2>1. x = base
    BY <1>1 DEF InForce, LastGiver, Silent
  <2>2. QED
    BY <1>1, <2>1 DEF InForce
<1>2. CASE \E i \in P, j \in Q : /\ LastGiver(s, P, k, i) /\ LastGiver(t, Q, k, j)
                                 /\ Meant(s[i], k) = Meant(t[j], k)
  <2>1. PICK i \in P, j \in Q : /\ LastGiver(s, P, k, i) /\ LastGiver(t, Q, k, j)
                                /\ Meant(s[i], k) = Meant(t[j], k)
    BY <1>2
  <2>2. ~Silent(s, P, k)
    BY <2>1 DEF LastGiver, Silent
  <2>3. PICK l \in P : LastGiver(s, P, k, l) /\ x = Meant(s[l], k)
    BY <2>2 DEF InForce
  <2>4. l = i
    BY <2>1, <2>3 DEF LastGiver
  <2>5. QED
    BY <2>1, <2>3, <2>4 DEF InForce
<1>3. QED
  BY <1>1, <1>2 DEF Agree

\* One more option, that gives c what it gives.
LEMMA InForceNext ==
  ASSUME NEW s, NEW P \in SUBSET Int, NEW n \in Int, \A j \in P : j < n, NEW k,
         NEW x, NEW y, NEW base, InForce(x, base, s, P, k),
         y = IF Gives(s[n], k) THEN Meant(s[n], k) ELSE x
  PROVE  InForce(y, base, s, P \cup {n}, k)
<1>1. CASE Gives(s[n], k)
  <2>1. LastGiver(s, P \cup {n}, k, n)
    BY <1>1 DEF LastGiver
  <2>2. QED
    BY <1>1, <2>1 DEF InForce
<1>2. CASE ~Gives(s[n], k)
  <2>1. Silent(s, P, k) => Silent(s, P \cup {n}, k)
    BY <1>2 DEF Silent
  <2>2. \A j \in P : LastGiver(s, P, k, j) => LastGiver(s, P \cup {n}, k, j)
    BY <1>2 DEF LastGiver
  <2>3. QED
    BY <1>2, <2>1, <2>2 DEF InForce
<1>3. QED
  BY <1>1, <1>2

-----------------------------------------------------------------------------
(* Replaying what was kept                                                 *)

\* The parser after each option of a sequence.
ReplaySteps(F, p, s) ==
  /\ F[0] = p /\ \A k \in 1 .. Len(s) : F[k] = handle(F[k - 1], s[k])

\* Replaying is handling what was kept, one after the other.
LEMMA ReplayIs ==
  ASSUME NEW p, NEW s, s = p.global, IsSeq(s)
  PROVE  \E F : ReplaySteps(F, p, s) /\ replay_global_args(p) = F[Len(s)]
<1> DEFINE n == Len(s)
           op(q, k) == handle(q, s[k])
           next(h, P) == IF P = {} THEN p ELSE op(h[P \ {Max(P)}], Max(P))
           Is(h) == h = [P \in SUBSET (1 .. n) |-> next(h, P)]
           g == CHOOSE h : Is(h)
           M == {m \in 0 .. n : \E G : \A P \in SUBSET (1 .. m) : G[P] = next(G, P)}
<1>1. n \in Nat /\ DOMAIN s = 1 .. n
  BY EmptyIs
<1>2. replay_global_args(p) = g[1 .. n]
  BY <1>1 DEF replay_global_args, FoldLeft, MapThenFoldSet
<1> HIDE DEF n, op
<1>3. \A m \in 0 .. n : \A P \in SUBSET (1 .. m) : P # {} =>
        Max(P) \in P /\ (\A x \in P : Max(P) >= x)
  <2> TAKE m \in 0 .. n
  <2> TAKE P \in SUBSET (1 .. m)
  <2>1. P \in SUBSET (0 .. m) /\ m \in Nat
    BY <1>1
  <2>2. QED
    BY <2>1, MaxIsGreatest
<1>4. 0 \in M
  <2> DEFINE G == [P \in SUBSET (1 .. 0) |-> p]
  <2>1. \A P \in SUBSET (1 .. 0) : P = {} /\ G[P] = p
    OBVIOUS
  <2>2. 0 \in 0 .. n
    BY <1>1
  <2> HIDE DEF G
  <2>3. QED
    BY <2>1, <2>2
<1>5. ASSUME NEW m \in 0 .. n - 1, m \in M PROVE m + 1 \in M
  <2>1. PICK H : \A P \in SUBSET (1 .. m) : H[P] = next(H, P)
    BY <1>5
  <2>2. m + 1 \in 0 .. n /\ m \in 0 .. n /\ m \in Nat
    BY <1>1
  <2> DEFINE G == [P \in SUBSET (1 .. m + 1) |-> next(H, P)]
  <2>3. ASSUME NEW P \in SUBSET (1 .. m + 1) PROVE G[P] = next(G, P)
    <3>1. CASE P = {}
      BY <3>1
    <3>2. CASE P # {}
      <4> DEFINE T == P \ {Max(P)}
      <4>1. Max(P) \in P /\ \A x \in P : Max(P) >= x
        BY <1>3, <2>2, <3>2
      <4>2. ASSUME NEW x \in T PROVE x \in 1 .. m
        <5>1. x \in 1 .. m + 1 /\ Max(P) \in 1 .. m + 1 /\ Max(P) >= x /\ x # Max(P)
          BY <4>1
        <5>2. QED
          BY <5>1, <2>2
      <4>3. T \in SUBSET (1 .. m) /\ T \in SUBSET (1 .. m + 1)
        BY <4>2
      <4> HIDE DEF next
      <4>4. G[T] = H[T]
        BY <2>1, <4>3
      <4>5. G[P] = next(H, P)
        OBVIOUS
      <4> HIDE DEF G
      <4>6. QED
        BY <3>2, <4>4, <4>5 DEF next
    <3>3. QED
      BY <3>1, <3>2
  <2> HIDE DEF G, next
  <2>4. QED
    BY <2>2, <2>3
<1> HIDE DEF M
<1>6. n \in M
  <2>1. \A m \in 0 .. n : m \in M
    BY <1>1, <1>4, <1>5, FromZero
  <2>2. QED
    BY <1>1, <2>1
<1>7. PICK G : \A P \in SUBSET (1 .. n) : G[P] = next(G, P)
  BY <1>6 DEF M
<1>8. Is([P \in SUBSET (1 .. n) |-> G[P]])
  <2> DEFINE h == [P \in SUBSET (1 .. n) |-> G[P]]
  <2>1. ASSUME NEW P \in SUBSET (1 .. n) PROVE h[P] = next(h, P)
    <3>1. CASE P = {}
      BY <1>7, <3>1
    <3>2. CASE P # {}
      <4>1. P \ {Max(P)} \in SUBSET (1 .. n)
        OBVIOUS
      <4>2. h[P \ {Max(P)}] = G[P \ {Max(P)}] /\ h[P] = G[P]
        BY <4>1
      <4> HIDE DEF h
      <4>3. QED
        BY <1>7, <3>2, <4>2
    <3>3. QED
      BY <3>1, <3>2
  <2>2. h = [P \in SUBSET (1 .. n) |-> h[P]]
    OBVIOUS
  <2> HIDE DEF h, next
  <2>3. h = [P \in SUBSET (1 .. n) |-> next(h, P)]
    BY <2>1, <2>2
  <2>4. QED
    BY <2>3 DEF h
<1>9. Is(g)
  <2> HIDE DEF Is
  <2>1. QED
    BY <1>8
<1>10. \A P \in SUBSET (1 .. n) : g[P] = next(g, P)
  <2> HIDE DEF g, next
  <2>1. QED
    BY <1>9
<1> HIDE DEF g, Is
<1> DEFINE F == [k \in 0 .. n |-> g[1 .. k]]
<1>11. F[0] = p
  <2>1. 1 .. 0 = {} /\ {} \in SUBSET (1 .. n) /\ 0 \in 0 .. n
    BY <1>1
  <2>2. g[{}] = p
    BY <1>10, <2>1
  <2>3. QED
    BY <2>1, <2>2
<1>12. ASSUME NEW k \in 1 .. n PROVE F[k] = op(F[k - 1], k)
  <2>1. 1 .. k \in SUBSET (1 .. n) /\ k \in 0 .. n /\ k - 1 \in 0 .. n
    BY <1>1
  <2>2. 1 .. k # {} /\ Max(1 .. k) = k /\ (1 .. k) \ {k} = 1 .. k - 1
    BY <1>1, MaxOfPrefix
  <2>3. g[1 .. k] = op(g[1 .. k - 1], k)
    BY <1>10, <2>1, <2>2
  <2>4. QED
    BY <2>1, <2>3
<1>13. F[n] = g[1 .. n]
  BY <1>1
<1> HIDE DEF F
<1>14. QED
  BY <1>2, <1>11, <1>12, <1>13 DEF ReplaySteps, n, op

\* A benchmark has what was registered, or what options at some places give.
Reflects(c, b, s, places) ==
  /\ c.name = b.name /\ c.cpuOnly = b.cpuOnly
  /\ \A k \in KeysOf(b) : InForce(Has(c, k), Has(b, k), s, places, k)

\* The last benchmark of a parser that was replayed has what was kept.
Replayed(p, q, b, n) ==
  /\ IsParser(q)
  /\ q.status = "ok" =>
       /\ q.global = p.global /\ SameOutput(p, q) /\ q.benchmarks # <<>>
       /\ \E c : ChangesLast(p, q, c) /\ Reflects(c, b, p.global, 1 .. n)

\* The benchmark that was just added gets what was kept.
LEMMA ReplayGives ==
  ASSUME NEW p, IsParser(p), p.status = "ok", p.benchmarks # <<>>,
         \A i \in 1 .. Len(p.global) : p.global[i].opt \in Setters
  PROVE  Replayed(p, replay_global_args(p), LastBenchmark(p), Len(p.global))
<1> DEFINE s == p.global
           n == Len(p.global)
           b == LastBenchmark(p)
<1>1. IsSeq(s) /\ n \in Nat /\ IsSeq(p.benchmarks) /\ Len(p.benchmarks) \in Nat \ {0}
  BY EmptyIs DEF IsParser
<1>2. PICK F : ReplaySteps(F, p, s) /\ replay_global_args(p) = F[n]
  BY <1>1, ReplayIs
<1> DEFINE M == {m \in 0 .. n : Replayed(p, F[m], b, m)}
<1>3. 0 \in M
  <2>1. F[0] = p
    BY <1>2 DEF ReplaySteps
  <2>2. ChangesLast(p, p, b)
    BY DEF ChangesLast, LastBenchmark
  <2>3. \A k \in KeysOf(b) : InForce(Has(b, k), Has(b, k), s, 1 .. 0, k)
    BY DEF InForce, Silent
  <2>4. SameOutput(p, p)
    BY DEF SameOutput
  <2> HIDE DEF b, n
  <2>5. Replayed(p, p, b, 0)
    BY <2>2, <2>3, <2>4 DEF Replayed, Reflects
  <2>6. QED
    BY <1>1, <2>1, <2>5
<1>4. ASSUME NEW m \in 0 .. n - 1, m \in M PROVE m + 1 \in M
  <2> DEFINE x == F[m]
             o == s[m + 1]
             q == F[m + 1]
  <2>1. m + 1 \in 1 .. n /\ (m + 1) - 1 = m /\ m + 1 \in 0 .. n
    BY <1>1
  <2>2. q = handle(x, o)
    BY <1>2, <2>1 DEF ReplaySteps
  <2>3. Replayed(p, x, b, m)
    BY <1>4
  <2>4. o.opt \in Setters
    BY <2>1
  <2>5. CASE x.status # "ok"
    <3>1. q = x
      BY <2>2, <2>5 DEF handle
    <3> HIDE DEF x, q, b, n
    <3>2. Replayed(p, q, b, m + 1)
      BY <2>3, <2>5, <3>1 DEF Replayed
    <3>3. QED
      BY <2>1, <3>2 DEF q
  <2>6. CASE x.status = "ok"
    <3> HIDE DEF x, q, o, b, n
    <3>1. PICK c : /\ ChangesLast(p, x, c) /\ c.name = b.name /\ c.cpuOnly = b.cpuOnly
                   /\ \A k \in KeysOf(b) : InForce(Has(c, k), Has(b, k), s, 1 .. m, k)
      BY <2>3, <2>6 DEF Replayed, Reflects
    <3>2. IsParser(x) /\ x.global = s /\ SameOutput(p, x) /\ x.benchmarks # <<>>
      BY <2>3, <2>6 DEF Replayed
    <3>3. Applies(x, q, o) /\ Prints(x, q, o)
      <4>1. o.opt \in Handled
        BY <2>4 DEF Handled
      <4>2. QED
        BY <2>2, <2>6, <3>2, <4>1, HandleApplies
    <3>4. IsParser(q)
      BY <3>3 DEF Applies
    <3>5. ASSUME q.status = "ok"
          PROVE  /\ q.global = s /\ SameOutput(p, q) /\ q.benchmarks # <<>>
                 /\ \E d : /\ ChangesLast(p, q, d) /\ d.name = b.name /\ d.cpuOnly = b.cpuOnly
                           /\ \A k \in KeysOf(b) : InForce(Has(d, k), Has(b, k), s, 1 .. m + 1, k)
      <4>1. PICK d : ChangesLast(x, q, d) /\ GivenBy(o, LastBenchmark(x), d)
        BY <3>2, <3>3, <3>5 DEF Applies
      <4>2. LastBenchmark(x) = c
        BY <3>1 DEF ChangesLast, LastBenchmark
      <4>3. ChangesLast(p, q, d)
        BY <3>1, <4>1 DEF ChangesLast
      <4>4. d.name = b.name /\ d.cpuOnly = b.cpuOnly /\ KeysOf(c) = KeysOf(b)
        BY <3>1, <4>1, <4>2 DEF GivenBy, KeysOf
      <4>5. ASSUME NEW k \in KeysOf(b)
            PROVE  InForce(Has(d, k), Has(b, k), s, 1 .. m + 1, k)
        <5>1. Has(d, k) = IF Gives(o, k) THEN Meant(o, k) ELSE Has(c, k)
          BY <4>1, <4>2, <4>4 DEF GivenBy
        <5>2. InForce(Has(c, k), Has(b, k), s, 1 .. m, k)
          BY <3>1
        <5>3. 1 .. m \in SUBSET Int /\ m + 1 \in Int /\ (\A j \in 1 .. m : j < m + 1)
              /\ (1 .. m) \cup {m + 1} = 1 .. m + 1
          OBVIOUS
        <5>4. InForce(Has(d, k), Has(b, k), s, (1 .. m) \cup {m + 1}, k)
          BY <5>1, <5>2, <5>3, InForceNext DEF o
        <5>5. QED
          BY <5>3, <5>4
      <4>6. SameOutput(p, q)
        <5>1. o.opt \notin Formats \cup {"--color", "--quiet"}
          BY <2>4 DEF Setters, Formats
        <5>2. x.color \in BOOLEAN /\ x.have_stdout_printer \in BOOLEAN
          BY <3>2 DEF IsParser
        <5>3. QED
          BY <3>2, <3>3, <3>5, <5>1, <5>2 DEF Prints, SameOutput
      <4>7. q.global = s /\ q.benchmarks # <<>>
        BY <3>2, <3>3, <3>5 DEF Applies
      <4>8. QED
        BY <4>3, <4>4, <4>5, <4>6, <4>7
    <3>6. Replayed(p, q, b, m + 1)
      BY <3>4, <3>5 DEF Replayed, Reflects
    <3>7. QED
      BY <2>1, <3>6 DEF q
  <2>7. QED
    BY <2>5, <2>6
<1> HIDE DEF M
<1>5. n \in M
  <2>1. \A m \in 0 .. n : m \in M
    BY <1>1, <1>3, <1>4, FromZero
  <2>2. QED
    BY <1>1, <2>1
<1>6. QED
  BY <1>2, <1>5 DEF M

\* What cloning a registered benchmark and replaying does.
AddsBenchmark(p, q, b) ==
  /\ IsParser(q)
  /\ q.status = "ok" =>
       /\ q.global = p.global /\ SameOutput(p, q)
       /\ Len(q.benchmarks) = Len(p.benchmarks) + 1
       /\ \A i \in 1 .. Len(p.benchmarks) : q.benchmarks[i] = p.benchmarks[i]
       /\ Reflects(q.benchmarks[Len(p.benchmarks) + 1], b, p.global, 1 .. Len(p.global))

\* Adding a clone of a registered benchmark.
LEMMA ClonedAdds ==
  ASSUME NEW p, IsParser(p), p.status = "ok", NEW i, IsBench(registry[i]),
         \A j \in 1 .. Len(p.global) : p.global[j].opt \in Setters
  PROVE  AddsBenchmark(p, Cloned(p, i), registry[i])
<1> DEFINE b == registry[i]
           s == Append(p.benchmarks, b)
           x == [p EXCEPT !.benchmarks = s]
           q == replay_global_args(x)
           n == Len(p.benchmarks)
<1>1. q = Cloned(p, i)
  BY DEF Cloned, clone, IsParser, ParserFields
<1>2. /\ DOMAIN x = ParserFields /\ x.status = p.status /\ x.global = p.global /\ x.benchmarks = s
      /\ x.printers = p.printers /\ x.color = p.color
      /\ x.have_stdout_printer = p.have_stdout_printer
  BY DEF IsParser, ParserFields
<1>3. /\ IsSeq(s) /\ n \in Nat /\ Len(s) = n + 1 /\ s[n + 1] = b
      /\ \A j \in 1 .. n : s[j] = p.benchmarks[j]
  BY AppendIs DEF IsParser
<1> HIDE DEF s, x, q
<1>4. \A j \in 1 .. Len(s) : IsBench(s[j])
  <2>1. \A j \in 1 .. n + 1 : j = n + 1 \/ j \in 1 .. n
    BY <1>3
  <2>2. \A j \in 1 .. n : IsBench(p.benchmarks[j])
    BY DEF IsParser
  <2> HIDE DEF n
  <2>3. QED
    BY <1>3, <2>1, <2>2
<1>5. IsParser(x) /\ x.benchmarks # <<>> /\ LastBenchmark(x) = b
  <2>1. s # <<>>
    BY <1>3, EmptyIs
  <2>2. QED
    BY <1>2, <1>3, <1>4, <2>1 DEF IsParser, LastBenchmark
<1>6. Replayed(x, q, b, Len(p.global))
  <2>1. Replayed(x, replay_global_args(x), LastBenchmark(x), Len(x.global))
    BY <1>2, <1>5, ReplayGives
  <2>2. QED
    BY <1>2, <1>5, <2>1 DEF q
<1> HIDE DEF b, n
<1>7. ASSUME q.status = "ok"
      PROVE  /\ q.global = p.global /\ SameOutput(p, q)
             /\ Len(q.benchmarks) = n + 1
             /\ \A j \in 1 .. n : q.benchmarks[j] = p.benchmarks[j]
             /\ Reflects(q.benchmarks[n + 1], b, p.global, 1 .. Len(p.global))
  <2>1. PICK c : ChangesLast(x, q, c) /\ Reflects(c, b, p.global, 1 .. Len(p.global))
    BY <1>2, <1>6, <1>7 DEF Replayed
  <2>2. /\ Len(q.benchmarks) = n + 1 /\ q.benchmarks[n + 1] = c
        /\ \A j \in 1 .. n : q.benchmarks[j] = p.benchmarks[j]
    BY <1>2, <1>3, <2>1 DEF ChangesLast
  <2>3. q.global = p.global /\ SameOutput(p, q)
    BY <1>2, <1>6, <1>7 DEF Replayed, SameOutput
  <2>4. QED
    BY <2>1, <2>2, <2>3
<1>8. AddsBenchmark(p, q, b)
  BY <1>6, <1>7 DEF AddsBenchmark, Replayed, n
<1>9. QED
  BY <1>1, <1>8 DEF b

\* The parser after each registered benchmark.
AddSteps(F, p, n) ==
  /\ F[0] = p
  /\ \A k \in 1 .. n : F[k] = IF F[k - 1].status = "ok" THEN Cloned(F[k - 1], k) ELSE F[k - 1]

\* Adding every benchmark is adding one after the other.
LEMMA AddAllIs ==
  ASSUME NEW p, p.benchmarks = <<>>, IsSeq(registry)
  PROVE  \E F : AddSteps(F, p, Len(registry)) /\ AddAll(p) = F[Len(registry)]
<1> DEFINE n == Len(registry)
           all == [i \in DOMAIN registry |-> i]
           op(q, k) == IF q.status = "ok" THEN Cloned(q, k) ELSE q
           next(h, P) == IF P = {} THEN p ELSE op(h[P \ {Max(P)}], Max(P))
           Is(h) == h = [P \in SUBSET (1 .. n) |->
                          IF P = {} THEN p ELSE op(h[P \ {Max(P)}], all[Max(P)])]
           g == CHOOSE h : Is(h)
           M == {m \in 0 .. n : \E G : \A P \in SUBSET (1 .. m) : G[P] = next(G, P)}
<1>1. n \in Nat /\ DOMAIN registry = 1 .. n /\ DOMAIN all = 1 .. n /\ \A i \in 1 .. n : all[i] = i
  BY EmptyIs
<1>2. AddAll(p) = g[1 .. n]
  BY <1>1 DEF AddAll, FoldLeft, MapThenFoldSet
<1> HIDE DEF n, op, all
<1>3. \A m \in 0 .. n : \A P \in SUBSET (1 .. m) : P # {} =>
        Max(P) \in P /\ (\A x \in P : Max(P) >= x)
  <2> TAKE m \in 0 .. n
  <2> TAKE P \in SUBSET (1 .. m)
  <2>1. P \in SUBSET (0 .. m) /\ m \in Nat
    BY <1>1
  <2>2. QED
    BY <2>1, MaxIsGreatest
<1>4. 0 \in M
  <2> DEFINE G == [P \in SUBSET (1 .. 0) |-> p]
  <2>1. \A P \in SUBSET (1 .. 0) : P = {} /\ G[P] = p
    OBVIOUS
  <2>2. 0 \in 0 .. n
    BY <1>1
  <2> HIDE DEF G
  <2>3. QED
    BY <2>1, <2>2
<1>5. ASSUME NEW m \in 0 .. n - 1, m \in M PROVE m + 1 \in M
  <2>1. PICK H : \A P \in SUBSET (1 .. m) : H[P] = next(H, P)
    BY <1>5
  <2>2. m + 1 \in 0 .. n /\ m \in 0 .. n /\ m \in Nat
    BY <1>1
  <2> DEFINE G == [P \in SUBSET (1 .. m + 1) |-> next(H, P)]
  <2>3. ASSUME NEW P \in SUBSET (1 .. m + 1) PROVE G[P] = next(G, P)
    <3>1. CASE P = {}
      BY <3>1
    <3>2. CASE P # {}
      <4> DEFINE T == P \ {Max(P)}
      <4>1. Max(P) \in P /\ \A x \in P : Max(P) >= x
        BY <1>3, <2>2, <3>2
      <4>2. ASSUME NEW x \in T PROVE x \in 1 .. m
        <5>1. x \in 1 .. m + 1 /\ Max(P) \in 1 .. m + 1 /\ Max(P) >= x /\ x # Max(P)
          BY <4>1
        <5>2. QED
          BY <5>1, <2>2
      <4>3. T \in SUBSET (1 .. m) /\ T \in SUBSET (1 .. m + 1)
        BY <4>2
      <4> HIDE DEF next
      <4>4. G[T] = H[T]
        BY <2>1, <4>3
      <4>5. G[P] = next(H, P)
        OBVIOUS
      <4> HIDE DEF G
      <4>6. QED
        BY <3>2, <4>4, <4>5 DEF next
    <3>3. QED
      BY <3>1, <3>2
  <2> HIDE DEF G, next
  <2>4. QED
    BY <2>2, <2>3
<1> HIDE DEF M
<1>6. n \in M
  <2>1. \A m \in 0 .. n : m \in M
    BY <1>1, <1>4, <1>5, FromZero
  <2>2. QED
    BY <1>1, <2>1
<1>7. PICK G : \A P \in SUBSET (1 .. n) : G[P] = next(G, P)
  BY <1>6 DEF M
<1>8. Is([P \in SUBSET (1 .. n) |-> G[P]])
  <2> DEFINE h == [P \in SUBSET (1 .. n) |-> G[P]]
  <2>1. ASSUME NEW P \in SUBSET (1 .. n)
        PROVE  h[P] = IF P = {} THEN p ELSE op(h[P \ {Max(P)}], all[Max(P)])
    <3>1. CASE P = {}
      BY <1>7, <3>1
    <3>2. CASE P # {}
      <4>1. P \ {Max(P)} \in SUBSET (1 .. n) /\ all[Max(P)] = Max(P)
        <5>1. n \in 0 .. n
          BY <1>1
        <5>2. Max(P) \in P
          BY <1>3, <3>2, <5>1
        <5>3. QED
          BY <1>1, <5>2
      <4>2. h[P \ {Max(P)}] = G[P \ {Max(P)}] /\ h[P] = G[P]
        BY <4>1
      <4> HIDE DEF h
      <4>3. QED
        BY <1>7, <3>2, <4>1, <4>2
    <3>3. QED
      BY <3>1, <3>2
  <2>2. h = [P \in SUBSET (1 .. n) |-> h[P]]
    OBVIOUS
  <2> HIDE DEF h
  <2>3. h = [P \in SUBSET (1 .. n) |->
               IF P = {} THEN p ELSE op(h[P \ {Max(P)}], all[Max(P)])]
    BY <2>1, <2>2
  <2>4. QED
    BY <2>3 DEF h
<1>9. Is(g)
  <2> HIDE DEF Is
  <2>1. QED
    BY <1>8
<1>10. \A P \in SUBSET (1 .. n) : g[P] = next(g, P)
  <2>1. \A P \in SUBSET (1 .. n) : P # {} => all[Max(P)] = Max(P)
    <3> TAKE P \in SUBSET (1 .. n)
    <3> HAVE P # {}
    <3>1. n \in 0 .. n
      BY <1>1
    <3>2. Max(P) \in P
      BY <1>3, <3>1
    <3>3. QED
      BY <1>1, <3>2
  <2> HIDE DEF g
  <2>2. QED
    BY <1>9, <2>1
<1> HIDE DEF g, Is
<1> DEFINE F == [k \in 0 .. n |-> g[1 .. k]]
<1>11. F[0] = p
  <2>1. 1 .. 0 = {} /\ {} \in SUBSET (1 .. n) /\ 0 \in 0 .. n
    BY <1>1
  <2>2. g[{}] = p
    BY <1>10, <2>1
  <2>3. QED
    BY <2>1, <2>2
<1>12. ASSUME NEW k \in 1 .. n PROVE F[k] = op(F[k - 1], k)
  <2>1. 1 .. k \in SUBSET (1 .. n) /\ k \in 0 .. n /\ k - 1 \in 0 .. n
    BY <1>1
  <2>2. 1 .. k # {} /\ Max(1 .. k) = k /\ (1 .. k) \ {k} = 1 .. k - 1
    BY <1>1, MaxOfPrefix
  <2>3. g[1 .. k] = op(g[1 .. k - 1], k)
    BY <1>10, <2>1, <2>2
  <2>4. QED
    BY <2>1, <2>3
<1>13. F[n] = g[1 .. n]
  BY <1>1
<1> HIDE DEF F
<1>14. QED
  BY <1>2, <1>11, <1>12, <1>13 DEF AddSteps, n, op

AddsFirst(p, q, m) ==
  /\ IsParser(q)
  /\ q.status = "ok" =>
       /\ q.global = p.global /\ SameOutput(p, q) /\ Len(q.benchmarks) = m
       /\ \A i \in 1 .. m : Reflects(q.benchmarks[i], registry[i], p.global, 1 .. Len(p.global))

\* Without --benchmark, every registered benchmark gets what was kept.
LEMMA AddAllAdds ==
  ASSUME NEW p, IsParser(p), p.status = "ok", p.benchmarks = <<>>, IsSeq(registry),
         \A i \in 1 .. Len(registry) : IsBench(registry[i]),
         \A j \in 1 .. Len(p.global) : p.global[j].opt \in Setters
  PROVE  AddsFirst(p, AddAll(p), Len(registry))
<1> DEFINE n == Len(registry)
<1>1. n \in Nat /\ Len(p.benchmarks) = 0
  BY EmptyIs DEF IsParser
<1>2. PICK F : AddSteps(F, p, n) /\ AddAll(p) = F[n]
  BY AddAllIs
<1> DEFINE M == {m \in 0 .. n : AddsFirst(p, F[m], m)}
<1>3. 0 \in M
  <2>1. F[0] = p
    BY <1>2 DEF AddSteps
  <2>2. AddsFirst(p, p, 0)
    BY <1>1 DEF AddsFirst, SameOutput
  <2>3. QED
    BY <1>1, <2>1, <2>2
<1>4. ASSUME NEW m \in 0 .. n - 1, m \in M PROVE m + 1 \in M
  <2> DEFINE x == F[m]
             q == F[m + 1]
  <2>1. m + 1 \in 1 .. n /\ (m + 1) - 1 = m /\ m + 1 \in 0 .. n /\ m \in Nat
    BY <1>1
  <2>2. q = IF x.status = "ok" THEN Cloned(x, m + 1) ELSE x
    BY <1>2, <2>1 DEF AddSteps
  <2>3. AddsFirst(p, x, m)
    BY <1>4
  <2> HIDE DEF x, q, n
  <2>4. CASE x.status # "ok"
    <3>1. AddsFirst(p, q, m + 1)
      BY <2>2, <2>3, <2>4 DEF AddsFirst
    <3>2. QED
      BY <2>1, <3>1 DEF q
  <2>5. CASE x.status = "ok"
    <3>1. /\ IsParser(x) /\ x.global = p.global /\ SameOutput(p, x) /\ Len(x.benchmarks) = m
          /\ \A i \in 1 .. m : Reflects(x.benchmarks[i], registry[i], p.global, 1 .. Len(p.global))
      BY <2>3, <2>5 DEF AddsFirst
    <3>2. AddsBenchmark(x, q, registry[m + 1])
      <4>1. IsBench(registry[m + 1])
        BY <2>1 DEF n
      <4>2. QED
        BY <2>2, <2>5, <3>1, <4>1, ClonedAdds
    <3>3. ASSUME q.status = "ok"
          PROVE  /\ q.global = p.global /\ SameOutput(p, q) /\ Len(q.benchmarks) = m + 1
                 /\ \A i \in 1 .. m + 1 :
                      Reflects(q.benchmarks[i], registry[i], p.global, 1 .. Len(p.global))
      <4>1. /\ q.global = p.global /\ SameOutput(p, q) /\ Len(q.benchmarks) = m + 1
            /\ \A i \in 1 .. m : q.benchmarks[i] = x.benchmarks[i]
        BY <3>1, <3>2, <3>3 DEF AddsBenchmark, SameOutput
      <4>2. Reflects(q.benchmarks[m + 1], registry[m + 1], p.global, 1 .. Len(p.global))
        BY <3>1, <3>2, <3>3 DEF AddsBenchmark
      <4>3. \A i \in 1 .. m + 1 : i \in 1 .. m \/ i = m + 1
        BY <2>1
      <4>4. QED
        BY <3>1, <4>1, <4>2, <4>3
    <3>4. AddsFirst(p, q, m + 1)
      BY <3>2, <3>3 DEF AddsFirst, AddsBenchmark
    <3>5. QED
      BY <2>1, <3>4 DEF q
  <2>6. QED
    BY <2>4, <2>5
<1> HIDE DEF M
<1>5. n \in M
  <2>1. \A m \in 0 .. n : m \in M
    BY <1>1, <1>3, <1>4, FromZero
  <2>2. QED
    BY <1>1, <2>1
<1>6. QED
  BY <1>2, <1>5 DEF M

-----------------------------------------------------------------------------
(* The devices that are given                                              *)

\* A multiple leaves no rest.
LEMMA MultipleIs ==
  ASSUME NEW k \in Int, NEW s \in Nat \ {0}
  PROVE  k * s \in Int /\ (k * s) % s = 0
<1> DEFINE a == k * s
           q == a \div s
           r == a % s
<1>1. a \in Int /\ q \in Int /\ r \in Int /\ a = s * q + r /\ 0 <= r /\ r < s
  OBVIOUS
<1>2. (k - q) * s = r
  <2>1. (k - q) * s = k * s - s * q
    BY <1>1
  <2>2. QED
    BY <1>1, <2>1
<1> HIDE DEF q, r
<1>3. k - q \in Int
  BY <1>1
<1>4. k = q
  <2>1. ASSUME k - q >= 1 PROVE FALSE
    <3>1. (k - q) * s >= s
      BY <1>3, <2>1
    <3>2. QED
      BY <1>1, <1>2, <3>1
  <2>2. ASSUME k - q <= -1 PROVE FALSE
    <3>1. (k - q) * s < 0
      BY <1>3, <2>2
    <3>2. QED
      BY <1>1, <1>2, <3>1
  <2>3. QED
    BY <1>1, <1>3, <2>1, <2>2
<1>5. r = 0
  BY <1>1, <1>2, <1>4
<1>6. QED
  BY <1>1, <1>5 DEF r

\* The loop of range goes through the multiples of the stride up to the last.
GoesThrough(f, l, s, x) ==
  (\E i \in 1 .. ((2 * (l - f)) \div (2 * s)) + 1 : x = f + (i - 1) * s)
    <=> (x \in f .. l /\ (x - f) % s = 0)

\* The number of steps std::ceil gives reaches the elements of the range,
\* and no others.
LEMMA RangeIs ==
  ASSUME NEW f \in Int, NEW l \in Int, l >= f, NEW s \in Nat \ {0}, NEW x
  PROVE  GoesThrough(f, l, s, x)
<1> DEFINE q == (2 * (l - f)) \div (2 * s)
           r == (2 * (l - f)) % (2 * s)
           d == l - f
<1>1. q \in Int /\ r \in Int /\ 2 * d = (2 * s) * q + r /\ 0 <= r /\ r < 2 * s /\ d \in Nat
  OBVIOUS
<1>2. s * q \in Int /\ s * q <= d /\ d < s * q + s
  <2>1. (2 * s) * q = 2 * (s * q) /\ s * q \in Int
    <3>1. \A a, b \in Int : (2 * a) * b = 2 * (a * b) /\ a * b \in Int
      OBVIOUS
    <3>2. s \in Int /\ q \in Int
      BY <1>1
    <3> HIDE DEF q
    <3>3. QED
      BY <3>1, <3>2
  <2> HIDE DEF q, r, d
  <2>2. QED
    BY <1>1, <2>1
<1> HIDE DEF q, r
<1>3. ASSUME NEW i \in 1 .. q + 1, x = f + (i - 1) * s
      PROVE  x \in f .. l /\ (x - f) % s = 0
  <2> DEFINE k == i - 1
  <2>1. k \in Int /\ 0 <= k /\ k <= q
    BY <1>1
  <2>2. (k * s) % s = 0 /\ k * s \in Int
    BY <2>1, MultipleIs
  <2>3. 0 <= k * s /\ k * s <= s * q
    <3>1. q - k \in Nat
      BY <1>1, <2>1
    <3>2. (q - k) * s >= 0 /\ (q - k) * s = s * q - k * s
      BY <1>1, <2>1, <3>1
    <3>3. QED
      BY <1>2, <2>1, <2>2, <3>2
  <2>4. x = f + k * s
    BY <1>3
  <2> HIDE DEF k
  <2>5. x \in Int /\ x - f = k * s /\ x >= f /\ x <= l
    BY <1>1, <1>2, <2>2, <2>3, <2>4
  <2>6. QED
    BY <2>2, <2>5
<1>4. ASSUME x \in f .. l, (x - f) % s = 0
      PROVE  \E i \in 1 .. q + 1 : x = f + (i - 1) * s
  <2> DEFINE k == (x - f) \div s
  <2>1. k \in Int /\ x - f = s * k
    BY <1>4
  <2>2. 0 <= x - f /\ x - f <= d
    BY <1>4
  <2> HIDE DEF k
  <2>3. k >= 0
    <3>1. ASSUME k <= -1 PROVE FALSE
      <4>1. s * k < 0
        BY <2>1, <3>1
      <4>2. QED
        BY <1>4, <2>1, <2>2, <4>1
    <3>2. QED
      BY <2>1, <3>1
  <2>4. k <= q
    <3>1. ASSUME k >= q + 1 PROVE FALSE
      <4>1. k - q - 1 \in Nat
        BY <1>1, <2>1, <3>1
      <4>2. s * (k - q - 1) >= 0 /\ s * (k - q - 1) = s * k - s * q - s
        BY <1>1, <2>1, <4>1
      <4>3. QED
        BY <1>1, <1>2, <1>4, <2>1, <2>2, <4>2
    <3>2. QED
      BY <1>1, <2>1, <3>1
  <2>5. k + 1 \in 1 .. q + 1 /\ (k + 1) - 1 = k /\ x = f + k * s
    BY <1>1, <1>4, <2>1, <2>3, <2>4
  <2>6. QED
    BY <2>5
<1>5. QED
  BY <1>3, <1>4 DEF q, GoesThrough

\* range() of integers.
LEMMA RangeValues ==
  ASSUME NEW f \in Int, NEW l \in Int, NEW s \in Int, l >= f, s > 0
  PROVE  range_("int32", f, l, s)
           = Values([i \in 1 .. ((2 * (l - f)) \div (2 * s)) + 1 |-> f + (i - 1) * s])
<1> DEFINE room == 2 * (l - f)
<1>1. room \in Int /\ room + 0 = room /\ ~(room < 0) /\ ~(s <= 0)
  OBVIOUS
<1>2. range_("int32", f, l, s) =
        CASE room + 0 < 0 -> Values(<<>>)
          [] room + 0 >= 0 /\ s <= 0 -> Endless
          [] OTHER -> Values([i \in 1 .. ((room + 0) \div (2 * s)) + 1 |-> f + (i - 1) * s])
  BY DEF range_
<1> HIDE DEF room
<1>3. range_("int32", f, l, s) = Values([i \in 1 .. (room \div (2 * s)) + 1 |-> f + (i - 1) * s])
  BY <1>1, <1>2
<1>4. QED
  BY <1>3 DEF room

\* The devices that are read are those the option gives.
LEMMA DevicesGivenAre ==
  ASSUME NEW spec, parse_devices(spec).result = "values",
         spec.kind # "all" => /\ IsSeq(spec.words)
                              /\ \A k \in 1 .. Len(spec.words) : spec.words[k].number \in Int
  PROVE  ToSet(parse_devices(spec).values) = DevicesGiven(spec)
<1> DEFINE w == spec.words
           v == Parsed("int32", w)
           ids == parse_values("int32", spec)
<1>0. /\ \A x : Values(x).values = x /\ Values(x).result = "values"
      /\ Refused.result # "values" /\ Endless.result # "values"
  BY DEF Values, Refused, Endless
<1>1. CASE spec.kind = "all"
  <2>1. NumDevices \in Nat
    BY ParserAssumption
  <2>2. QED
    BY <1>0, <1>1, <2>1, AllDevices DEF parse_devices, DevicesGiven
<1>2. CASE spec.kind # "all"
  <2>1. parse_devices(spec) = ids /\ ids.result = "values"
    BY <1>0, <1>2 DEF parse_devices
  <2>2. /\ IsSeq(w) /\ Len(w) \in Nat /\ DOMAIN w = 1 .. Len(w)
        /\ \A k \in 1 .. Len(w) : w[k].number \in Int
    BY <1>2, EmptyIs
  <2>3. DOMAIN v = 1 .. Len(w) /\ \A k \in 1 .. Len(w) : v[k] = w[k].number
    BY <2>2 DEF Parsed, parse
  <2>4. CASE spec.kind \in {"list", "single"}
    <3>1. ids.values = v
      BY <1>0, <2>1, <2>4 DEF parse_values, parse_list_values
    <3>2. DevicesGiven(spec) = {w[k].number : k \in DOMAIN w}
      BY <2>4 DEF DevicesGiven
    <3> HIDE DEF v, w
    <3>3. \A x : x \in ToSet(v) <=> x \in {w[k].number : k \in DOMAIN w}
      BY <2>2, <2>3 DEF ToSet
    <3>4. QED
      BY <2>1, <3>1, <3>2, <3>3
  <2>5. CASE spec.kind = "range"
    <3>1. parse_values("int32", spec) = parse_range_values("int32", w)
      BY <2>5 DEF parse_values
    <3>2. Len(w) \in {2, 3} /\ AllParse("int32", w)
      BY <1>0, <2>1, <3>1 DEF parse_range_values
    <3>3. Len(v) = Len(w)
      <4>1. v \in [1 .. Len(w) -> Int]
        BY <2>2, <2>3 DEF Parsed
      <4>2. v \in Seq(Int)
        BY <2>2, <4>1
      <4> HIDE DEF v, w
      <4>3. QED
        BY <2>2, <2>3, <4>2, LenProperties
    <3> DEFINE f == w[1].number
               l == w[2].number
               s == IF Len(w) = 3 THEN w[3].number ELSE 1
    <3>4. f \in Int /\ l \in Int /\ s \in Int /\ v[1] = f /\ v[2] = l
          /\ s = IF Len(v) = 3 THEN v[3] ELSE 1
      BY <2>2, <2>3, <3>2, <3>3
    <3>5. ids = range_("int32", f, l, s)
      BY <3>1, <3>2, <3>4 DEF parse_range_values
    <3>6. DevicesGiven(spec) = {x \in f .. l : (x - f) % s = 0}
      BY <2>5 DEF DevicesGiven
    <3> DEFINE room == 2 * (l - f)
    <3>7. CASE room < 0
      <4>1. ids = Values(<<>>)
        BY <3>4, <3>5, <3>7 DEF range_
      <4>2. f .. l = {}
        BY <3>4, <3>7
      <4>3. ToSet(<<>>) = {}
        BY DEF ToSet
      <4>4. QED
        BY <1>0, <2>1, <3>6, <4>1, <4>2, <4>3
    <3>8. CASE room >= 0 /\ s <= 0
      <4>1. ids = Endless
        BY <3>4, <3>5, <3>8 DEF range_
      <4>2. QED
        BY <1>0, <2>1, <4>1
    <3>9. CASE room >= 0 /\ s > 0
      <4> DEFINE u == [i \in 1 .. (room \div (2 * s)) + 1 |-> f + (i - 1) * s]
      <4>1. l >= f
        BY <3>4, <3>9
      <4>2. ids = Values(u)
        <5> HIDE DEF f, l, s
        <5>1. QED
          BY <3>4, <3>5, <3>9, <4>1, RangeValues
      <4>3. l >= f /\ s \in Nat \ {0}
        BY <3>4, <3>9
      <4>4. ASSUME NEW x
            PROVE  x \in ToSet(u) <=> x \in f .. l /\ (x - f) % s = 0
        <5>1. x \in ToSet(u) <=> \E i \in 1 .. (room \div (2 * s)) + 1 : x = f + (i - 1) * s
          BY DEF ToSet
        <5> HIDE DEF u, f, l, s
        <5>2. (\E i \in 1 .. ((2 * (l - f)) \div (2 * s)) + 1 : x = f + (i - 1) * s)
                <=> (x \in f .. l /\ (x - f) % s = 0)
          <6>1. f \in Int /\ l \in Int /\ l >= f /\ s \in Nat \ {0}
            BY <3>4, <4>3
          <6>2. GoesThrough(f, l, s, x)
            BY <6>1, RangeIs
          <6>3. QED
            BY <6>2 DEF GoesThrough
        <5>3. QED
          BY <5>1, <5>2
      <4> HIDE DEF u, f, l, s
      <4>5. ToSet(u) = {x \in f .. l : (x - f) % s = 0}
        BY <4>4
      <4>6. QED
        BY <1>0, <2>1, <3>6, <4>2, <4>5
    <3>10. QED
      BY <3>4, <3>7, <3>8, <3>9
  <2>6. QED
    BY <1>0, <2>1, <2>4, <2>5 DEF parse_values
<1>3. QED
  BY <1>1, <1>2

\* Devices that are in force were read.
LEMMA DevicesWereRead ==
  ASSUME NEW p, IsParser(p), p.status = "ok", NEW o, o.opt = "--devices",
         handle(p, o).status = "ok"
  PROVE  parse_devices(o.arg).result = "values"
<1> DEFINE d == parse_devices(o.arg)
<1>1. handle(p, o) = update_devices(p, o)
  BY DEF handle, FloatProps
<1>2. ASSUME d.result # "values" PROVE FALSE
  <2>1. update_devices(p, o) = [p EXCEPT !.status = d.result]
    BY <1>2 DEF update_devices
  <2>2. d.result \in Outcomes /\ d.result # "ok"
    BY DevicesOutcome DEF Outcomes
  <2> HIDE DEF d
  <2>3. [p EXCEPT !.status = d.result].status = d.result
    BY DEF IsParser, ParserFields
  <2>4. QED
    BY <1>1, <2>1, <2>2, <2>3
<1>3. QED
  BY <1>2

-----------------------------------------------------------------------------
(* The devices in use                                                      *)

IsAscending(s, S) ==
  /\ s \in [1 .. Cardinality(S) -> S] /\ ToSet(s) = S
  /\ \A i, j \in DOMAIN s : i < j => s[i] < s[j]

\* A set of ids can be put in ascending order.
LEMMA AscendingExists ==
  ASSUME NEW n \in Nat, NEW S \in SUBSET (0 .. n - 1)
  PROVE  \E s : IsAscending(s, S)
<1> DEFINE M == {m \in 0 .. n : \A T \in SUBSET (0 .. m - 1) : \E s : IsAscending(s, T)}
<1>1. 0 \in M
  <2>1. ASSUME NEW T \in SUBSET (0 .. 0 - 1) PROVE \E s : IsAscending(s, T)
    <3>1. T = {} /\ Cardinality(T) = 0
      <4>1. 0 .. 0 - 1 = {}
        OBVIOUS
      <4>2. T = {}
        BY <4>1
      <4>3. QED
        BY <4>2, FS_EmptySet
    <3> DEFINE s == [i \in 1 .. 0 |-> 0]
    <3>2. s \in [1 .. Cardinality(T) -> T] /\ ToSet(s) = T /\ DOMAIN s = {}
      BY <3>1 DEF ToSet
    <3> HIDE DEF s
    <3>3. IsAscending(s, T)
      BY <3>2 DEF IsAscending
    <3>4. QED
      BY <3>3
  <2>2. QED
    BY <2>1
<1>2. ASSUME NEW m \in 0 .. n - 1, m \in M PROVE m + 1 \in M
  <2>1. ASSUME NEW T \in SUBSET (0 .. (m + 1) - 1) PROVE \E s : IsAscending(s, T)
    <3> DEFINE R == T \ {m}
               c == Cardinality(R)
    <3>1. R \in SUBSET (0 .. m - 1)
      OBVIOUS
    <3>2. PICK s : IsAscending(s, R)
      BY <1>2, <3>1
    <3>3. IsFiniteSet(R) /\ c \in Nat
      <4>1. IsFiniteSet(0 .. m - 1)
        BY FS_Interval
      <4>2. QED
        BY <3>1, <4>1, FS_Subset, FS_CardinalityType
    <3>4. CASE m \notin T
      <4>1. R = T
        BY <3>4
      <4>2. QED
        BY <3>2, <4>1
    <3>5. CASE m \in T
      <4>1. T = R \cup {m} /\ m \notin R
        BY <3>5
      <4>2. Cardinality(T) = c + 1
        BY <3>3, <4>1, FS_AddElement
      <4> HIDE DEF R, c
      <4> DEFINE t == [i \in 1 .. c + 1 |-> IF i <= c THEN s[i] ELSE m]
      <4>3. DOMAIN s = 1 .. c /\ (\A i \in 1 .. c : s[i] \in R) /\ ToSet(s) = R
            /\ \A i, j \in 1 .. c : i < j => s[i] < s[j]
        BY <3>2 DEF IsAscending, c
      <4>4. /\ DOMAIN t = 1 .. c + 1 /\ t[c + 1] = m /\ \A i \in 1 .. c : t[i] = s[i]
            /\ t \in [1 .. c + 1 -> T]
        BY <3>3, <4>1, <4>3
      <4> HIDE DEF t
      <4>5. \A x : x \in ToSet(t) <=> x \in T
        <5>1. \A x : x \in ToSet(t) <=> \E i \in 1 .. c + 1 : x = t[i]
          BY <4>4 DEF ToSet
        <5>2. \A x : x \in R <=> \E i \in 1 .. c : x = s[i]
          BY <4>3 DEF ToSet
        <5>3. \A i : i \in 1 .. c + 1 <=> i \in 1 .. c \/ i = c + 1
          BY <3>3
        <5>4. QED
          BY <4>1, <4>4, <5>1, <5>2, <5>3
      <4>6. ASSUME NEW i \in 1 .. c + 1, NEW j \in 1 .. c + 1, i < j PROVE t[i] < t[j]
        <5>1. i \in 1 .. c
          BY <3>3, <4>6
        <5>2. CASE j = c + 1
          <6>1. s[i] \in 0 .. m - 1
            BY <3>1, <4>3, <5>1
          <6>2. QED
            BY <4>4, <5>1, <5>2, <6>1
        <5>3. CASE j # c + 1
          <6>1. j \in 1 .. c
            BY <3>3, <5>3
          <6>2. QED
            BY <4>3, <4>4, <4>6, <5>1, <6>1
        <5>4. QED
          BY <5>2, <5>3
      <4>7. IsAscending(t, T)
        BY <4>2, <4>4, <4>5, <4>6 DEF IsAscending
      <4>8. QED
        BY <4>7
    <3>6. QED
      BY <3>4, <3>5
  <2>2. m + 1 \in 0 .. n
    OBVIOUS
  <2>3. QED
    BY <2>1, <2>2
<1> HIDE DEF M
<1>3. n \in M
  <2>1. \A m \in 0 .. n : m \in M
    BY <1>1, <1>2, FromZero
  <2>2. QED
    BY <2>1
<1>4. QED
  BY <1>3 DEF M

\* update_used_device_state puts it in ascending order.
LEMMA AscendingIs ==
  ASSUME NEW n \in Nat, NEW S \in SUBSET (0 .. n - 1)
  PROVE  IsAscending(Ascending(S), S)
<1>1. PICK s : IsAscending(s, S)
  BY AscendingExists
<1>2. s \in [1 .. Cardinality(S) -> S]
      /\ ToSet(s) = S /\ \A i, j \in DOMAIN s : i < j => s[i] < s[j]
  BY <1>1 DEF IsAscending
<1>3. /\ Ascending(S) \in [1 .. Cardinality(S) -> S] /\ ToSet(Ascending(S)) = S
      /\ \A i, j \in DOMAIN Ascending(S) : i < j => Ascending(S)[i] < Ascending(S)[j]
  BY <1>2 DEF Ascending
<1>4. QED
  BY <1>3 DEF IsAscending

-----------------------------------------------------------------------------
(* Ranks of places                                                         *)

\* The rank of a place among some places.
LEMMA RankIs ==
  ASSUME NEW n \in Nat, NEW S \in SUBSET (1 .. n), NEW j \in Nat
  PROVE  /\ IsFiniteSet(S) /\ Cardinality(S) \in Nat
         /\ Rank(S, j) \in 0 .. Cardinality(S)
         /\ j >= n => Rank(S, j) = Cardinality(S)
         /\ j \in S => Rank(S, j) >= 1
<1> DEFINE T == {k \in S : k <= j}
<1>1. IsFiniteSet(S) /\ Cardinality(S) \in Nat
  <2>1. IsFiniteSet(1 .. n)
    BY FS_Interval
  <2>2. QED
    BY <2>1, FS_Subset, FS_CardinalityType
<1>2. IsFiniteSet(T) /\ Cardinality(T) \in Nat /\ Cardinality(T) <= Cardinality(S)
  <2>1. T \subseteq S
    OBVIOUS
  <2> HIDE DEF T
  <2>2. QED
    BY <1>1, <2>1, FS_Subset, FS_CardinalityType
<1>3. j >= n => T = S
  <2>1. \A k \in S : j >= n => k <= j
    OBVIOUS
  <2>2. QED
    BY <2>1
<1>4. j \in S => Cardinality(T) # 0
  <2>1. j \in S => j \in T
    OBVIOUS
  <2> HIDE DEF T
  <2>2. QED
    BY <1>2, <2>1, FS_EmptySet
<1>5. Rank(S, j) = Cardinality(T)
  BY DEF Rank
<1> HIDE DEF T
<1>6. QED
  BY <1>1, <1>2, <1>3, <1>4, <1>5

\* A place after all others.
LEMMA RankGrows ==
  ASSUME NEW n \in Nat, NEW S \in SUBSET (1 .. n)
  PROVE  /\ \A j \in 0 .. n : Rank(S \cup {n + 1}, j) = Rank(S, j)
         /\ Cardinality(S \cup {n + 1}) = Cardinality(S) + 1
         /\ Rank(S \cup {n + 1}, n + 1) = Cardinality(S) + 1
<1>1. ASSUME NEW j \in 0 .. n PROVE Rank(S \cup {n + 1}, j) = Rank(S, j)
  <2>1. {k \in S \cup {n + 1} : k <= j} = {k \in S : k <= j}
    OBVIOUS
  <2>2. QED
    BY <2>1 DEF Rank
<1>2. Cardinality(S \cup {n + 1}) = Cardinality(S) + 1
  <2>1. n + 1 \notin S /\ IsFiniteSet(S)
    BY RankIs
  <2>2. QED
    BY <2>1, FS_AddElement
<1>3. Rank(S \cup {n + 1}, n + 1) = Cardinality(S \cup {n + 1})
  <2>1. {k \in S \cup {n + 1} : k <= n + 1} = S \cup {n + 1}
    <3>1. \A k \in S \cup {n + 1} : k \in Nat /\ k <= n + 1
      OBVIOUS
    <3>2. QED
      BY <3>1
  <2>2. QED
    BY <2>1 DEF Rank
<1>4. QED
  BY <1>1, <1>2, <1>3

\* The benchmarks and their scopes, of a sequence of options.
StartsOf(s) == {j \in DOMAIN s : s[j].opt = "--benchmark"}

ScopeOf(s, i) == {j \in DOMAIN s : Rank(StartsOf(s), j) \in {0, i}}

\* Scopes are sets of places.
LEMMA ScopesAre ==
  ASSUME NEW s, IsSeq(s), NEW i
  PROVE  /\ StartsOf(s) \in SUBSET (1 .. Len(s)) /\ Len(s) \in Nat
         /\ ScopeOf(s, i) \in SUBSET (1 .. Len(s))
         /\ Cardinality(StartsOf(s)) \in Nat
BY EmptyIs, RankIs DEF StartsOf, ScopeOf

\* A --benchmark begins a scope, which has what precedes every --benchmark.
LEMMA ScopeStarts ==
  ASSUME NEW s, IsSeq(s), NEW o, o.opt = "--benchmark"
  PROVE  LET t == Append(s, o)
             n == Cardinality(StartsOf(s))
         IN  /\ Cardinality(StartsOf(t)) = n + 1
             /\ \A i \in 0 .. n : ScopeOf(t, i) = ScopeOf(s, i)
             /\ ScopeOf(t, n + 1) = ScopeOf(s, 0) \cup {Len(s) + 1}
<1> DEFINE t == Append(s, o)
           S == StartsOf(s)
           n == Cardinality(S)
           l == Len(s)
<1>1. /\ IsSeq(t) /\ l \in Nat /\ DOMAIN s = 1 .. l /\ DOMAIN t = 1 .. l + 1 /\ t[l + 1] = o
      /\ \A j \in 1 .. l : t[j] = s[j]
  BY AppendIs
<1>2. S \in SUBSET (1 .. l) /\ n \in Nat
  BY ScopesAre
<1>3. \A j : j \in 1 .. l + 1 <=> j \in 1 .. l \/ j = l + 1
  BY <1>1
<1>4. StartsOf(t) = S \cup {l + 1}
  BY <1>1, <1>3 DEF StartsOf
<1> HIDE DEF t, S, n, l
<1>5. /\ \A j \in 0 .. l : Rank(S \cup {l + 1}, j) = Rank(S, j)
      /\ Cardinality(S \cup {l + 1}) = n + 1 /\ Rank(S \cup {l + 1}, l + 1) = n + 1
  BY <1>1, <1>2, RankGrows DEF n
<1>6. \A j \in 1 .. l : j \in 0 .. l /\ j \in Nat /\ Rank(S, j) \in 0 .. n
  <2> TAKE j \in 1 .. l
  <2>1. j \in 0 .. l /\ j \in Nat
    BY <1>1
  <2>2. QED
    BY <1>1, <1>2, <2>1, RankIs DEF n
<1>7. ScopeOf(s, 0) = {j \in 1 .. l : Rank(S, j) = 0}
  BY <1>1 DEF ScopeOf, S
<1>8. ASSUME NEW i \in 0 .. n PROVE ScopeOf(t, i) = ScopeOf(s, i)
  <2>1. \A j : j \in ScopeOf(t, i) <=> j \in 1 .. l + 1 /\ Rank(S \cup {l + 1}, j) \in {0, i}
    BY <1>1, <1>4 DEF ScopeOf
  <2>2. \A j : j \in ScopeOf(s, i) <=> j \in 1 .. l /\ Rank(S, j) \in {0, i}
    BY <1>1 DEF ScopeOf, S
  <2>3. n + 1 \notin {0, i}
    BY <1>2
  <2>4. QED
    BY <1>3, <1>5, <1>6, <2>1, <2>2, <2>3
<1>9. ScopeOf(t, n + 1) = ScopeOf(s, 0) \cup {l + 1}
  <2>1. \A j : j \in ScopeOf(t, n + 1)
                 <=> j \in 1 .. l + 1 /\ Rank(S \cup {l + 1}, j) \in {0, n + 1}
    BY <1>1, <1>4 DEF ScopeOf
  <2>2. \A j \in 1 .. l : Rank(S \cup {l + 1}, j) # n + 1
    BY <1>2, <1>5, <1>6
  <2>3. QED
    BY <1>3, <1>5, <1>6, <1>7, <2>1, <2>2
<1>10. QED
  BY <1>4, <1>5, <1>8, <1>9 DEF t, S, n, l

\* Any other option is in the scope of the last benchmark, or of all.
LEMMA ScopeGoesOn ==
  ASSUME NEW s, IsSeq(s), NEW o, o.opt # "--benchmark"
  PROVE  LET t == Append(s, o)
             n == Cardinality(StartsOf(s))
         IN  /\ Cardinality(StartsOf(t)) = n
             /\ \A i \in Nat : ScopeOf(t, i) =
                  IF n \in {0, i} THEN ScopeOf(s, i) \cup {Len(s) + 1} ELSE ScopeOf(s, i)
<1> DEFINE t == Append(s, o)
           S == StartsOf(s)
           n == Cardinality(S)
           l == Len(s)
<1>1. /\ IsSeq(t) /\ l \in Nat /\ DOMAIN s = 1 .. l /\ DOMAIN t = 1 .. l + 1 /\ t[l + 1] = o
      /\ \A j \in 1 .. l : t[j] = s[j]
  BY AppendIs
<1>2. S \in SUBSET (1 .. l) /\ n \in Nat
  BY ScopesAre
<1>3. \A j : j \in 1 .. l + 1 <=> j \in 1 .. l \/ j = l + 1
  BY <1>1
<1>4. StartsOf(t) = S
  BY <1>1, <1>3 DEF StartsOf
<1> HIDE DEF t, S, n, l
<1>5. Rank(S, l + 1) = n
  BY <1>1, <1>2, RankIs DEF n
<1>6. ASSUME NEW i \in Nat
      PROVE  ScopeOf(t, i) =
               IF n \in {0, i} THEN ScopeOf(s, i) \cup {l + 1} ELSE ScopeOf(s, i)
  <2>1. \A j : j \in ScopeOf(t, i) <=> j \in 1 .. l + 1 /\ Rank(S, j) \in {0, i}
    BY <1>1, <1>4 DEF ScopeOf
  <2>2. \A j : j \in ScopeOf(s, i) <=> j \in 1 .. l /\ Rank(S, j) \in {0, i}
    BY <1>1 DEF ScopeOf, S
  <2>3. QED
    BY <1>3, <1>5, <2>1, <2>2
<1>7. QED
  BY <1>4, <1>6 DEF t, S, n, l

-----------------------------------------------------------------------------
(* One more option on the line                                             *)

\* What was kept leaves the same in force as the options before any benchmark.
Noted(g, s) ==
  /\ \A j \in 1 .. Len(g) : g[j].opt \in Setters
  /\ \A k \in Keys : Agree(g, 1 .. Len(g), s, ScopeOf(s, 0), k)

\* Every benchmark has what was registered, or what options in its scope give.
FromLine(p, s, R) ==
  \A i \in 1 .. Len(p.benchmarks) : \E r \in 1 .. Len(R) :
    Reflects(p.benchmarks[i], R[r], s, ScopeOf(s, i))

Parsing(p, s, R) ==
  /\ IsParser(p) /\ IsSeq(s) /\ Len(p.benchmarks) = Cardinality(StartsOf(s))
  /\ Noted(p.global, s) /\ FromLine(p, s, R)

\* What is in force depends on nothing but the options at the places.
LEMMA InForceKept ==
  ASSUME NEW s, NEW t, NEW P, \A j \in P : t[j] = s[j], NEW k, NEW x, NEW base,
         InForce(x, base, s, P, k)
  PROVE  InForce(x, base, t, P, k)
BY DEF InForce, Silent, LastGiver

\* Neither does agreement.
LEMMA AgreeKept ==
  ASSUME NEW g, NEW G, NEW s, NEW t, NEW P, \A j \in P : t[j] = s[j], NEW k,
         Agree(g, G, s, P, k)
  PROVE  Agree(g, G, t, P, k)
<1>1. Silent(s, P, k) => Silent(t, P, k)
  BY DEF Silent
<1>2. \A j \in P : LastGiver(s, P, k, j) => LastGiver(t, P, k, j)
  BY DEF LastGiver
<1>3. QED
  BY <1>1, <1>2 DEF Agree

\* An option and what is kept of it.
LEMMA AgreeNext ==
  ASSUME NEW g, IsSeq(g), NEW h, NEW o, Recorded(g, h, o), NEW k \in Keys,
         NEW s, NEW n \in Int, NEW P \in SUBSET Int, \A j \in P : j < n, s[n] = o,
         Agree(g, 1 .. Len(g), s, P, k)
  PROVE  Agree(h, 1 .. Len(h), s, P \cup {n}, k)
<1>1. Len(g) \in Nat /\ Len(h) \in Nat /\ Len(g) <= Len(h)
      /\ \A i \in 1 .. Len(g) : h[i] = g[i]
  BY EmptyIs DEF Recorded
<1>2. \A i : i \in 1 .. Len(h) <=> i \in 1 .. Len(g) \/ i \in Len(g) + 1 .. Len(h)
  BY <1>1
<1>3. CASE Gives(o, k)
  <2>1. PICK i \in Len(g) + 1 .. Len(h) :
                /\ Gives(h[i], k) /\ Meant(h[i], k) = Meant(o, k)
                /\ \A j \in i + 1 .. Len(h) : ~Gives(h[j], k)
    BY <1>3 DEF Recorded
  <2>2. LastGiver(h, 1 .. Len(h), k, i) /\ i \in 1 .. Len(h)
    <3>1. i \in 1 .. Len(h)
      BY <1>2
    <3>2. \A l \in 1 .. Len(h) : l > i => l \in i + 1 .. Len(h)
      BY <1>1, <3>1
    <3>3. QED
      BY <2>1, <3>1, <3>2 DEF LastGiver
  <2>3. LastGiver(s, P \cup {n}, k, n)
    BY <1>3 DEF LastGiver
  <2>4. QED
    BY <2>1, <2>2, <2>3 DEF Agree
<1>4. CASE ~Gives(o, k)
  <2>1. \A i \in Len(g) + 1 .. Len(h) : ~Gives(h[i], k)
    BY <1>4 DEF Recorded
  <2>2. Silent(g, 1 .. Len(g), k) => Silent(h, 1 .. Len(h), k)
    BY <1>1, <1>2, <2>1 DEF Silent
  <2>3. \A i \in 1 .. Len(g) :
          LastGiver(g, 1 .. Len(g), k, i) => LastGiver(h, 1 .. Len(h), k, i) /\ i \in 1 .. Len(h)
    BY <1>1, <1>2, <2>1 DEF LastGiver
  <2>4. Silent(s, P, k) => Silent(s, P \cup {n}, k)
    BY <1>4 DEF Silent
  <2>5. \A j \in P : LastGiver(s, P, k, j) => LastGiver(s, P \cup {n}, k, j)
    BY <1>4 DEF LastGiver
  <2>6. QED
    BY <1>1, <2>2, <2>3, <2>4, <2>5 DEF Agree
<1>5. QED
  BY <1>3, <1>4

\* Nor what a benchmark reflects.
LEMMA ReflectsKept ==
  ASSUME NEW c, NEW b, NEW s, NEW t, NEW P, \A j \in P : t[j] = s[j], Reflects(c, b, s, P)
  PROVE  Reflects(c, b, t, P)
BY InForceKept DEF Reflects

\* A benchmark that reflects what was kept reflects the options it was kept
\* from.
LEMMA ReflectsAlike ==
  ASSUME NEW c, NEW b, NEW g, NEW G \in SUBSET Int, NEW s, NEW P \in SUBSET Int,
         \A k \in Keys : Agree(g, G, s, P, k), Reflects(c, b, g, G)
  PROVE  Reflects(c, b, s, P)
BY InForceAlike DEF Reflects, KeysOf

\* One more option that gives the benchmark what it gives.
LEMMA ReflectsNext ==
  ASSUME NEW c, NEW b, NEW s, NEW P \in SUBSET Int, NEW n \in Int, \A j \in P : j < n,
         Reflects(c, b, s, P), NEW d, GivenBy(s[n], c, d)
  PROVE  Reflects(d, b, s, P \cup {n})
<1>1. c.cpuOnly = b.cpuOnly /\ d.name = b.name /\ d.cpuOnly = b.cpuOnly /\ KeysOf(c) = KeysOf(b)
  BY DEF Reflects, GivenBy, KeysOf
<1>2. ASSUME NEW k \in KeysOf(b)
      PROVE  InForce(Has(d, k), Has(b, k), s, P \cup {n}, k)
  <2>1. Has(d, k) = IF Gives(s[n], k) THEN Meant(s[n], k) ELSE Has(c, k)
    BY <1>1 DEF GivenBy
  <2>2. InForce(Has(c, k), Has(b, k), s, P, k)
    BY DEF Reflects
  <2>3. QED
    BY <2>1, <2>2, InForceNext
<1>3. QED
  BY <1>1, <1>2 DEF Reflects

\* --benchmark gives nothing.
LEMMA ReflectsStart ==
  ASSUME NEW c, NEW b, NEW s, NEW P \in SUBSET Int, NEW n \in Int, \A j \in P : j < n,
         Reflects(c, b, s, P), s[n].opt = "--benchmark"
  PROVE  Reflects(c, b, s, P \cup {n})
<1>1. \A k \in Keys : ~Gives(s[n], k)
  BY DEF Gives, Keys, Writes, FloatProps
<1>2. \A k \in KeysOf(b) : InForce(Has(c, k), Has(b, k), s, P \cup {n}, k)
  <2> TAKE k \in KeysOf(b)
  <2>1. InForce(Has(c, k), Has(b, k), s, P, k) /\ ~Gives(s[n], k)
    BY <1>1 DEF Reflects, KeysOf
  <2>2. QED
    BY <2>1, InForceNext
<1>3. QED
  BY <1>2 DEF Reflects

\* A --benchmark.
LEMMA StartKeepsParsing ==
  ASSUME NEW p, NEW s, NEW R, Parsing(p, s, R), NEW o, o.opt = "--benchmark",
         NEW r \in 1 .. Len(R), NEW q, AddsBenchmark(p, q, R[r]), q.status = "ok"
  PROVE  Parsing(q, Append(s, o), R)
<1> DEFINE t == Append(s, o)
           n == Cardinality(StartsOf(s))
           l == Len(s)
           g == p.global
<1>1. /\ IsParser(p) /\ IsSeq(s) /\ Len(p.benchmarks) = n /\ Noted(g, s)
      /\ FromLine(p, s, R) /\ IsSeq(g)
  BY DEF Parsing, IsParser
<1>2. /\ IsSeq(t) /\ l \in Nat /\ t[l + 1] = o /\ \A j \in 1 .. l : t[j] = s[j]
  BY <1>1, AppendIs
<1>3. /\ Cardinality(StartsOf(t)) = n + 1
      /\ \A i \in 0 .. n : ScopeOf(t, i) = ScopeOf(s, i)
      /\ ScopeOf(t, n + 1) = ScopeOf(s, 0) \cup {l + 1}
  BY <1>1, ScopeStarts
<1>4. /\ IsParser(q) /\ q.global = g /\ Len(q.benchmarks) = n + 1
      /\ \A i \in 1 .. n : q.benchmarks[i] = p.benchmarks[i]
      /\ Reflects(q.benchmarks[n + 1], R[r], g, 1 .. Len(g))
  BY <1>1 DEF AddsBenchmark
<1>5. \A i \in Nat : ScopeOf(s, i) \in SUBSET (1 .. l)
  BY <1>1, ScopesAre
<1>6. n \in Nat /\ Len(g) \in Nat
  BY <1>1, ScopesAre, EmptyIs
<1> HIDE DEF t, n, l, g
<1>7. Noted(g, t)
  <2>1. ASSUME NEW k \in Keys PROVE Agree(g, 1 .. Len(g), t, ScopeOf(t, 0), k)
    <3>1. Agree(g, 1 .. Len(g), s, ScopeOf(s, 0), k)
      BY <1>1 DEF Noted
    <3>2. \A j \in ScopeOf(s, 0) : t[j] = s[j]
      BY <1>2, <1>5
    <3>3. ScopeOf(t, 0) = ScopeOf(s, 0)
      BY <1>3, <1>6
    <3>4. QED
      BY <3>1, <3>2, <3>3, AgreeKept
  <2>2. QED
    BY <1>1, <2>1 DEF Noted
<1>8. ASSUME NEW i \in 1 .. n + 1
      PROVE  \E x \in 1 .. Len(R) : Reflects(q.benchmarks[i], R[x], t, ScopeOf(t, i))
  <2>1. CASE i = n + 1
    <3>1. Reflects(q.benchmarks[i], R[r], t, ScopeOf(t, 0))
      <4>1. \A k \in Keys : Agree(g, 1 .. Len(g), t, ScopeOf(t, 0), k)
        BY <1>7 DEF Noted
      <4>2. ScopeOf(t, 0) \in SUBSET Int /\ 1 .. Len(g) \in SUBSET Int
        BY <1>2, <1>3, <1>5, <1>6
      <4>3. QED
        BY <1>4, <2>1, <4>1, <4>2, ReflectsAlike
    <3>2. ScopeOf(t, 0) = ScopeOf(s, 0) /\ ScopeOf(s, 0) \in SUBSET Int /\ l + 1 \in Int
          /\ \A j \in ScopeOf(s, 0) : j < l + 1
      BY <1>2, <1>3, <1>5, <1>6
    <3>3. t[l + 1].opt = "--benchmark"
      BY <1>2
    <3>4. Reflects(q.benchmarks[i], R[r], t, ScopeOf(s, 0) \cup {l + 1})
      BY <3>1, <3>2, <3>3, ReflectsStart
    <3>5. QED
      BY <1>3, <2>1, <3>4
  <2>2. CASE i # n + 1
    <3>1. i \in 1 .. n /\ i \in 0 .. n /\ i \in Nat
      BY <1>6, <2>2
    <3>2. PICK x \in 1 .. Len(R) : Reflects(p.benchmarks[i], R[x], s, ScopeOf(s, i))
      BY <1>1, <3>1 DEF FromLine
    <3>3. \A j \in ScopeOf(s, i) : t[j] = s[j]
      BY <1>2, <1>5, <3>1
    <3>4. Reflects(p.benchmarks[i], R[x], t, ScopeOf(s, i))
      BY <3>2, <3>3, ReflectsKept
    <3>5. QED
      BY <1>3, <1>4, <3>1, <3>4
  <2>3. QED
    BY <2>1, <2>2
<1>9. Parsing(q, t, R)
  BY <1>2, <1>3, <1>4, <1>7, <1>8 DEF Parsing, FromLine
<1>10. QED
  BY <1>9 DEF t

\* Any other option.
LEMMA OptionKeepsParsing ==
  ASSUME NEW p, NEW s, NEW R, Parsing(p, s, R), NEW o, o.opt # "--benchmark",
         NEW q, Applies(p, q, o), q.status = "ok"
  PROVE  Parsing(q, Append(s, o), R)
<1> DEFINE t == Append(s, o)
           n == Cardinality(StartsOf(s))
           l == Len(s)
           g == p.global
<1>1. /\ IsParser(p) /\ IsSeq(s) /\ Len(p.benchmarks) = n /\ Noted(g, s)
      /\ FromLine(p, s, R) /\ IsSeq(g)
  BY DEF Parsing, IsParser
<1>2. /\ IsSeq(t) /\ l \in Nat /\ t[l + 1] = o /\ \A j \in 1 .. l : t[j] = s[j]
  BY <1>1, AppendIs
<1>3. /\ Cardinality(StartsOf(t)) = n
      /\ \A i \in Nat : ScopeOf(t, i) =
           IF n \in {0, i} THEN ScopeOf(s, i) \cup {l + 1} ELSE ScopeOf(s, i)
  BY <1>1, ScopeGoesOn
<1>4. IsParser(q)
  BY DEF Applies
<1>5. \A i \in Nat : /\ ScopeOf(s, i) \in SUBSET (1 .. l) /\ ScopeOf(s, i) \in SUBSET Int
                     /\ \A j \in ScopeOf(s, i) : t[j] = s[j] /\ j < l + 1
  <2> TAKE i \in Nat
  <2>1. ScopeOf(s, i) \in SUBSET (1 .. l)
    BY <1>1, ScopesAre
  <2> HIDE DEF t, l
  <2>2. QED
    BY <1>2, <2>1
<1>6. n \in Nat /\ Len(g) \in Nat /\ l + 1 \in Int
  BY <1>1, <1>2, ScopesAre, EmptyIs
<1>7. n = 0 <=> p.benchmarks = <<>>
  BY <1>1, EmptyIs DEF IsParser
<1> HIDE DEF t, n, l, g
<1>8. CASE n = 0
  <2>1. q.benchmarks = <<>> /\ Recorded(g, q.global, o)
    BY <1>7, <1>8 DEF Applies, g
  <2>2. Len(q.benchmarks) = 0
    BY <2>1, <1>4, EmptyIs DEF IsParser
  <2>3. ScopeOf(t, 0) = ScopeOf(s, 0) \cup {l + 1}
    BY <1>3, <1>8
  <2>4. ASSUME NEW k \in Keys
        PROVE  Agree(q.global, 1 .. Len(q.global), t, ScopeOf(t, 0), k)
    <3>1. Agree(g, 1 .. Len(g), s, ScopeOf(s, 0), k)
      BY <1>1 DEF Noted
    <3>2. Agree(g, 1 .. Len(g), t, ScopeOf(s, 0), k)
      BY <1>5, <3>1, AgreeKept
    <3>3. ScopeOf(s, 0) \in SUBSET Int /\ \A j \in ScopeOf(s, 0) : j < l + 1
      BY <1>5
    <3>4. Agree(q.global, 1 .. Len(q.global), t, ScopeOf(s, 0) \cup {l + 1}, k)
      BY <1>1, <1>2, <1>6, <2>1, <3>2, <3>3, AgreeNext
    <3>5. QED
      BY <2>3, <3>4
  <2>5. ASSUME NEW j \in 1 .. Len(q.global) PROVE q.global[j].opt \in Setters
    <3>1. Len(q.global) \in Nat /\ Len(g) <= Len(q.global)
      BY <1>4, <2>1, EmptyIs DEF IsParser, Recorded
    <3>2. j \in 1 .. Len(g) \/ j \in Len(g) + 1 .. Len(q.global)
      BY <1>6, <3>1
    <3>3. QED
      BY <1>1, <2>1, <3>2 DEF Noted, Recorded
  <2>6. Noted(q.global, t)
    BY <2>4, <2>5 DEF Noted
  <2>7. FromLine(q, t, R)
    BY <2>2 DEF FromLine
  <2>8. Parsing(q, t, R)
    BY <1>2, <1>3, <1>4, <1>8, <2>2, <2>6, <2>7 DEF Parsing
  <2>9. QED
    BY <2>8 DEF t
<1>9. CASE n # 0
  <2>1. PICK c : /\ ChangesLast(p, q, c) /\ GivenBy(o, LastBenchmark(p), c) /\ q.global = g
    BY <1>7, <1>9 DEF Applies, g
  <2>2. /\ Len(q.benchmarks) = n /\ q.benchmarks[n] = c
        /\ \A i \in 1 .. n - 1 : q.benchmarks[i] = p.benchmarks[i]
        /\ LastBenchmark(p) = p.benchmarks[n]
    BY <1>1, <2>1 DEF ChangesLast, LastBenchmark
  <2>3. Noted(g, t)
    <3>1. ScopeOf(t, 0) = ScopeOf(s, 0)
      BY <1>3, <1>9
    <3>2. ASSUME NEW k \in Keys PROVE Agree(g, 1 .. Len(g), t, ScopeOf(t, 0), k)
      <4>1. Agree(g, 1 .. Len(g), s, ScopeOf(s, 0), k)
        BY <1>1 DEF Noted
      <4>2. Agree(g, 1 .. Len(g), t, ScopeOf(s, 0), k)
        BY <1>5, <4>1, AgreeKept
      <4>3. QED
        BY <3>1, <4>2
    <3>3. QED
      BY <1>1, <3>2 DEF Noted
  <2>4. ASSUME NEW i \in 1 .. n
        PROVE  \E x \in 1 .. Len(R) : Reflects(q.benchmarks[i], R[x], t, ScopeOf(t, i))
    <3>1. i \in Nat
      BY <1>6
    <3>2. PICK x \in 1 .. Len(R) : Reflects(p.benchmarks[i], R[x], s, ScopeOf(s, i))
      BY <1>1 DEF FromLine
    <3>3. Reflects(p.benchmarks[i], R[x], t, ScopeOf(s, i))
      BY <1>5, <3>1, <3>2, ReflectsKept
    <3>4. CASE i = n
      <4>1. ScopeOf(t, i) = ScopeOf(s, i) \cup {l + 1}
        BY <1>3, <3>1, <3>4
      <4>2. GivenBy(t[l + 1], p.benchmarks[i], c)
        BY <1>2, <2>1, <2>2, <3>4
      <4>3. ScopeOf(s, i) \in SUBSET Int /\ \A j \in ScopeOf(s, i) : j < l + 1
        BY <1>5, <3>1
      <4>4. Reflects(c, R[x], t, ScopeOf(s, i) \cup {l + 1})
        BY <1>6, <3>3, <4>2, <4>3, ReflectsNext
      <4>5. QED
        BY <2>2, <3>4, <4>1, <4>4
    <3>5. CASE i # n
      <4>1. i \in 1 .. n - 1 /\ ScopeOf(t, i) = ScopeOf(s, i)
        BY <1>3, <1>6, <1>9, <3>1, <3>5
      <4>2. QED
        BY <2>2, <3>3, <4>1
    <3>6. QED
      BY <3>4, <3>5
  <2>5. Parsing(q, t, R)
    BY <1>2, <1>3, <1>4, <2>1, <2>2, <2>3, <2>4 DEF Parsing, FromLine
  <2>6. QED
    BY <2>5 DEF t
<1>10. QED
  BY <1>8, <1>9

-----------------------------------------------------------------------------
(* Printers                                                                *)

AskedOf(s) == {j \in DOMAIN s : s[j].opt \in Formats}

Coloured(s, j) ==
  \E l \in DOMAIN s : l < j /\ s[l].opt = "--color" /\ s[j].opt = "--md" /\ s[j].arg.text = "stdout"

Spoken(s) ==
  \E j \in DOMAIN s : s[j].opt = "--quiet" \/ (s[j].opt \in Formats /\ s[j].arg.text = "stdout")

\* The printers so far are those of the line.
Printing(p, s) ==
  /\ Len(p.printers) = Cardinality(AskedOf(s))
  /\ \A j \in AskedOf(s) :
       LET made == p.printers[Rank(AskedOf(s), j)]
       IN  /\ made.format = s[j].opt /\ made.stream = s[j].arg.text
           /\ Coloured(s, j) => made.color
  /\ \A k \in 1 .. Len(p.printers) : p.printers[k].color => p.color
  /\ p.have_stdout_printer <=> Spoken(s)
  /\ (\E j \in DOMAIN s : s[j].opt = "--color") => p.color

\* One more option, and what it does to the printers.
LEMMA OptionKeepsPrinting ==
  ASSUME NEW p, IsParser(p), NEW s, IsSeq(s), Printing(p, s), NEW o,
         NEW q, IsParser(q), Prints(p, q, o), q.status = "ok"
  PROVE  Printing(q, Append(s, o))
<1> DEFINE t == Append(s, o)
           A == AskedOf(s)
           n == Cardinality(A)
           l == Len(s)
<1>1. /\ IsSeq(t) /\ l \in Nat /\ DOMAIN s = 1 .. l /\ DOMAIN t = 1 .. l + 1 /\ t[l + 1] = o
      /\ \A j \in 1 .. l : t[j] = s[j]
  BY AppendIs
<1>2. \A j : j \in 1 .. l + 1 <=> j \in 1 .. l \/ j = l + 1
  BY <1>1
<1>3. A \in SUBSET (1 .. l) /\ n \in Nat
  <2>1. A \in SUBSET (1 .. l)
    BY <1>1 DEF AskedOf
  <2>2. QED
    BY <1>1, <2>1, RankIs
<1>4. AskedOf(t) = IF o.opt \in Formats THEN A \cup {l + 1} ELSE A
  <2>1. \A j : j \in AskedOf(t) <=> j \in 1 .. l + 1 /\ t[j].opt \in Formats
    BY <1>1 DEF AskedOf
  <2>2. \A j : j \in A <=> j \in 1 .. l /\ s[j].opt \in Formats
    BY <1>1 DEF AskedOf
  <2> HIDE DEF t, A
  <2>3. QED
    BY <1>1, <1>2, <2>1, <2>2
<1> HIDE DEF t, A, n, l
<1>5. /\ \A j \in A : Rank(A \cup {l + 1}, j) = Rank(A, j) /\ Rank(A, j) \in 1 .. n
      /\ Cardinality(A \cup {l + 1}) = n + 1 /\ Rank(A \cup {l + 1}, l + 1) = n + 1
  <2>1. \A j \in A : j \in 0 .. l /\ j \in Nat
    BY <1>1, <1>3
  <2>2. \A j \in A : Rank(A, j) \in 0 .. n /\ Rank(A, j) >= 1
    BY <1>1, <1>3, <2>1, RankIs DEF n
  <2>3. \A j \in A : Rank(A, j) \in 1 .. n
    BY <1>3, <2>2
  <2>4. /\ \A j \in 0 .. l : Rank(A \cup {l + 1}, j) = Rank(A, j)
        /\ Cardinality(A \cup {l + 1}) = n + 1 /\ Rank(A \cup {l + 1}, l + 1) = n + 1
    BY <1>1, <1>3, RankGrows DEF n
  <2>5. QED
    BY <2>1, <2>3, <2>4
<1>6. /\ q.color = (p.color \/ o.opt = "--color")
      /\ q.have_stdout_printer =
           (p.have_stdout_printer \/ o.opt = "--quiet"
            \/ (o.opt \in Formats /\ o.arg.text = "stdout"))
      /\ q.printers = IF o.opt \in Formats THEN Append(p.printers, PrinterOf(p, o)) ELSE p.printers
      /\ p.color \in BOOLEAN /\ p.have_stdout_printer \in BOOLEAN
  BY DEF Prints, IsParser
<1>7. /\ Len(p.printers) = n
      /\ \A j \in A : /\ p.printers[Rank(A, j)].format = s[j].opt
                      /\ p.printers[Rank(A, j)].stream = s[j].arg.text
                      /\ Coloured(s, j) => p.printers[Rank(A, j)].color
      /\ \A k \in 1 .. n : p.printers[k].color => p.color
      /\ p.have_stdout_printer <=> Spoken(s)
      /\ (\E j \in 1 .. l : s[j].opt = "--color") => p.color
  BY <1>1 DEF Printing, A, n
<1>8. \A j \in A : Coloured(t, j) => Coloured(s, j)
  <2> TAKE j \in A
  <2>1. j \in 1 .. l /\ ~(l + 1 < j)
    BY <1>1, <1>3
  <2>2. QED
    BY <1>1, <1>2, <2>1 DEF Coloured
<1>9. /\ IsSeq(Append(p.printers, PrinterOf(p, o)))
      /\ Len(Append(p.printers, PrinterOf(p, o))) = n + 1
      /\ Append(p.printers, PrinterOf(p, o))[n + 1] = PrinterOf(p, o)
      /\ \A k \in 1 .. n : Append(p.printers, PrinterOf(p, o))[k] = p.printers[k]
  BY <1>7, AppendIs DEF IsParser
<1>10. /\ Len(q.printers) = IF o.opt \in Formats THEN n + 1 ELSE n
       /\ \A k \in 1 .. n : q.printers[k] = p.printers[k]
       /\ o.opt \in Formats => q.printers[n + 1] = PrinterOf(p, o)
  BY <1>6, <1>7, <1>9
<1>11. Len(q.printers) = Cardinality(AskedOf(t))
  BY <1>4, <1>5, <1>10 DEF n
<1>12. ASSUME NEW j \in AskedOf(t)
       PROVE  LET made == q.printers[Rank(AskedOf(t), j)]
              IN  /\ made.format = t[j].opt /\ made.stream = t[j].arg.text
                  /\ Coloured(t, j) => made.color
  <2>1. CASE j \in A
    <3>1. Rank(AskedOf(t), j) = Rank(A, j) /\ Rank(A, j) \in 1 .. n
      BY <1>4, <1>5, <2>1
    <3>2. q.printers[Rank(AskedOf(t), j)] = p.printers[Rank(A, j)]
      BY <1>10, <3>1
    <3>3. t[j] = s[j]
      BY <1>1, <1>3, <2>1
    <3>4. QED
      BY <1>7, <1>8, <2>1, <3>2, <3>3
  <2>2. CASE j \notin A
    <3>1. j = l + 1 /\ o.opt \in Formats
      BY <1>4, <2>2
    <3>2. Rank(AskedOf(t), j) = n + 1
      BY <1>4, <1>5, <3>1
    <3>3. q.printers[Rank(AskedOf(t), j)] = PrinterOf(p, o) /\ t[j] = o
      BY <1>1, <1>10, <3>1, <3>2
    <3>4. PrinterOf(p, o).format = o.opt /\ PrinterOf(p, o).stream = o.arg.text
      BY DEF PrinterOf
    <3>5. Coloured(t, j) => PrinterOf(p, o).color
      <4>1. HAVE Coloured(t, j)
      <4>2. PICK m \in DOMAIN t : /\ m < j /\ t[m].opt = "--color" /\ t[j].opt = "--md"
                                  /\ t[j].arg.text = "stdout"
        BY <4>1 DEF Coloured
      <4>3. m \in 1 .. l /\ s[m].opt = "--color"
        BY <1>1, <1>2, <3>1, <4>2
      <4>4. p.color /\ o.opt = "--md" /\ o.arg.text = "stdout"
        BY <1>7, <3>3, <4>2, <4>3
      <4>5. QED
        BY <4>4 DEF PrinterOf
    <3>6. QED
      BY <3>3, <3>4, <3>5
  <2>3. QED
    BY <2>1, <2>2
<1>13. ASSUME NEW k \in 1 .. Len(q.printers), q.printers[k].color PROVE q.color
  <2>1. CASE k \in 1 .. n
    BY <1>6, <1>7, <1>10, <1>13, <2>1
  <2>2. CASE k \notin 1 .. n
    <3>1. k = n + 1 /\ o.opt \in Formats
      BY <1>3, <1>10, <2>2
    <3>2. PrinterOf(p, o).color
      BY <1>10, <1>13, <3>1
    <3>3. p.color
      BY <3>2 DEF PrinterOf
    <3>4. QED
      BY <1>6, <3>3
  <2>3. QED
    BY <2>1, <2>2
<1>14. q.have_stdout_printer <=> Spoken(t)
  <2>1. Spoken(t) <=>
          Spoken(s) \/ o.opt = "--quiet" \/ (o.opt \in Formats /\ o.arg.text = "stdout")
    BY <1>1, <1>2 DEF Spoken
  <2>2. QED
    BY <1>6, <1>7, <2>1
<1>15. ASSUME NEW j \in DOMAIN t, t[j].opt = "--color" PROVE q.color
  <2>1. CASE j = l + 1
    BY <1>1, <1>6, <1>15, <2>1
  <2>2. CASE j # l + 1
    <3>1. j \in 1 .. l /\ s[j].opt = "--color"
      BY <1>1, <1>2, <1>15, <2>2
    <3>2. QED
      BY <1>6, <1>7, <3>1
  <2>3. QED
    BY <2>1, <2>2
<1>16. Printing(q, t)
  BY <1>11, <1>12, <1>13, <1>14, <1>15 DEF Printing
<1>17. QED
  BY <1>16 DEF t

\* A --benchmark does nothing to the printers.
LEMMA StartPrints ==
  ASSUME NEW p, IsParser(p), NEW q, SameOutput(p, q), NEW o, o.opt = "--benchmark"
  PROVE  Prints(p, q, o)
<1>1. o.opt \notin Formats /\ o.opt # "--color" /\ o.opt # "--quiet"
      /\ p.color \in BOOLEAN /\ p.have_stdout_printer \in BOOLEAN
  BY DEF Formats, IsParser
<1>2. QED
  BY <1>1 DEF Prints, SameOutput

DefaultPrinter(p) == [format |-> "--md", stream |-> "stdout", color |-> p.color]

\* What PrintersAsAsked says of a parser and a line.
Printed(p, s) ==
  LET n == Cardinality(AskedOf(s))
  IN  /\ Len(p.printers) =
           n + (IF (\E j \in DOMAIN s : s[j].opt = "--quiet")
                   \/ (\E j \in AskedOf(s) : s[j].arg.text = "stdout") THEN 0 ELSE 1)
      /\ \A j \in AskedOf(s) : /\ p.printers[Rank(AskedOf(s), j)].format = s[j].opt
                               /\ p.printers[Rank(AskedOf(s), j)].stream = s[j].arg.text
      /\ Len(p.printers) > n => p.printers[n + 1] = DefaultPrinter(p)
      /\ \A k \in DOMAIN p.printers : p.printers[k].color => p.color
      /\ \A j \in DOMAIN s, l \in AskedOf(s) :
           j < l /\ s[j].opt = "--color" /\ s[l].opt = "--md" /\
           s[l].arg.text = "stdout" => p.printers[Rank(AskedOf(s), l)].color

\* PrintersAsAsked, said of the parser and the line.
LEMMA PrintedIs == PrintersAsAsked <=> (phase = "parsed" => Printed(parser, line))
BY DEF PrintersAsAsked, Printed, Asked, AskedOf, Formats, DefaultPrinter

\* The default printer is added unless something goes to stdout.
LEMMA DefaultPrinterIs ==
  ASSUME NEW p, IsParser(p)
  PROVE  LET q == AddDefaultPrinter(p)
         IN  /\ IsParser(q) /\ q.status = p.status /\ q.benchmarks = p.benchmarks
             /\ q.color = p.color
             /\ q.printers = IF p.have_stdout_printer THEN p.printers
                             ELSE Append(p.printers, DefaultPrinter(p))
<1> DEFINE q == AddDefaultPrinter(p)
           made(c) == [format |-> "--md", stream |-> "stdout", color |-> c]
<1>1. p.color \in BOOLEAN /\ p.have_stdout_printer \in BOOLEAN /\ IsSeq(p.printers)
  BY DEF IsParser
<1>2. CASE p.have_stdout_printer
  BY <1>2 DEF AddDefaultPrinter
<1>3. CASE ~p.have_stdout_printer
  <2> DEFINE o == [opt |-> "--md", arg |-> [text |-> "stdout"]]
  <2>1. o.opt = "--md" /\ o.arg.text = "stdout" /\ "stdout" \notin Unopenable
    BY ParserAssumption
  <2>2. q = add_printer(p, o)
    BY <1>3 DEF AddDefaultPrinter
  <2> HIDE DEF o
  <2>3. PrinterOf(p, o) = DefaultPrinter(p)
    <3>1. CASE p.color = TRUE
      BY <2>1, <3>1 DEF PrinterOf, DefaultPrinter
    <3>2. CASE p.color = FALSE
      BY <2>1, <3>2 DEF PrinterOf, DefaultPrinter
    <3>3. QED
      BY <1>1, <3>1, <3>2
  <2>4. /\ DOMAIN q = ParserFields /\ q.status = p.status /\ q.global = p.global
        /\ q.benchmarks = p.benchmarks /\ q.color = p.color
        /\ q.printers = Append(p.printers, PrinterOf(p, o))
        /\ q.have_stdout_printer = TRUE
    BY <2>1, <2>2 DEF add_printer, IsParser, ParserFields, PrinterOf
  <2> HIDE DEF q
  <2>5. IsSeq(q.printers)
    BY <1>1, <2>4, AppendIs
  <2>6. IsParser(q)
    BY <2>4, <2>5 DEF IsParser
  <2>7. q.printers = Append(p.printers, DefaultPrinter(p))
    BY <2>3, <2>4
  <2>8. QED
    BY <1>3, <2>4, <2>6, <2>7 DEF q
<1>4. QED
  BY <1>1, <1>2, <1>3

\* When the line has been read the default printer completes the printers.
LEMMA PrintingEnds ==
  ASSUME NEW p, IsParser(p), NEW s, IsSeq(s), Printing(p, s)
  PROVE  Printed(AddDefaultPrinter(p), s)
<1> DEFINE q == AddDefaultPrinter(p)
           A == AskedOf(s)
           n == Cardinality(A)
<1>1. DOMAIN s = 1 .. Len(s) /\ Len(s) \in Nat
  BY EmptyIs
<1>2. A \in SUBSET (1 .. Len(s))
  BY <1>1 DEF AskedOf
<1>3. n \in Nat /\ \A j \in A : j \in Nat /\ Rank(A, j) \in 1 .. n
  <2> HIDE DEF A
  <2>1. n \in Nat
    BY <1>1, <1>2, RankIs
  <2>2. \A j \in A : j \in Nat
    BY <1>1, <1>2
  <2>3. \A j \in A : Rank(A, j) \in 0 .. n /\ Rank(A, j) >= 1
    BY <1>1, <1>2, <2>2, RankIs
  <2> HIDE DEF n
  <2>4. QED
    BY <2>1, <2>2, <2>3
<1>4. /\ IsParser(q) /\ q.color = p.color
      /\ q.printers = IF p.have_stdout_printer THEN p.printers
                      ELSE Append(p.printers, DefaultPrinter(p))
  BY DefaultPrinterIs
<1>5. /\ Len(p.printers) = n
      /\ \A j \in A : /\ p.printers[Rank(A, j)].format = s[j].opt
                      /\ p.printers[Rank(A, j)].stream = s[j].arg.text
                      /\ Coloured(s, j) => p.printers[Rank(A, j)].color
      /\ \A k \in 1 .. n : p.printers[k].color => p.color
      /\ p.have_stdout_printer <=> Spoken(s)
  BY DEF Printing
<1>6. /\ DOMAIN p.printers = 1 .. n
      /\ DOMAIN Append(p.printers, DefaultPrinter(p)) = 1 .. n + 1
      /\ Len(Append(p.printers, DefaultPrinter(p))) = n + 1
      /\ Append(p.printers, DefaultPrinter(p))[n + 1] = DefaultPrinter(p)
      /\ \A k \in 1 .. n : Append(p.printers, DefaultPrinter(p))[k] = p.printers[k]
  BY <1>5, AppendIs DEF IsParser
<1>7. p.have_stdout_printer \in BOOLEAN
  BY DEF IsParser
<1> HIDE DEF q, n
<1>8. /\ Len(q.printers) = IF p.have_stdout_printer THEN n ELSE n + 1
      /\ DOMAIN q.printers = 1 .. Len(q.printers)
      /\ \A k \in 1 .. n : q.printers[k] = p.printers[k]
      /\ ~p.have_stdout_printer => q.printers[n + 1] = DefaultPrinter(p)
  BY <1>4, <1>5, <1>6
<1>9. Spoken(s) <=> \/ \E j \in DOMAIN s : s[j].opt = "--quiet"
                    \/ (\E j \in A : s[j].arg.text = "stdout")
  BY DEF Spoken, AskedOf
<1> HIDE DEF A
<1>10. DefaultPrinter(q) = DefaultPrinter(p) /\ DefaultPrinter(p).color = p.color
  BY <1>4 DEF DefaultPrinter
<1>11. Len(q.printers) = n + (IF (\E j \in DOMAIN s : s[j].opt = "--quiet")
                                 \/ (\E j \in A : s[j].arg.text = "stdout") THEN 0 ELSE 1)
  BY <1>3, <1>5, <1>8, <1>9
<1>12. \A j \in A : /\ q.printers[Rank(A, j)].format = s[j].opt
                    /\ q.printers[Rank(A, j)].stream = s[j].arg.text
                    /\ Coloured(s, j) => q.printers[Rank(A, j)].color
  BY <1>3, <1>5, <1>8
<1>13. Len(q.printers) > n => q.printers[n + 1] = DefaultPrinter(q)
  BY <1>3, <1>7, <1>8, <1>10
<1>14. ASSUME NEW k \in DOMAIN q.printers, q.printers[k].color PROVE q.color
  <2>1. CASE k \in 1 .. n
    BY <1>4, <1>5, <1>8, <1>14, <2>1
  <2>2. CASE k \notin 1 .. n
    <3>1. k = n + 1 /\ ~p.have_stdout_printer
      BY <1>3, <1>7, <1>8, <2>2
    <3>2. QED
      BY <1>4, <1>8, <1>10, <1>14, <3>1
  <2>3. QED
    BY <2>1, <2>2
<1>15. ASSUME NEW j \in DOMAIN s, NEW l \in A, j < l, s[j].opt = "--color", s[l].opt = "--md",
              s[l].arg.text = "stdout"
       PROVE  q.printers[Rank(A, l)].color
  <2>1. Coloured(s, l)
    BY <1>15 DEF Coloured
  <2>2. QED
    BY <1>12, <2>1
<1>16. Printed(q, s)
  BY <1>11, <1>12, <1>13, <1>14, <1>15 DEF Printed, A, n
<1>17. QED
  BY <1>16 DEF q

\* The printers do not depend on the rest of the parser.
LEMMA SameOutputPrinting ==
  ASSUME NEW p, NEW q, SameOutput(p, q), NEW s, Printing(p, s)
  PROVE  Printing(q, s)
BY DEF Printing, SameOutput

-----------------------------------------------------------------------------
(* What the line says of a benchmark                                       *)

LastGiven(s, places, k) == Max({0} \cup {j \in places : Gives(s[j], k)})

\* The last place that gives a value, and the value in force.
LEMMA LastGivenIs ==
  ASSUME NEW n \in Nat, NEW P \in SUBSET (1 .. n), NEW s, NEW k, NEW x, NEW base,
         InForce(x, base, s, P, k)
  PROVE  LET j == LastGiven(s, P, k)
         IN  /\ j = 0 \/ (j \in P /\ Gives(s[j], k))
             /\ x = IF j = 0 THEN base ELSE Meant(s[j], k)
<1> DEFINE T == {j \in P : Gives(s[j], k)}
           j == LastGiven(s, P, k)
<1>1. j \in {0} \cup T /\ \A m \in {0} \cup T : j >= m
  <2>1. {0} \cup T \in SUBSET (0 .. n) /\ {0} \cup T # {}
    <3>1. \A m \in T : m \in 0 .. n
      OBVIOUS
    <3>2. 0 \in 0 .. n
      OBVIOUS
    <3> HIDE DEF T
    <3>3. QED
      BY <3>1, <3>2
  <2> HIDE DEF T
  <2>2. QED
    BY <2>1, MaxIsGreatest DEF LastGiven, T
<1> HIDE DEF j
<1>2. CASE Silent(s, P, k) /\ x = base
  <2>1. T = {}
    BY <1>2 DEF Silent
  <2>2. j = 0
    BY <1>1, <2>1
  <2>3. QED
    BY <1>2, <2>2 DEF j
<1>3. CASE \E l \in P : LastGiver(s, P, k, l) /\ x = Meant(s[l], k)
  <2>1. PICK l \in P : LastGiver(s, P, k, l) /\ x = Meant(s[l], k)
    BY <1>3
  <2>2. l \in T /\ \A m \in T : ~(m > l)
    BY <2>1 DEF LastGiver
  <2>3. j = l
    <3>1. j >= l /\ j # 0 /\ j \in T
      BY <1>1, <2>2
    <3>2. QED
      BY <2>2, <3>1
  <2>4. j # 0
    BY <2>1, <2>3
  <2>5. QED
    BY <2>1, <2>2, <2>3, <2>4 DEF j
<1>4. QED
  BY <1>2, <1>3 DEF InForce

\* A sequence of one element holds that element.
LEMMA OneTuple ==
  ASSUME NEW x, NEW y
  PROVE  (<<x>> = <<y>> => x = y) /\ <<x>> # <<>>
<1>1. <<x>> = <<y>> => <<x>>[1] = <<y>>[1]
  OBVIOUS
<1>2. Len(<<x>>) = 1 /\ Len(<<>>) = 0
  OBVIOUS
<1>3. QED
  BY <1>1, <1>2

\* A benchmark has the settings and parameters the line gives it.
Obeys(i, b, origin) ==
  /\ \A key \in DOMAIN Defaults :
       LET j == LastIn(i, LAMBDA o : Writes(o, key))
       IN  b.settings[key] = IF j = 0 THEN origin.settings[key] ELSE Meaning(line[j], key)
  /\ \A p \in DOMAIN ParamTypes :
       LET j == LastIn(i, LAMBDA o : o.opt = "--param" /\ o.param = p)
       IN  IF j # 0 THEN b.params[p] = parse(ParamTypes[p], line[j].arg)
           ELSE p \in DOMAIN b.params => b.params[p] = origin.params[p]

\* A benchmark that reflects the options in its scope follows the line.
LEMMA SettingsFollow ==
  ASSUME NEW i, NEW b, NEW origin, IsSeq(line), Reflects(b, origin, line, ScopeOf(line, i))
  PROVE  Obeys(i, b, origin)
<1>1. /\ Scope(i) = ScopeOf(line, i) /\ ScopeOf(line, i) \in SUBSET (1 .. Len(line))
      /\ Len(line) \in Nat
  BY ScopesAre DEF Scope, ScopeOf, Starts, StartsOf
<1>2. ASSUME NEW key \in DOMAIN Defaults
      PROVE  LET j == LastIn(i, LAMBDA o : Writes(o, key))
             IN  b.settings[key] = IF j = 0 THEN origin.settings[key] ELSE Meaning(line[j], key)
  <2> DEFINE k == [kind |-> "setting", name |-> key]
             j == LastGiven(line, ScopeOf(line, i), k)
  <2>1. k \in KeysOf(origin) /\ k.kind = "setting" /\ k.name = key
    BY DEF KeysOf, Keys
  <2> HIDE DEF k
  <2>2. LastIn(i, LAMBDA o : Writes(o, key)) = j
    <3>1. \A o : Gives(o, k) <=> Writes(o, key)
      BY <2>1 DEF Gives
    <3>2. {l \in ScopeOf(line, i) : Gives(line[l], k)}
            = {l \in ScopeOf(line, i) : Writes(line[l], key)}
      BY <3>1
    <3>3. QED
      BY <1>1, <3>2 DEF LastIn, LastGiven
  <2>3. InForce(Has(b, k), Has(origin, k), line, ScopeOf(line, i), k)
    BY <2>1 DEF Reflects
  <2>4. Has(b, k) = IF j = 0 THEN Has(origin, k) ELSE Meant(line[j], k)
    BY <1>1, <2>3, LastGivenIs
  <2>5. /\ Has(b, k) = <<b.settings[key]>> /\ Has(origin, k) = <<origin.settings[key]>>
        /\ Meant(line[j], k) = <<Meaning(line[j], key)>>
    BY <2>1 DEF Has, Meant
  <2> HIDE DEF j
  <2>6. b.settings[key] = IF j = 0 THEN origin.settings[key] ELSE Meaning(line[j], key)
    BY <2>4, <2>5, OneTuple
  <2>7. QED
    BY <2>2, <2>6
<1>3. ASSUME NEW p \in DOMAIN ParamTypes
      PROVE  LET j == LastIn(i, LAMBDA o : o.opt = "--param" /\ o.param = p)
             IN  IF j # 0 THEN b.params[p] = parse(ParamTypes[p], line[j].arg)
                 ELSE p \in DOMAIN b.params => b.params[p] = origin.params[p]
  <2> DEFINE k == [kind |-> "param", name |-> p]
             j == LastGiven(line, ScopeOf(line, i), k)
  <2>1. k \in KeysOf(origin) /\ k.kind = "param" /\ k.name = p
    BY DEF KeysOf, Keys
  <2> HIDE DEF k
  <2>2. LastIn(i, LAMBDA o : o.opt = "--param" /\ o.param = p) = j
    <3>1. \A o : Gives(o, k) <=> (o.opt = "--param" /\ o.param = p)
      BY <2>1 DEF Gives
    <3>2. {l \in ScopeOf(line, i) : Gives(line[l], k)}
            = {l \in ScopeOf(line, i) : line[l].opt = "--param" /\ line[l].param = p}
      BY <3>1
    <3>3. QED
      BY <1>1, <3>2 DEF LastIn, LastGiven
  <2>3. InForce(Has(b, k), Has(origin, k), line, ScopeOf(line, i), k)
    BY <2>1 DEF Reflects
  <2>4. Has(b, k) = IF j = 0 THEN Has(origin, k) ELSE Meant(line[j], k)
    BY <1>1, <2>3, LastGivenIs
  <2>5. /\ Has(b, k) = (IF p \in DOMAIN b.params THEN <<b.params[p]>> ELSE <<>>)
        /\ Has(origin, k) = (IF p \in DOMAIN origin.params THEN <<origin.params[p]>> ELSE <<>>)
        /\ Meant(line[j], k) = <<parse(ParamTypes[p], line[j].arg)>>
    BY <2>1 DEF Has, Meant
  <2> HIDE DEF j
  <2>6. IF j # 0 THEN b.params[p] = parse(ParamTypes[p], line[j].arg)
        ELSE p \in DOMAIN b.params => b.params[p] = origin.params[p]
    BY <2>4, <2>5, OneTuple
  <2>7. QED
    BY <2>2, <2>6
<1>4. QED
  BY <1>2, <1>3 DEF Obeys

\* Every --devices of a sequence was read.
Readable(s) ==
  \A j \in DOMAIN s : s[j].opt = "--devices" => parse_devices(s[j].arg).result = "values"

\* So do its devices.
LEMMA DevicesFollow ==
  ASSUME NEW i, NEW b, NEW origin, IsSeq(line), Reflects(b, origin, line, ScopeOf(line, i)),
         IsBench(origin), ~origin.cpuOnly => ToSet(origin.devices) = 0 .. NumDevices - 1,
         IsBench(b), Readable(line), \A j \in DOMAIN line : line[j] \in Options
  PROVE  LET j == LastIn(i, LAMBDA o : o.opt = "--devices")
         IN  ToSet(b.devices) =
               CASE b.cpuOnly -> {}
                 [] j = 0 /\ ~b.cpuOnly -> 0 .. NumDevices - 1
                 [] OTHER -> DevicesGiven(line[j].arg)
<1> DEFINE k == [kind |-> "devices", name |-> "devices"]
           j == LastGiven(line, ScopeOf(line, i), k)
<1>1. /\ Scope(i) = ScopeOf(line, i) /\ ScopeOf(line, i) \in SUBSET (1 .. Len(line))
      /\ Len(line) \in Nat /\ DOMAIN line = 1 .. Len(line)
  BY ScopesAre, EmptyIs DEF Scope, ScopeOf, Starts, StartsOf
<1>2. k \in Keys /\ k.kind = "devices" /\ b.cpuOnly = origin.cpuOnly /\ b.cpuOnly \in BOOLEAN
  BY DEF Keys, Reflects, IsBench
<1> HIDE DEF k
<1>3. LastIn(i, LAMBDA o : o.opt = "--devices") = j
  <2>1. \A o : Gives(o, k) <=> o.opt = "--devices"
    BY <1>2 DEF Gives
  <2>2. {l \in ScopeOf(line, i) : Gives(line[l], k)}
          = {l \in ScopeOf(line, i) : line[l].opt = "--devices"}
    BY <2>1
  <2>3. QED
    BY <1>1, <2>2 DEF LastIn, LastGiven
<1>4. CASE b.cpuOnly
  <2>1. b.devices = <<>>
    BY <1>4 DEF IsBench
  <2>2. ToSet(<<>>) = {}
    BY DEF ToSet
  <2> HIDE DEF j
  <2>3. QED
    BY <1>3, <1>4, <2>1, <2>2
<1>5. CASE ~b.cpuOnly
  <2>1. k \in KeysOf(origin)
    BY <1>2, <1>5 DEF KeysOf
  <2>2. InForce(Has(b, k), Has(origin, k), line, ScopeOf(line, i), k)
    BY <2>1 DEF Reflects
  <2>3. /\ Has(b, k) = IF j = 0 THEN Has(origin, k) ELSE Meant(line[j], k)
        /\ j = 0 \/ (j \in ScopeOf(line, i) /\ Gives(line[j], k))
    BY <1>1, <2>2, LastGivenIs
  <2>4. /\ Has(b, k) = <<b.devices>> /\ Has(origin, k) = <<origin.devices>>
        /\ Meant(line[j], k) = <<parse_devices(line[j].arg).values>>
    BY <1>2 DEF Has, Meant
  <2> HIDE DEF j
  <2>5. b.devices = IF j = 0 THEN origin.devices ELSE parse_devices(line[j].arg).values
    BY <2>3, <2>4, OneTuple
  <2>6. CASE j = 0
    BY <1>2, <1>3, <1>5, <2>5, <2>6
  <2>7. CASE j # 0
    <3>1. j \in DOMAIN line /\ line[j] \in Options /\ line[j].opt = "--devices"
      BY <1>1, <1>2, <2>3, <2>7 DEF Gives
    <3>2. parse_devices(line[j].arg).result = "values"
      BY <3>1 DEF Readable
    <3> DEFINE spec == line[j].arg
    <3>3. spec.kind # "all" => /\ IsSeq(spec.words)
                               /\ \A m \in 1 .. Len(spec.words) : spec.words[m].number \in Int
      <4>1. HAVE spec.kind # "all"
      <4>2. /\ spec.words \in Seq(ToSet(spec.words))
            /\ \A w \in ToSet(spec.words) : w.number \in Int
        BY <3>1, <4>1, ParserAssumption
      <4>3. \A m \in 1 .. Len(spec.words) : spec.words[m] \in ToSet(spec.words)
        BY <4>2, ElementOfSeq
      <4>4. QED
        BY <4>2, <4>3 DEF IsSeq
    <3> HIDE DEF spec
    <3>4. ToSet(parse_devices(spec).values) = DevicesGiven(spec)
      BY <3>2, <3>3, DevicesGivenAre DEF spec
    <3>5. QED
      BY <1>3, <1>5, <2>5, <2>7, <3>4 DEF spec
  <2>8. QED
    BY <2>6, <2>7
<1>6. QED
  BY <1>2, <1>4, <1>5

-----------------------------------------------------------------------------
(* The inductive invariant                                                 *)

\* A benchmark the registry has been initialised with.
Ready(b) == IsBench(b) /\ (~b.cpuOnly => ToSet(b.devices) = 0 .. NumDevices - 1)

DevicesOf(p) == UNION {ToSet(p.benchmarks[i].devices) : i \in DOMAIN p.benchmarks}

Structure ==
  /\ phase \in {"loaded", "parsing", "parsed", "exited", "refused", "endless"}
  /\ phase \in {"loaded", "parsing", "parsed", "exited"} <=> parser.status = "ok"
  /\ IsParser(parser)
  /\ IsSeq(line) /\ \A j \in 1 .. Len(line) : line[j] \in Options
  /\ IsSeq(registry) /\ Len(registry) = Len(Registered)
  /\ ToSet(used) \subseteq 0 .. NumDevices - 1
  /\ phase = "loaded" => registry = Registered /\ line = <<>> /\ used = <<>>
  /\ phase # "loaded" => \A i \in 1 .. Len(registry) : Ready(registry[i])

\* While the line is read, benchmarks and printers are those of the options so
\* far; when it has been read, those of the line.
Progress ==
  /\ phase = "parsing" => Parsing(parser, line, registry) /\ Printing(parser, line)
  /\ phase = "parsed" => /\ FromLine(parser, line, registry) /\ Printed(parser, line)
                         /\ IsAscending(used, DevicesOf(parser))
  /\ phase \in {"parsing", "parsed"} => Readable(line)

\* The registered benchmarks.
LEMMA RegisteredIs ==
  /\ NumDevices \in Nat /\ IsSeq(Registered)
  /\ \A i \in 1 .. Len(Registered) :
       LET b == Registered[i]
       IN  /\ DOMAIN b = BenchFields /\ DOMAIN b.settings = DOMAIN Defaults
           /\ b.cpuOnly \in BOOLEAN /\ (b.cpuOnly => b.devices = <<>>)
<1>1. NumDevices \in Nat /\ Registered \in Seq(ToSet(Registered))
  BY ParserAssumption
<1>2. \A i \in 1 .. Len(Registered) : Registered[i] \in ToSet(Registered)
  BY <1>1, ElementOfSeq
<1>3. ASSUME NEW i \in 1 .. Len(Registered)
      PROVE  LET b == Registered[i]
             IN  /\ DOMAIN b = BenchFields /\ DOMAIN b.settings = DOMAIN Defaults
                 /\ b.cpuOnly \in BOOLEAN /\ (b.cpuOnly => b.devices = <<>>)
  BY <1>2, ParserAssumption DEF BenchFields
<1>4. QED
  BY <1>1, <1>3 DEF IsSeq

\* benchmark_manager::initialize makes them ready.
LEMMA GivenDevices ==
  ASSUME NEW i \in 1 .. Len(Registered)
  PROVE  Ready(set_devices(Registered[i], get_devices))
<1> DEFINE b == Registered[i]
           c == set_devices(b, get_devices)
<1>1. /\ DOMAIN b = BenchFields /\ DOMAIN b.settings = DOMAIN Defaults
      /\ b.cpuOnly \in BOOLEAN /\ (b.cpuOnly => b.devices = <<>>) /\ NumDevices \in Nat
  BY RegisteredIs
<1>2. ToSet(get_devices) = 0 .. NumDevices - 1 /\ ToSet(<<>>) = {}
  BY <1>1, AllDevices DEF ToSet
<1>3. CASE b.cpuOnly
  <2>1. c = b
    BY <1>3 DEF set_devices
  <2> HIDE DEF c, b
  <2>2. Ready(c)
    BY <1>1, <1>2, <1>3, <2>1 DEF Ready, IsBench
  <2>3. QED
    BY <2>2 DEF c, b
<1>4. CASE ~b.cpuOnly
  <2>1. c = [b EXCEPT !.devices = get_devices]
    BY <1>4 DEF set_devices
  <2> HIDE DEF c, b
  <2>2. /\ DOMAIN c = BenchFields /\ c.settings = b.settings /\ c.cpuOnly = b.cpuOnly
        /\ c.devices = get_devices
    BY <1>1, <2>1 DEF BenchFields
  <2>3. Ready(c)
    BY <1>1, <1>2, <1>4, <2>2 DEF Ready, IsBench
  <2>4. QED
    BY <2>3 DEF c, b
<1>5. QED
  BY <1>1, <1>3, <1>4

\* A parser that has read nothing.
Fresh(p) ==
  /\ DOMAIN p = ParserFields /\ p.status = "ok" /\ p.global = <<>> /\ p.benchmarks = <<>>
  /\ p.printers = <<>> /\ p.have_stdout_printer = FALSE /\ p.color \in BOOLEAN

\* It has its types.
LEMMA FreshIs ==
  ASSUME NEW p, Fresh(p)
  PROVE  IsParser(p)
<1>1. IsSeq(<<>>) /\ 1 .. Len(<<>>) = {}
  BY DEF IsSeq
<1>2. IsSeq(p.global) /\ IsSeq(p.printers) /\ IsSeq(p.benchmarks) /\ 1 .. Len(p.benchmarks) = {}
  BY <1>1 DEF Fresh
<1>3. QED
  BY <1>2 DEF IsParser, Fresh

\* A new parser, and the one of the initial state.
LEMMA NewParserIs ==
  ASSUME NEW c \in BOOLEAN
  PROVE  Fresh([NewParser EXCEPT !.color = c]) /\ Fresh([NewParser EXCEPT !.recent = <<>>])
BY DEF NewParser, ParserFields, Fresh

\* Before the first option the line says nothing.
LEMMA StartsParsing ==
  ASSUME NEW p, Fresh(p), NEW R
  PROVE  Parsing(p, <<>>, R) /\ Printing(p, <<>>) /\ Readable(<<>>)
<1>1. IsSeq(<<>>) /\ Len(<<>>) = 0 /\ DOMAIN <<>> = {} /\ 1 .. Len(<<>>) = {}
  BY DEF IsSeq
<1>2. StartsOf(<<>>) = {} /\ AskedOf(<<>>) = {} /\ \A i : ScopeOf(<<>>, i) = {}
  BY <1>1 DEF StartsOf, AskedOf, ScopeOf
<1>3. Cardinality({}) = 0
  BY FS_EmptySet
<1>4. Noted(p.global, <<>>)
  BY <1>1, <1>2 DEF Noted, Agree, Silent, Fresh
<1>5. FromLine(p, <<>>, R)
  BY <1>1 DEF FromLine, Fresh
<1>6. Parsing(p, <<>>, R)
  BY <1>1, <1>2, <1>3, <1>4, <1>5, FreshIs DEF Parsing, Fresh
<1>7. Printing(p, <<>>)
  <2>1. Len(p.printers) = 0 /\ 1 .. Len(p.printers) = {} /\ ~p.have_stdout_printer
    BY <1>1 DEF Fresh
  <2>2. ~Spoken(<<>>) /\ ~\E j \in DOMAIN <<>> : <<>>[j].opt = "--color"
    BY <1>1 DEF Spoken
  <2>3. QED
    BY <1>2, <1>3, <2>1, <2>2 DEF Printing
<1>8. QED
  BY <1>1, <1>6, <1>7 DEF Readable

\* The invariant holds initially.
LEMMA InitHolds == Init => Structure /\ Progress
<1> HAVE Init
<1>1. IsSeq(<<>>) /\ Len(<<>>) = 0
  BY DEF IsSeq
<1>2. ToSet(<<>>) = {}
  BY DEF ToSet
<1>3. Fresh(parser)
  BY NewParserIs DEF Init
<1>4. IsParser(parser) /\ parser.status = "ok"
  BY <1>3, FreshIs DEF Fresh
<1>5. Structure
  BY <1>1, <1>2, <1>4, RegisteredIs DEF Structure, Init
<1>6. QED
  BY <1>5 DEF Init, Progress

\* main_initialize keeps it.
LEMMA InitializeKeeps ==
  ASSUME Structure, Progress, Initialize
  PROVE  Structure' /\ Progress'
<1>1. /\ phase = "loaded" /\ phase' = "parsing" /\ registry = Registered /\ line = <<>>
      /\ line' = <<>> /\ used' = <<>>
      /\ registry' = [i \in DOMAIN Registered |-> set_devices(Registered[i], get_devices)]
  BY DEF Initialize, Structure
<1>2. PICK c \in BOOLEAN : parser' = [NewParser EXCEPT !.color = c]
  BY DEF Initialize
<1>3. Fresh(parser') /\ IsParser(parser') /\ parser'.status = "ok"
  <2>1. Fresh(parser')
    BY <1>2, NewParserIs
  <2>2. QED
    BY <2>1, FreshIs DEF Fresh
<1>4. DOMAIN Registered = 1 .. Len(Registered) /\ Len(Registered) \in Nat
  BY RegisteredIs, EmptyIs
<1>5. /\ IsSeq(registry') /\ Len(registry') = Len(Registered)
      /\ \A i \in 1 .. Len(registry') : Ready(registry'[i])
  <2> DEFINE R == [i \in 1 .. Len(Registered) |-> set_devices(Registered[i], get_devices)]
  <2>1. R \in Seq({R[i] : i \in 1 .. Len(Registered)}) /\ Len(R) = Len(Registered)
    BY <1>4
  <2>2. \A i \in 1 .. Len(Registered) : Ready(R[i])
    BY GivenDevices
  <2>3. registry' = R
    BY <1>1, <1>4
  <2> HIDE DEF R
  <2>4. QED
    BY <2>1, <2>2, <2>3 DEF IsSeq
<1>6. IsSeq(<<>>) /\ Len(<<>>) = 0 /\ ToSet(<<>>) = {}
  BY DEF IsSeq, ToSet
<1>7. Structure'
  BY <1>1, <1>3, <1>5, <1>6 DEF Structure
<1>8. Parsing(parser', line', registry') /\ Printing(parser', line') /\ Readable(line')
  BY <1>1, <1>3, StartsParsing
<1>9. QED
  BY <1>1, <1>7, <1>8 DEF Progress

\* An option that was read.
Read(p, o) ==
  /\ IsParser(p)
  /\ p.status = "ok" =>
       /\ Parsing(p, Append(line, o), registry) /\ Printing(p, Append(line, o))
       /\ o.opt = "--devices" => parse_devices(o.arg).result = "values"

\* An option that was read keeps it.
LEMMA ConsumeKeeps ==
  ASSUME Structure, Progress, phase = "parsing", NEW o \in Options, NEW p, Read(p, o), Consume(o, p)
  PROVE  Structure' /\ Progress'
<1>1. /\ parser' = p /\ line' = Append(line, o) /\ phase' = PhaseOf(p)
      /\ registry' = registry /\ used' = used
  BY DEF Consume
<1>2. IsParser(p) /\ p.status \in {"ok", "refused", "endless"}
  BY DEF Read, IsParser
<1>3. /\ IsSeq(line') /\ Len(line) \in Nat /\ Len(line') = Len(line) + 1
      /\ DOMAIN line = 1 .. Len(line) /\ DOMAIN line' = 1 .. Len(line) + 1
      /\ line'[Len(line) + 1] = o /\ \A j \in 1 .. Len(line) : line'[j] = line[j]
  BY <1>1, AppendIs DEF Structure
<1>4. \A j : j \in 1 .. Len(line) + 1 <=> j \in 1 .. Len(line) \/ j = Len(line) + 1
  BY <1>3
<1>5. /\ phase' \in {"parsing", "refused", "endless"}
      /\ phase' = "parsing" <=> p.status = "ok"
  BY <1>1, <1>2 DEF PhaseOf
<1>6. \A j \in 1 .. Len(line') : line'[j] \in Options
  BY <1>3, <1>4 DEF Structure
<1>7. Structure'
  BY <1>1, <1>2, <1>3, <1>5, <1>6 DEF Structure
<1>8. p.status = "ok" => Readable(line')
  <2> HAVE p.status = "ok"
  <2>1. Readable(line)
    BY DEF Progress
  <2>2. QED
    BY <1>3, <1>4, <2>1 DEF Readable, Read
<1>9. Progress'
  BY <1>1, <1>5, <1>8 DEF Progress, Read
<1>10. QED
  BY <1>7, <1>9

\* An option that changes neither benchmarks nor printers.
LEMMA SilentOption ==
  ASSUME NEW p, NEW q, IsParser(p), IsParser(q), p.status = "ok",
         NEW o, o.opt \in {"--persistence-mode", "--lock-gpu-clocks"},
         q.global = p.global, q.benchmarks = p.benchmarks, SameOutput(p, q)
  PROVE  Applies(p, q, o) /\ Prints(p, q, o)
<1>1. Applies(p, q, o)
  BY OtherApplies
<1>2. o.opt \notin Formats /\ o.opt # "--quiet" /\ o.opt # "--color" /\ p.color \in BOOLEAN
      /\ p.have_stdout_printer \in BOOLEAN
  BY DEF Formats, IsParser
<1>3. Prints(p, q, o)
  BY <1>2 DEF Prints, SameOutput
<1>4. QED
  BY <1>1, <1>3

\* The device modification options are such options, whether or not a call
\* to a device is refused.
LEMMA ModifyIs ==
  ASSUME NEW p, IsParser(p), NEW o, NEW refused,
         NEW q \in {lock_gpu_clocks(p, o, refused), set_persistence_mode(p, o, refused)}
  PROVE  IsParser(q) /\ q.global = p.global /\ q.benchmarks = p.benchmarks /\ SameOutput(p, q)
<1> DEFINE r == [p EXCEPT !.exit_after_parsing = TRUE]
<1>1. /\ IsParser(r) /\ r.global = p.global /\ r.benchmarks = p.benchmarks /\ SameOutput(p, r)
  BY DEF IsParser, ParserFields, SameOutput
<1> HIDE DEF r
<1>2. q = Fail(r) \/ q = DeviceCalls(r, r.recent, refused)
  BY DEF lock_gpu_clocks, set_persistence_mode, r
<1>3. CASE q = Fail(r)
  BY <1>1, <1>3 DEF Fail, IsParser, ParserFields, SameOutput
<1>4. CASE q = DeviceCalls(r, r.recent, refused)
  <2> DEFINE n == IF refused \in DOMAIN r.recent THEN refused ELSE Len(r.recent)
  <2>1. q = [r EXCEPT !.touched = SubSeq(r.recent, 1, n),
                      !.status = IF refused \in DOMAIN r.recent THEN "refused" ELSE r.status]
    BY <1>4 DEF DeviceCalls
  <2> HIDE DEF n
  <2>2. QED
    BY <1>1, <2>1 DEF IsParser, ParserFields, SameOutput
<1>5. QED
  BY <1>2, <1>3, <1>4

\* An option other than --benchmark that does what it should is read.
LEMMA OptionIsRead ==
  ASSUME Structure, Progress, phase = "parsing", NEW o, o.opt # "--benchmark",
         NEW q, Applies(parser, q, o), Prints(parser, q, o),
         q.status = "ok" /\ o.opt = "--devices" => parse_devices(o.arg).result = "values"
  PROVE  Read(q, o)
<1>1. Parsing(parser, line, registry) /\ Printing(parser, line) /\ IsSeq(line) /\ IsParser(parser)
  BY DEF Progress, Structure
<1>2. IsParser(q)
  BY DEF Applies
<1>3. ASSUME q.status = "ok"
      PROVE  Parsing(q, Append(line, o), registry) /\ Printing(q, Append(line, o))
  BY <1>1, <1>2, <1>3, OptionKeepsParsing, OptionKeepsPrinting
<1>4. QED
  BY <1>2, <1>3 DEF Read

\* add_benchmark keeps the invariant.
LEMMA AddBenchmarkKeeps ==
  ASSUME Structure, Progress, NEW o \in Options, AddBenchmark(o)
  PROVE  Structure' /\ Progress'
<1> DEFINE q == add_benchmark(parser, o)
<1>1. phase = "parsing" /\ o.opt = "--benchmark" /\ Consume(o, q)
  BY DEF AddBenchmark, More
<1>2. /\ Parsing(parser, line, registry) /\ Printing(parser, line) /\ IsParser(parser)
      /\ parser.status = "ok" /\ IsSeq(line) /\ DOMAIN registry = 1 .. Len(registry)
      /\ \A i \in 1 .. Len(registry) : IsBench(registry[i])
  BY <1>1, EmptyIs DEF Structure, Progress, Ready
<1>3. q = Fail(parser) \/ \E i \in 1 .. Len(registry) : q = Cloned(parser, i)
  BY <1>2 DEF add_benchmark
<1> HIDE DEF q
<1>4. ASSUME q = Fail(parser)
      PROVE  Read(q, o)
  <2>1. IsParser(q) /\ q.status = "refused"
    BY <1>2, <1>4, StopIs DEF Fail
  <2>2. QED
    BY <2>1 DEF Read
<1>5. ASSUME \E i \in 1 .. Len(registry) : q = Cloned(parser, i)
      PROVE  Read(q, o)
  <2>1. PICK i \in 1 .. Len(registry) : q = Cloned(parser, i)
    BY <1>5
  <2>2. AddsBenchmark(parser, q, registry[i])
    BY <1>2, <2>1, ClonedAdds DEF Parsing, Noted
  <2>3. IsParser(q) /\ (q.status = "ok" => SameOutput(parser, q))
    BY <2>2 DEF AddsBenchmark
  <2>4. ASSUME q.status = "ok"
        PROVE  Parsing(q, Append(line, o), registry) /\ Printing(q, Append(line, o))
    <3>1. Parsing(q, Append(line, o), registry)
      BY <1>1, <1>2, <2>2, <2>4, StartKeepsParsing
    <3>2. Prints(parser, q, o)
      BY <1>1, <1>2, <2>3, <2>4, StartPrints
    <3>3. QED
      BY <1>2, <2>3, <2>4, <3>1, <3>2, OptionKeepsPrinting
  <2>5. QED
    BY <1>1, <2>3, <2>4 DEF Read
<1>6. Read(q, o)
  BY <1>3, <1>4, <1>5
<1>7. QED
  BY <1>1, <1>6, ConsumeKeeps DEF q

\* So do the device modification options.
LEMMA ModifyDevicesKeeps ==
  ASSUME Structure, Progress, NEW o \in Options, ModifyDevices(o)
  PROVE  Structure' /\ Progress'
<1>1. phase = "parsing" /\ o.opt \in {"--persistence-mode", "--lock-gpu-clocks"}
  BY DEF ModifyDevices, More
<1>2. PICK refused : Consume(o, IF o.opt = "--lock-gpu-clocks"
                                  THEN lock_gpu_clocks(parser, o, refused)
                                  ELSE set_persistence_mode(parser, o, refused))
  BY DEF ModifyDevices
<1>3. PICK q \in {lock_gpu_clocks(parser, o, refused), set_persistence_mode(parser, o, refused)} :
        Consume(o, q)
  BY <1>2
<1>4. IsParser(parser) /\ parser.status = "ok"
  BY <1>1 DEF Structure
<1>5. IsParser(q) /\ q.global = parser.global /\ q.benchmarks = parser.benchmarks
      /\ SameOutput(parser, q)
  BY <1>4, ModifyIs
<1>6. Applies(parser, q, o) /\ Prints(parser, q, o)
  BY <1>1, <1>4, <1>5, SilentOption
<1>7. Read(q, o)
  BY <1>1, <1>6, OptionIsRead
<1>8. QED
  BY <1>1, <1>3, <1>7, ConsumeKeeps

\* So does every other option that is handled.
LEMMA ConfigureKeeps ==
  ASSUME Structure, Progress, NEW o \in Options, Configure(o)
  PROVE  Structure' /\ Progress'
<1> DEFINE q == handle(parser, o)
<1>1. /\ phase = "parsing" /\ Consume(o, q) /\ o.opt \in OptionNames
      /\ o.opt \notin {"--benchmark", "--persistence-mode", "--lock-gpu-clocks", "--list"}
  BY ParserAssumption DEF Configure, More
<1>2. o.opt \in Handled
  BY <1>1 DEF Handled, OptionNames, Setters, Formats
<1>3. IsParser(parser) /\ parser.status = "ok"
  BY <1>1 DEF Structure
<1>4. Applies(parser, q, o) /\ Prints(parser, q, o)
  BY <1>2, <1>3, HandleApplies
<1>5. q.status = "ok" /\ o.opt = "--devices" => parse_devices(o.arg).result = "values"
  BY <1>3, DevicesWereRead
<1> HIDE DEF q
<1>6. Read(q, o)
  BY <1>1, <1>4, <1>5, OptionIsRead
<1>7. QED
  BY <1>1, <1>6, ConsumeKeeps

\* A query leaves.
LEMMA QueryKeeps ==
  ASSUME Structure, Progress, NEW o \in Options, Query(o)
  PROVE  Structure' /\ Progress'
<1>1. /\ phase = "parsing" /\ phase' = "exited" /\ line' = Append(line, o)
      /\ parser' = parser /\ registry' = registry /\ used' = used
  BY DEF Query, More
<1>2. /\ IsSeq(line') /\ Len(line) \in Nat /\ Len(line') = Len(line) + 1
      /\ line'[Len(line) + 1] = o /\ \A j \in 1 .. Len(line) : line'[j] = line[j]
  BY <1>1, AppendIs DEF Structure
<1>3. \A j \in 1 .. Len(line') : line'[j] \in Options
  <2>1. \A j \in 1 .. Len(line') : j \in 1 .. Len(line) \/ j = Len(line) + 1
    BY <1>2
  <2>2. QED
    BY <1>2, <2>1 DEF Structure
<1>4. Structure'
  BY <1>1, <1>2, <1>3 DEF Structure
<1>5. QED
  BY <1>1, <1>4 DEF Progress

\* Without a --benchmark the whole line is in every scope.
LEMMA ScopeOfAll ==
  ASSUME NEW s, IsSeq(s), Cardinality(StartsOf(s)) = 0, NEW i
  PROVE  ScopeOf(s, i) = ScopeOf(s, 0)
<1>1. /\ StartsOf(s) \in SUBSET (1 .. Len(s)) /\ Len(s) \in Nat /\ DOMAIN s = 1 .. Len(s)
  BY ScopesAre, EmptyIs
<1>2. ASSUME NEW j \in DOMAIN s
      PROVE  Rank(StartsOf(s), j) = 0
  <2>1. j \in Nat
    BY <1>1
  <2>2. Rank(StartsOf(s), j) \in 0 .. 0
    BY <1>1, <2>1, RankIs
  <2>3. QED
    BY <2>2
<1>3. QED
  BY <1>2 DEF ScopeOf

\* The parser when every benchmark has been added.
LEMMA AllAdded ==
  ASSUME Structure, Progress, phase = "parsing"
  PROVE  LET p == AddAll(parser)
         IN  /\ IsParser(p)
             /\ p.status = "ok" => FromLine(p, line, registry) /\ Printing(p, line)
<1> DEFINE p == AddAll(parser)
<1>1. /\ IsParser(parser) /\ parser.status = "ok" /\ IsSeq(line) /\ IsSeq(registry)
      /\ \A i \in 1 .. Len(registry) : IsBench(registry[i])
      /\ FromLine(parser, line, registry) /\ Printing(parser, line)
      /\ Noted(parser.global, line)
      /\ Len(parser.benchmarks) = Cardinality(StartsOf(line)) /\ IsSeq(parser.benchmarks)
  BY DEF Structure, Progress, Parsing, Ready, IsParser
<1>2. CASE parser.benchmarks # <<>>
  BY <1>1, <1>2 DEF AddAll
<1>3. CASE parser.benchmarks = <<>>
  <2>1. AddsFirst(parser, p, Len(registry))
    BY <1>1, <1>3, AddAllAdds DEF Noted
  <2> HIDE DEF p
  <2>2. ASSUME p.status = "ok"
        PROVE  FromLine(p, line, registry) /\ Printing(p, line)
    <3>1. /\ SameOutput(parser, p) /\ Len(p.benchmarks) = Len(registry)
          /\ \A i \in 1 .. Len(registry) :
               Reflects(p.benchmarks[i], registry[i], parser.global, 1 .. Len(parser.global))
      BY <2>1, <2>2 DEF AddsFirst
    <3>2. Printing(p, line)
      BY <1>1, <3>1, SameOutputPrinting
    <3>3. Cardinality(StartsOf(line)) = 0 /\ Len(line) \in Nat /\ Len(parser.global) \in Nat
      BY <1>1, <1>3, EmptyIs DEF IsParser
    <3>4. ASSUME NEW i \in 1 .. Len(registry)
          PROVE  Reflects(p.benchmarks[i], registry[i], line, ScopeOf(line, i))
      <4>1. ScopeOf(line, i) = ScopeOf(line, 0)
        BY <1>1, <3>3, ScopeOfAll
      <4>2. ScopeOf(line, 0) \in SUBSET Int /\ 1 .. Len(parser.global) \in SUBSET Int
        BY <1>1, <3>3, ScopesAre
      <4>3. \A k \in Keys :
              Agree(parser.global, 1 .. Len(parser.global), line, ScopeOf(line, 0), k)
        BY <1>1 DEF Noted
      <4>4. Reflects(p.benchmarks[i], registry[i], line, ScopeOf(line, 0))
        BY <3>1, <4>2, <4>3, ReflectsAlike
      <4>5. QED
        BY <4>1, <4>4
    <3>5. FromLine(p, line, registry)
      BY <3>1, <3>4 DEF FromLine
    <3>6. QED
      BY <3>2, <3>5
  <2>3. IsParser(p)
    BY <2>1 DEF AddsFirst
  <2>4. QED
    BY <2>2, <2>3 DEF p
<1>4. QED
  BY <1>2, <1>3

\* The devices of the benchmarks are devices of the machine.
LEMMA DevicesOfIs ==
  ASSUME NEW p, IsParser(p)
  PROVE  DevicesOf(p) \in SUBSET (0 .. NumDevices - 1)
<1>1. DOMAIN p.benchmarks = 1 .. Len(p.benchmarks)
  BY EmptyIs DEF IsParser
<1>2. \A i \in DOMAIN p.benchmarks : ToSet(p.benchmarks[i].devices) \subseteq 0 .. NumDevices - 1
  BY <1>1 DEF IsParser, IsBench
<1>3. QED
  BY <1>2 DEF DevicesOf

\* The end of parse_impl keeps the invariant.
LEMMA FinishParseKeeps ==
  ASSUME Structure, Progress, FinishParse
  PROVE  Structure' /\ Progress'
<1> DEFINE p == AddAll(parser)
           q == AddDefaultPrinter(p)
<1>1. phase = "parsing" /\ registry' = registry /\ line' = line
  BY DEF FinishParse
<1>2. /\ IsParser(p)
      /\ p.status = "ok" => FromLine(p, line, registry) /\ Printing(p, line)
  BY <1>1, AllAdded
<1> HIDE DEF p
<1>3. CASE parser.exit_after_parsing
  <2>1. phase' = "exited" /\ parser' = parser /\ used' = used
    BY <1>3 DEF FinishParse
  <2>2. Structure'
    BY <1>1, <2>1 DEF Structure
  <2>3. QED
    BY <2>1, <2>2 DEF Progress
<1>4. CASE ~parser.exit_after_parsing /\ p.status # "ok"
  <2>1. phase' = p.status /\ parser' = p /\ used' = used
    BY <1>4 DEF FinishParse, p
  <2>2. p.status \in {"refused", "endless"}
    BY <1>2, <1>4 DEF IsParser
  <2>3. Structure'
    BY <1>1, <1>2, <2>1, <2>2 DEF Structure
  <2>4. QED
    BY <2>1, <2>2, <2>3 DEF Progress
<1>5. CASE ~parser.exit_after_parsing /\ p.status = "ok"
  <2>1. phase' = "parsed" /\ parser' = q /\ used' = Ascending(DevicesOf(p))
    BY <1>5 DEF FinishParse, update_used_device_state, DevicesOf, p
  <2>2. IsParser(q) /\ q.status = "ok" /\ q.benchmarks = p.benchmarks
    BY <1>2, <1>5, DefaultPrinterIs
  <2>3. IsSeq(line) /\ NumDevices \in Nat
    BY ParserAssumption DEF Structure
  <2>4. Printed(q, line)
    BY <1>2, <1>5, <2>3, PrintingEnds
  <2> HIDE DEF q
  <2>5. FromLine(q, line, registry) /\ DevicesOf(q) = DevicesOf(p)
    BY <1>2, <1>5, <2>2 DEF FromLine, DevicesOf
  <2>6. DevicesOf(p) \in SUBSET (0 .. NumDevices - 1)
    BY <1>2, DevicesOfIs
  <2>7. IsAscending(used', DevicesOf(p))
    BY <2>1, <2>3, <2>6, AscendingIs
  <2>8. ToSet(used') \subseteq 0 .. NumDevices - 1
    BY <2>6, <2>7 DEF IsAscending
  <2>9. Structure'
    BY <1>1, <2>1, <2>2, <2>8 DEF Structure
  <2>10. Readable(line)
    BY <1>1 DEF Progress
  <2>11. IsAscending(used', DevicesOf(parser'))
    BY <2>1, <2>5, <2>7
  <2>12. FromLine(parser', line', registry') /\ Printed(parser', line')
    BY <1>1, <2>1, <2>4, <2>5
  <2>13. Progress'
    BY <1>1, <2>1, <2>10, <2>11, <2>12 DEF Progress
  <2>14. QED
    BY <2>9, <2>13
<1>6. QED
  BY <1>3, <1>4, <1>5

\* Every step keeps it.
LEMMA NextKeeps ==
  ASSUME Structure, Progress, [Next]_vars
  PROVE  Structure' /\ Progress'
<1>1. CASE Initialize
  BY <1>1, InitializeKeeps
<1>2. ASSUME NEW o \in Options, AddBenchmark(o) \/ ModifyDevices(o) \/ Query(o) \/ Configure(o)
      PROVE  Structure' /\ Progress'
  BY <1>2, AddBenchmarkKeeps, ModifyDevicesKeeps, QueryKeeps, ConfigureKeeps
<1>3. CASE FinishParse
  BY <1>3, FinishParseKeeps
<1>4. CASE UNCHANGED vars
  <2>1. /\ parser' = parser /\ line' = line /\ phase' = phase /\ registry' = registry
        /\ used' = used
    BY <1>4 DEF vars
  <2>2. Structure'
    BY <2>1 DEF Structure
  <2>3. Progress'
    BY <2>1 DEF Progress
  <2>4. QED
    BY <2>2, <2>3
<1>5. QED
  BY <1>1, <1>2, <1>3, <1>4 DEF Next, Ended

\* The invariant holds in every reachable state.
LEMMA Inductive == Spec => [](Structure /\ Progress)
<1>1. Init => Structure /\ Progress
  BY InitHolds
<1>2. Structure /\ Progress /\ [Next]_vars => (Structure /\ Progress)'
  BY NextKeeps
<1>3. QED
  BY <1>1, <1>2, PTL DEF Spec

-----------------------------------------------------------------------------
(* What holds in every state                                               *)

\* Types of the parser, and: a parser that is not parsing has stopped for a
\* reason it records.
THEOREM TypeCorrect == Spec => []TypeOK
<1>1. Structure => TypeOK
  <2> HAVE Structure
  <2>1. /\ IsSeq(line) /\ IsSeq(registry) /\ IsSeq(parser.benchmarks) /\ IsSeq(Registered)
        /\ NumDevices \in Nat
    BY RegisteredIs DEF Structure, IsParser
  <2>2. /\ DOMAIN line = 1 .. Len(line) /\ DOMAIN registry = 1 .. Len(registry)
        /\ DOMAIN Registered = 1 .. Len(Registered)
        /\ DOMAIN parser.benchmarks = 1 .. Len(parser.benchmarks)
    BY <2>1, EmptyIs
  <2>3. \A j \in DOMAIN line : line[j].opt \in OptionNames
    BY <2>2, ParserAssumption DEF Structure
  <2>4. \A i \in DOMAIN parser.benchmarks :
          DOMAIN parser.benchmarks[i].settings = DOMAIN Defaults
    BY <2>2 DEF Structure, IsParser, IsBench
  <2>5. ToSet(used) \subseteq ToSet(get_devices)
    BY <2>1, AllDevices DEF Structure
  <2>6. QED
    BY <2>2, <2>3, <2>4, <2>5 DEF Structure, TypeOK
<1>2. QED
  BY <1>1, Inductive, PTL

\* Every benchmark about to run has the settings and the criterion parameters
\* the last option in its scope gives, and the registered ones where there is
\* none, whatever was given to other benchmarks and however often its own
\* options were replayed (option_parser.cu, replay_global_args).
THEOREM Settings == Spec => []SettingsInForce
<1>1. Structure /\ Progress => SettingsInForce
  <2> HAVE Structure /\ Progress
  <2>1. IsSeq(line) /\ IsSeq(registry) /\ IsSeq(parser.benchmarks)
    BY DEF Structure, IsParser
  <2>2. ASSUME phase \in {"parsing", "parsed"}, NEW i \in DOMAIN parser.benchmarks
        PROVE  \E origin \in Origins(parser.benchmarks[i]) :
                 Obeys(i, parser.benchmarks[i], origin)
    <3> DEFINE b == parser.benchmarks[i]
    <3>1. FromLine(parser, line, registry)
      BY <2>2 DEF Progress, Parsing
    <3>2. i \in 1 .. Len(parser.benchmarks)
      BY <2>1, EmptyIs
    <3>3. PICK r \in 1 .. Len(registry) : Reflects(b, registry[r], line, ScopeOf(line, i))
      BY <3>1, <3>2 DEF FromLine
    <3>4. registry[r] \in ToSet(registry)
      BY <2>1, EmptyIs DEF ToSet
    <3>5. registry[r] \in Origins(b)
      BY <3>3, <3>4 DEF Origins, Reflects
    <3>6. Obeys(i, b, registry[r])
      BY <2>1, <3>3, SettingsFollow
    <3>7. QED
      BY <3>5, <3>6
  <2>3. QED
    BY <2>2 DEF SettingsInForce, Obeys
<1>2. QED
  BY <1>1, Inductive, PTL

\* A benchmark runs on the devices its last --devices gives, or on all; a
\* CPU-only one on none; the devices reported as used are exactly those of the
\* benchmarks, once each (option_parser.cu, update_used_device_state).
THEOREM Devices == Spec => []DevicesInForce
<1>1. Structure /\ Progress => DevicesInForce
  <2> HAVE Structure /\ Progress
  <2>1. /\ IsSeq(line) /\ IsParser(parser) /\ IsSeq(parser.benchmarks)
        /\ \A j \in DOMAIN line : line[j] \in Options
    BY EmptyIs DEF Structure, IsParser
  <2>2. ASSUME phase \in {"parsing", "parsed"}, NEW i \in DOMAIN parser.benchmarks
        PROVE  LET b == parser.benchmarks[i]
                   j == LastIn(i, LAMBDA o : o.opt = "--devices")
               IN  ToSet(b.devices) =
                     CASE b.cpuOnly -> {}
                       [] j = 0 /\ ~b.cpuOnly -> 0 .. NumDevices - 1
                       [] OTHER -> DevicesGiven(line[j].arg)
    <3> DEFINE b == parser.benchmarks[i]
    <3>1. FromLine(parser, line, registry) /\ Readable(line)
      BY <2>2 DEF Progress, Parsing
    <3>2. i \in 1 .. Len(parser.benchmarks)
      BY <2>1, EmptyIs
    <3>3. PICK r \in 1 .. Len(registry) : Reflects(b, registry[r], line, ScopeOf(line, i))
      BY <3>1, <3>2 DEF FromLine
    <3>4. Ready(registry[r]) /\ IsBench(b)
      BY <2>1, <2>2, <3>2 DEF Structure, IsParser
    <3> HIDE DEF b
    <3>5. /\ IsBench(registry[r])
          /\ ~registry[r].cpuOnly => ToSet(registry[r].devices) = 0 .. NumDevices - 1
      BY <3>4 DEF Ready
    <3>6. LET j == LastIn(i, LAMBDA o : o.opt = "--devices")
          IN  ToSet(b.devices) =
                     CASE b.cpuOnly -> {}
                       [] j = 0 /\ ~b.cpuOnly -> 0 .. NumDevices - 1
                       [] OTHER -> DevicesGiven(line[j].arg)
      BY <2>1, <3>1, <3>3, <3>4, <3>5, DevicesFollow
    <3>7. QED
      BY <3>6 DEF b
  <2>3. phase = "parsed" =>
          /\ \A m, n \in DOMAIN used : m < n => used[m] < used[n]
          /\ ToSet(used) = UNION {ToSet(parser.benchmarks[i].devices) :
                                    i \in DOMAIN parser.benchmarks}
    BY DEF Progress, IsAscending, DevicesOf
  <2>4. QED
    BY <2>2, <2>3 DEF DevicesInForce
<1>2. QED
  BY <1>1, Inductive, PTL

\* The printers are those of the line in their order, and a markdown one on
\* stdout exactly when nothing was to go to stdout and --quiet was not given;
\* a markdown printer on stdout has colour once --color was given before it
\* (option_parser.cu, the add_*_printer functions).
THEOREM Printers == Spec => []PrintersAsAsked
<1>1. Progress => PrintersAsAsked
  BY PrintedIs DEF Progress
<1>2. QED
  BY <1>1, Inductive, PTL
=============================================================================
