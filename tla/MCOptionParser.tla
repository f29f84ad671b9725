--------------------------- MODULE MCOptionParser ---------------------------
(***************************************************************************)
(* A GPU benchmark with a type axis and an int64 axis, a CPU-only one with *)
(* a float64 and a string axis, two devices.  Words of six bits stand for  *)
(* an int64, so that the largest power of two fits TLC's integers.         *)
(***************************************************************************)
EXTENDS OptionParser

Word(text)   == [text |-> text, numeric |-> FALSE, number |-> 0]
Number(n, s) == [text |-> s, numeric |-> TRUE, number |-> n]

Zero == Number(0, "0")   One == Number(1, "1")   Five == Number(5, "5")

Spec1(w)  == [kind |-> "single", words |-> <<w>>]
Axis(name, flag, kind, words) ==
  [opt |-> "--axis",
   arg |-> [name |-> name, flag |-> flag, kind |-> kind, words |-> words]]
Opt(o, w) == [opt |-> o, arg |-> w]
Flag(o)   == [opt |-> o]
Param(p, w) == [opt |-> "--param", param |-> p, arg |-> w]

MCRegistered ==
  << NewBenchmark("A", FALSE,
       add_int64_axis(set_type_axes_names(TypeAxesOf(<<<<"I8", "I16">>>>), <<"Type">>),
                      "N", <<1, 2>>, TRUE)),
     set(NewBenchmark("B", TRUE,
       add_string_axis(add_float64_axis(<<>>, "F", <<50>>), "N", <<"a">>)),
       "min_samples", 3) >>

MCParamTypes ==
  [p \in {"max-noise", "min-time", "max-angle", "min-r2"} |-> "float64"]

\* Every kind of option, twice those whose order matters.  Axis N is an int64
\* axis of A and a string axis of B.
MCOptions ==
  { Opt("--benchmark", Word("A")), Opt("--benchmark", One),
    Axis("N", "pow2", "list", <<Zero, Five>>),
    Axis("N", "", "range", <<Zero, Five, Number(2, "2")>>),
    Axis("F", "", "range", <<Zero, One, Number(2, "2")>>),
    Axis("Type", "", "single", <<Word("I16")>>),
    Axis("N", "", "range", <<Zero, One, Zero>>),
    Opt("--devices", Spec1(One)), Opt("--devices", [kind |-> "all"]),
    Opt("--devices", [kind |-> "range", words |-> <<Zero, One>>]),
    Opt("--devices", [kind |-> "list", words |-> <<One, Number(2, "2")>>]),
    Opt("--min-samples", Five), Opt("--min-samples", One),
    Flag("--profile"), Flag("--run-once"),
    Opt("--stopping-criterion", Word("entropy")),
    Param("max-angle", One), Opt("--throttle-threshold", Five),
    Opt("--lock-gpu-clocks", Word("base")), Opt("--persistence-mode", Zero),
    Flag("--list"), Flag("--quiet"), Flag("--color"),
    Opt("--md", Word("stdout")), Opt("--json", Word("closed")) }

MCLockOptions ==
  { Opt("--benchmark", Word("A")), Opt("--devices", Spec1(Zero)),
    Opt("--devices", Spec1(One)), Opt("--lock-gpu-clocks", Word("base")) }
=============================================================================
