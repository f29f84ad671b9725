------------------------------- MODULE MCResults ------------------------------
(***************************************************************************)
(* Instance of Results.                                                    *)
(***************************************************************************)
EXTENDS Results

PrintersValue ==
  <<[format |-> "markdown", binary |-> FALSE], [format |-> "csv", binary |-> FALSE],
    [format |-> "json", binary |-> TRUE]>>

DevicesValue == <<0, 1, 2>>

UsedValue == <<0, 1>>

\* A benchmark whose axis has no values, one on two devices with an axis of
\* powers of two, and a CPU-only one with an axis of strings.
BenchesValue ==
  LET state(device, axes) ==
        [device |-> device, axes |-> axes, skipped |-> FALSE, summaries |-> <<>>]
      n(v) == <<[name |-> "n", pow2 |-> TRUE, value |-> v]>>
  IN  <<[name |-> "none", devices |-> <<0>>, states |-> <<>>],
        [name |-> "copy", devices |-> <<0, 1>>,
         states |-> <<state(<<0>>, n(3)), state(<<0>>, n(4)),
                      state(<<1>>, n(3)), state(<<1>>, n(4))>>],
        [name |-> "parse", devices |-> <<>>,
         states |-> <<state(<<>>, <<[name |-> "s", pow2 |-> FALSE, value |-> "a"]>>)>>]>>

\* What a measurement with sample times collects.
Time == [tag |-> "nv/cold/time", name |-> "GPU Time", hint |-> "duration", hide |-> "",
         type |-> "float64", value |-> -5]

TimedValue == {<<Time, [Time EXCEPT !.tag = "nv/cold/walltime", !.hide = "Hidden by default."]>>}

\* A column of the user's, given twice; and one whose user has forgotten the value.
UntimedValue ==
  LET size == [Time EXCEPT !.tag = "size", !.name = "", !.hint = "bytes", !.type = "int64",
                           !.value = 12]
  IN  {<<size, [size EXCEPT !.value = 3]>>, <<[Time EXCEPT !.tag = "odd", !.type = "none"]>>}
=============================================================================
