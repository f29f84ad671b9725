-------------------------------- MODULE Axes --------------------------------
(***************************************************************************)
(* The axes of a benchmark (axes_metadata.cxx, int64_axis.cxx,             *)
(* float64_axis.cxx, string_axis.cxx, type_axis.cxx, range.cuh) and the    *)
(* values the command line gives them (option_parser.cu).                  *)
(*                                                                         *)
(* A word of the command line is a record [text, numeric, number]: it is   *)
(* numeric when std::stoi and its kin find a number at its start, which is *)
(* all they look at.  A value specification is a record [kind, words]: its *)
(* brackets and separators decide the kind.  A float64 is an integer       *)
(* number of hundredths.                                                   *)
(***************************************************************************)
EXTENDS Integers, Sequences, SequencesExt

CONSTANT WordSize   \* bits of an int64_t

ASSUME WordSizeAssumption == WordSize \in Nat \ {0}

\* A parser returns values, throws, or does not return.
Values(v) == [result |-> "values", values |-> v]
Refused   == [result |-> "refused", values |-> <<>>]
Endless   == [result |-> "endless", values |-> <<>>]

-----------------------------------------------------------------------------
(* Values *)

parse(type, word) ==
  CASE type = "string"  -> word.text
    [] type = "float64" -> 100 * word.number
    [] OTHER            -> word.number

\* range: start, start + stride, ... while not past the end, which is padded
\* by half a stride for floating point.
range_(type, first, last, stride) ==
  LET room == 2 * (last - first) + (IF type = "float64" THEN stride ELSE 0)
  IN  CASE room < 0    -> Values(<<>>)
        [] room >= 0 /\ stride <= 0 -> Endless
        [] OTHER       -> Values([i \in 1 .. (room \div (2 * stride)) + 1
                                    |-> first + (i - 1) * stride])

Parsed(type, words) == [i \in DOMAIN words |-> parse(type, words[i])]

AllParse(type, words) ==
  type = "string" \/ \A i \in DOMAIN words : words[i].numeric

parse_list_values(type, words) ==
  IF AllParse(type, words) THEN Values(Parsed(type, words)) ELSE Refused

\* Numbers only; two or three of them.  The default stride is one.
parse_range_values(type, words) ==
  IF type = "string" \/ ~AllParse(type, words) \/ Len(words) \notin {2, 3}
    THEN Refused
    ELSE LET v == Parsed(type, words)
             one == IF type = "float64" THEN 100 ELSE 1
         IN  range_(type, v[1], v[2], IF Len(v) = 3 THEN v[3] ELSE one)

\* "[a,b]" is a list, "[a:b]" a range, "a" or "[a]" a single value; anything
\* else is refused, a list without brackets included.
parse_values(type, spec) ==
  CASE spec.kind \in {"list", "single"} -> parse_list_values(type, spec.words)
    [] spec.kind = "range"              -> parse_range_values(type, spec.words)
    [] OTHER                            -> Refused

-----------------------------------------------------------------------------
(* Axes: records [name, type, pow2, inputs, values, active].  Inputs of a  *)
(* type axis are never removed, only deactivated.                          *)

\* 1 << exponent in WordSize bits of two's complement.
compute_pow2(exponent) ==
  IF exponent = WordSize - 1 THEN -(2 ^ exponent) ELSE 2 ^ exponent

Done(axis) == [result |-> "values", axis |-> axis]
Not(outcome, axis) == [result |-> outcome.result, axis |-> axis]

\* int64_axis::set_inputs.
set_inputs(axis, inputs, pow2) ==
  IF pow2 /\ \E i \in DOMAIN inputs : inputs[i] \notin 0 .. WordSize - 1
    THEN Not(Refused, axis)
    ELSE Done([axis EXCEPT
           !.pow2 = pow2, !.inputs = inputs,
           !.values = IF pow2 THEN [i \in DOMAIN inputs |-> compute_pow2(inputs[i])]
                              ELSE inputs])

\* Index of a type by its input string; 0 when get_type_index throws.
get_type_index(axis, input) == SelectInSeq(axis.inputs, LAMBDA s : s = input)

\* Mutant of set_active_inputs: types stay active once they are.
set_active_inputs_Kept(axis, inputs) ==
  IF \E i \in DOMAIN inputs : get_type_index(axis, inputs[i]) = 0
    THEN Not(Refused, axis)
    ELSE Done([axis EXCEPT !.active =
           @ \cup {get_type_index(axis, inputs[i]) : i \in DOMAIN inputs}])

set_active_inputs(axis, inputs) ==
  IF \E i \in DOMAIN inputs : get_type_index(axis, inputs[i]) = 0
    THEN Not(Refused, axis)
    ELSE Done([axis EXCEPT !.active =
           {get_type_index(axis, inputs[i]) : i \in DOMAIN inputs}])

update_int64_axis(axis, flag, spec) ==
  LET parsed == parse_values("int64", spec)
  IN  IF flag \notin {"", "pow2"} \/ parsed.result # "values"
        THEN Not(IF flag \in {"", "pow2"} THEN parsed ELSE Refused, axis)
        ELSE set_inputs(axis, parsed.values, flag = "pow2")

\* float64 and string axes take no flag and their values as they are.
update_plain_axis(axis, flag, spec) ==
  LET parsed == parse_values(axis.type, spec)
  IN  IF flag # "" \/ parsed.result # "values"
        THEN Not(IF flag = "" THEN parsed ELSE Refused, axis)
        ELSE Done([axis EXCEPT !.inputs = parsed.values, !.values = parsed.values])

update_type_axis(axis, flag, spec) ==
  LET parsed == parse_values("string", spec)
  IN  IF flag # "" \/ parsed.result # "values" THEN Not(Refused, axis)
      ELSE set_active_inputs(axis, parsed.values)

updated_axis(axis, flag, spec) ==
  CASE axis.type = "type"  -> update_type_axis(axis, flag, spec)
    [] axis.type = "int64" -> update_int64_axis(axis, flag, spec)
    [] OTHER               -> update_plain_axis(axis, flag, spec)

\* First axis with the name; 0 when get_axis throws.
get_axis(axes, name) == SelectInSeq(axes, LAMBDA a : a.name = name)

-----------------------------------------------------------------------------
(* Declaring axes *)

DefaultNames == <<"T", "U", "V", "W">>

\* axes_metadata(type_list): one axis per type list, every type active.
TypeAxesOf(lists) ==
  [i \in DOMAIN lists |->
    [name |-> DefaultNames[i], type |-> "type", pow2 |-> FALSE,
     inputs |-> lists[i], values |-> <<>>, active |-> DOMAIN lists[i]]]

\* Renames the type axes; throws unless there is one name for each axis.
set_type_axes_names(axes, names) ==
  [i \in DOMAIN axes |-> IF Len(names) = Len(axes)
                           THEN [axes[i] EXCEPT !.name = names[i]] ELSE axes[i]]

Empty(name, type) ==
  [name |-> name, type |-> type, pow2 |-> FALSE,
   inputs |-> <<>>, values |-> <<>>, active |-> {}]

add_int64_axis(axes, name, data, pow2) ==
  Append(axes, set_inputs(Empty(name, "int64"), data, pow2).axis)

add_float64_axis(axes, name, data) ==
  Append(axes, [Empty(name, "float64") EXCEPT !.inputs = data, !.values = data])

add_string_axis(axes, name, data) ==
  Append(axes, [Empty(name, "string") EXCEPT !.inputs = data, !.values = data])
=============================================================================
