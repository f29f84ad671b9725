-------------------------- MODULE CriterionRegistry --------------------------
(***************************************************************************)
(* The registry of stopping criteria (criterion_manager.cxx) and the way   *)
(* parameters reach a criterion (stopping_criterion.cxx, .cuh, and         *)
(* named_values.cxx underneath).                                           *)
(*                                                                         *)
(* Every measurement of the process looks its criterion up by name in one  *)
(* registry and initializes that shared object with the parameters of its  *)
(* own benchmark.  A criterion keeps its parameters as a list of entries,  *)
(* as named_values does: a lookup finds the first entry with the name, an  *)
(* update removes that entry and appends a new one.                        *)
(***************************************************************************)
EXTENDS Naturals, Sequences, SequencesExt

CONSTANTS
  Names,        \* parameter names
  Types,        \* the alternatives of named_values::value_type
  Values,       \* values of any of them
  Criteria,     \* names of the registered criteria
  Defaults,     \* the entries each criterion is constructed with
  Benchmarks,   \* records [criterion, given]: a name and a list of entries
  MaxMeasurements  \* bound: measurements

Entry == [name : Names, type : Types, value : Values]

EntryNames(entries) == {entries[i].name : i \in DOMAIN entries}

NoDuplicates(entries) ==
  \A i, j \in DOMAIN entries : entries[i].name = entries[j].name => i = j

ASSUME RegistryAssumption ==
  /\ MaxMeasurements \in Nat
  /\ Defaults \in [Criteria -> Seq(Entry)]
  /\ Benchmarks \subseteq [criterion : STRING, given : Seq(Entry)]
  /\ \A c \in Criteria : NoDuplicates(Defaults[c])
  /\ \A b \in Benchmarks : NoDuplicates(b.given)

VARIABLES
  params,     \* m_params of every criterion
  current,    \* the benchmark being measured, or None
  pending,    \* names set_from() has still to visit
  outcome,    \* "idle", "setting", "running", "mismatch" or "unknown"
  measured    \* measurements started

registryVars == <<params, current, pending, outcome, measured>>

None == [criterion |-> "", given |-> <<>>]

-----------------------------------------------------------------------------
(* named_values                                                            *)

IndexOf(entries, name) ==
  SelectInSeq(entries, LAMBDA e : e.name = name)

HasValue(entries, name) == IndexOf(entries, name) # 0

Lookup(entries, name) == entries[IndexOf(entries, name)]

\* Mutant of Removed: set_from() appends without removing.
Removed_Nothing(entries, name) == entries

\* remove_value: the first entry with the name, if any.
Removed(entries, name) ==
  IF HasValue(entries, name) THEN RemoveAt(entries, IndexOf(entries, name))
                             ELSE entries

-----------------------------------------------------------------------------

RegistryInit ==
  /\ params = Defaults
  /\ current = None /\ pending = <<>>
  /\ outcome = "idle" /\ measured = 0

\* Mutant of Measure: looking up an unknown name inserts it.
Measure_Inserts(b) ==
  /\ outcome \in {"idle", "mismatch", "unknown"} /\ measured < MaxMeasurements
  /\ measured' = measured + 1
  /\ params' = [c \in DOMAIN params \cup {b.criterion} |->
                  IF c \in DOMAIN params THEN params[c] ELSE <<>>]
  /\ outcome' = "setting" /\ current' = b
  /\ pending' = [i \in DOMAIN params'[b.criterion] |->
                   params'[b.criterion][i].name]

\* Constructor of a measurement: get_criterion(name) throws for a name that is
\* not registered; initialize() then starts set_from() over the names the
\* criterion has at that moment.
Measure(b) ==
  /\ outcome \in {"idle", "mismatch", "unknown"} /\ measured < MaxMeasurements
  /\ measured' = measured + 1
  /\ IF b.criterion \in Criteria
       THEN /\ outcome' = "setting" /\ current' = b
            /\ pending' = [i \in DOMAIN params[b.criterion] |->
                             params[b.criterion][i].name]
       ELSE /\ outcome' = "unknown" /\ current' = None /\ pending' = <<>>
  /\ UNCHANGED params

\* Mutant of SetNext: a value of another type is taken over.
SetNext_AnyType ==
  /\ outcome = "setting" /\ pending # <<>>
  /\ LET name == Head(pending)
         mine == params[current.criterion]
     IN  IF ~HasValue(current.given, name)
           THEN UNCHANGED params
           ELSE params' = [params EXCEPT ![current.criterion] =
                   Append(Removed(mine, name), Lookup(current.given, name))]
  /\ pending' = Tail(pending)
  /\ UNCHANGED <<current, outcome, measured>>

\* set_from(), one name: skipped when the benchmark does not have it, an
\* exception when the types differ, otherwise replaced.
SetNext ==
  /\ outcome = "setting" /\ pending # <<>>
  /\ LET name == Head(pending)
         mine == params[current.criterion]
     IN  IF ~HasValue(current.given, name)
           THEN UNCHANGED <<params, outcome>>
         ELSE IF Lookup(mine, name).type # Lookup(current.given, name).type
           THEN outcome' = "mismatch" /\ UNCHANGED params
         ELSE /\ params' = [params EXCEPT ![current.criterion] =
                   Append(Removed(mine, name), Lookup(current.given, name))]
              /\ UNCHANGED outcome
  /\ pending' = Tail(pending)
  /\ UNCHANGED <<current, measured>>

\* initialize() goes on to do_initialize() and the trials begin.
BeginTrials ==
  /\ outcome = "setting" /\ pending = <<>>
  /\ outcome' = "running"
  /\ UNCHANGED <<params, current, pending, measured>>

EndMeasurement ==
  /\ outcome = "running"
  /\ outcome' = "idle"
  /\ UNCHANGED <<params, current, pending, measured>>

\* The process ends after its last measurement.
RegistryFinished ==
  /\ outcome \in {"idle", "mismatch", "unknown"} /\ measured = MaxMeasurements
  /\ UNCHANGED registryVars

RegistryNext ==
  \/ \E b \in Benchmarks : Measure(b)
  \/ SetNext \/ BeginTrials \/ EndMeasurement \/ RegistryFinished

RegistrySpec == RegistryInit /\ [][RegistryNext]_registryVars

-----------------------------------------------------------------------------

Shape(entries) == {[name |-> e.name, type |-> e.type] : e \in ToSet(entries)}

\* However many benchmarks with whatever parameters have used a criterion,
\* and in the middle of set_from() too, its parameters keep the names and
\* types they were constructed with, each exactly once (stopping_criterion.cuh:
\* "Parameters in other that do not correspond to parameters in this are
\* ignored").
KeepsShape(c) ==
  NoDuplicates(params[c]) /\ Shape(params[c]) = Shape(Defaults[c])

RegistryTypeOK ==
  /\ params \in [Criteria -> Seq(Entry)] /\ \A c \in Criteria : KeepsShape(c)
  /\ current \in Benchmarks \union {None}
  /\ pending \in Seq(Names)
  /\ outcome \in {"idle", "setting", "running", "mismatch", "unknown"}
  /\ measured \in 0 .. MaxMeasurements

\* While a benchmark is being measured, every parameter it gives and its
\* criterion knows is in force, whatever ran before it.
GivenParametersInForce ==
  outcome = "running" =>
    \A e \in ToSet(current.given) :
      HasValue(params[current.criterion], e.name) =>
        Lookup(params[current.criterion], e.name) = e

\* stopping_criterion.cuh: params are the "Default values for all parameters
\* of the criterion".  A parameter the measured benchmark does not give has
\* its default value.
UngivenParametersAreDefault ==
  outcome = "running" =>
    \A e \in ToSet(Defaults[current.criterion]) :
      HasValue(current.given, e.name)
        \/ Lookup(params[current.criterion], e.name) = e

=============================================================================
