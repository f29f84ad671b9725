--------------------------- MODULE StateGenerator ---------------------------
(***************************************************************************)
(* How a benchmark's axes become states (detail/state_generator.cxx), and  *)
(* the compile-time enumeration of the same type axes that the states must *)
(* agree with (detail/type_list_impl.cuh).                                 *)
(*                                                                         *)
(* A benchmark is a record                                                 *)
(*   types   -- for each type axis, in axis_index order, its activity mask *)
(*   others  -- for each other axis, in the order added, its size          *)
(*   devices -- benchmark_base::m_devices                                  *)
(* An axis value is its index on the axis.  A state keeps its type and its *)
(* other values apart, where the code concatenates them in one             *)
(* named_values under the names of the axes.                               *)
(***************************************************************************)
EXTENDS Integers, SequencesExt

CONSTANTS
  Devices,    \* the CUDA devices
  NoDevice    \* std::nullopt

Benchmark == [types : Seq(Seq(BOOLEAN)), others : Seq(Nat), devices : Seq(Devices)]

-----------------------------------------------------------------------------
(* state_iterator: an odometer whose first wheel turns fastest.            *)

get_number_of_states(sizes) ==
  LET upto[i \in 0 .. Len(sizes)] == IF i = 0 THEN 1 ELSE upto[i - 1] * sizes[i]
  IN  upto[Len(sizes)]

\* next(): the wheels before the first that does not overflow return to zero.
next(indices, sizes) ==
  [p \in DOMAIN indices |->
     IF \E q \in 1 .. p - 1 : indices[q] + 1 < sizes[q] THEN indices[p]
     ELSE IF indices[p] + 1 < sizes[p] THEN indices[p] + 1
     ELSE 0]

\* The indices seen by for (si.init(); si.iter_valid(); si.next()), in order.
Enumeration(sizes) ==
  LET seen[k \in 1 .. get_number_of_states(sizes)] ==
        IF k = 1 THEN [p \in DOMAIN sizes |-> 0] ELSE next(seen[k - 1], sizes)
  IN  seen

-----------------------------------------------------------------------------
(* state_generator.                                                        *)

TypeSizes(bench) == [a \in DOMAIN bench.types |-> Len(bench.types[a])]

\* Mutant of m_type_axis_configs: the axes are not reversed, so that the first
\* type axis turns fastest.
m_type_axis_configs_Forward(bench) ==
  LET turns == Enumeration(TypeSizes(bench))
      Config(indices) ==
        [values |-> indices,
         active |-> \A a \in DOMAIN indices : bench.types[a][indices[a] + 1]]
  IN  [k \in DOMAIN turns |-> Config(turns[k])]

\* The type axes are enumerated in reverse order, and each result reversed.
m_type_axis_configs(bench) ==
  LET turns == Enumeration(Reverse(TypeSizes(bench)))
      Config(indices) ==
        [values |-> indices,
         active |-> \A a \in DOMAIN indices : bench.types[a][indices[a] + 1]]
  IN  [k \in DOMAIN turns |-> Config(Reverse(turns[k]))]

m_non_type_axis_configs(bench) == Enumeration(bench.others)

\* The device a call leaves active: set_active() is skipped for nullopt.
Activated(active, device) == IF device = NoDevice THEN active ELSE device

\* add_states_for_device: one state per active type configuration and other
\* configuration; a state's stream is made on the device active at that time.
StatesForDevice(bench, device, active) ==
  LET types  == m_type_axis_configs(bench)
      others == m_non_type_axis_configs(bench)
      State(k, other) ==
        [types |-> types[k].values, others |-> other, device |-> device,
         typeConfig |-> k - 1, stream |-> Activated(active, device),
         skipped |-> FALSE]
      Row(k) == IF types[k].active
                THEN [o \in DOMAIN others |-> State(k, others[o])]
                ELSE <<>>
  IN  FlattenSeq([k \in DOMAIN types |-> Row(k)])

\* The passes over the devices that build_states and runner::run both make.
Passes(bench) == IF bench.devices = <<>> THEN <<NoDevice>> ELSE bench.devices

build_states(bench, active) ==
  FlattenSeq([p \in DOMAIN Passes(bench) |->
                StatesForDevice(bench, Passes(bench)[p], active)])

\* benchmark_base::get_config_count, used before any state exists.
get_config_count(bench) ==
  LET ActiveCount(mask) == Cardinality({i \in DOMAIN mask : mask[i]})
      typeCounts == [a \in DOMAIN bench.types |-> ActiveCount(bench.types[a])]
  IN  get_number_of_states(typeCounts) * get_number_of_states(bench.others)
        * Len(bench.devices)

-----------------------------------------------------------------------------
(* nvbench::tl::cartesian_product, by recursion on the list of type lists.  *)

prepend_each(value, configs) == [c \in DOMAIN configs |-> <<value>> \o configs[c]]

cartesian_product(sizes) ==
  LET product[a \in 1 .. Len(sizes) + 1] ==
        IF a > Len(sizes) THEN << <<>> >>
        ELSE FlattenSeq([v \in 1 .. sizes[a] |->
                           prepend_each(v - 1, product[a + 1])])
  IN  product[1]

\* benchmark<>::type_configs: the instantiations of the kernel generator.
type_configs(bench) == cartesian_product(TypeSizes(bench))
=============================================================================
