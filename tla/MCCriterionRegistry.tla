------------------------ MODULE MCCriterionRegistry ------------------------
(* Values for model checking CriterionRegistry: the two built-in criteria and
   benchmarks that give all, some or ill-typed parameters, in either order. *)
EXTENDS CriterionRegistry

P(name, type, value) == [name |-> name, type |-> type, value |-> value]

MCNames == {"max-noise", "min-time", "max-angle", "min-r2"}

MCTypes == {"float", "int"}

MCCriteria == {"stdrel", "entropy"}

MCDefaults ==
  [stdrel  |-> <<P("max-noise", "float", 0), P("min-time", "float", 0)>>,
   entropy |-> <<P("max-angle", "float", 0), P("min-r2", "float", 0)>>]

\* Every benchmark is constructed with max-noise and min-time.
Given(noise, time) == <<P("max-noise", "float", noise), P("min-time", "float", time)>>

MCBenchmarks ==
  { [criterion |-> c, given |-> g] :
      c \in {"stdrel", "entropy", "absent"},
      g \in { Given(0, 0), Given(0, 1),
              Given(1, 0) \o <<P("max-angle", "float", 1)>>,
              <<P("min-r2", "float", 2)>> \o Given(1, 2),
              <<P("min-r2", "int", 2), P("max-angle", "float", 2)>> \o Given(0, 0) } }

=============================================================================
