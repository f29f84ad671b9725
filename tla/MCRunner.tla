------------------------------ MODULE MCRunner ------------------------------
(* Small programs for TLC: benchmarks with several type axes of different   *)
(* sizes and masks, other axes, no device, one, two, and one listed twice.   *)
EXTENDS Runner

CONSTANTS d0, d1

Bm(types, others, devices) ==
  [types |-> types, others |-> others, devices |-> devices]

On == TRUE
Off == FALSE

MCDevices == {d0, d1}

\* One of them has no benchmark, and one a benchmark without any state.
MCPrograms == {
  <<>>,
  <<Bm(<<<<On, On>>>>, <<2>>, <<>>), Bm(<<>>, <<2>>, <<d1, d1>>)>>,
  <<Bm(<<>>, <<>>, <<d0>>)>>,
  <<Bm(<<<<On, Off, On>>, <<On, On>>>>, <<>>, <<d1>>)>>,
  <<Bm(<<<<On, Off>>, <<Off, On>>, <<On>>>>, <<2>>, <<d1>>)>>,
  <<Bm(<<<<Off, On>>>>, <<2>>, <<d0, d1>>), Bm(<<>>, <<2>>, <<d0>>)>>,
  <<Bm(<<>>, <<2, 3>>, <<d1>>)>>,
  <<Bm(<<>>, <<0>>, <<d1>>), Bm(<<<<On, On>>>>, <<2>>, <<d0>>)>>,
  <<Bm(<<<<Off, Off>>>>, <<2>>, <<d0, d1>>), Bm(<<<<On>>>>, <<>>, <<d1, d0>>)>> }

=============================================================================
