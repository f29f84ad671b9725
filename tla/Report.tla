-------------------------------- MODULE Report --------------------------------
(***************************************************************************)
(* What the printers print of finished benchmarks: the tables of the       *)
(* markdown and CSV printers (internal/table_builder.cuh,                  *)
(* markdown_printer.cu, csv_printer.cu) and the document of the JSON       *)
(* printer (json_printer.cu).                                              *)
(*                                                                         *)
(* A table is a sequence of columns [key, header, rows]; a cell is a tuple *)
(* and an absent one is Blank.  A device is <<id>>, or <<>> for none.  A   *)
(* benchmark is a record [name, devices, states], a state a record         *)
(* [device, axes, skipped, summaries], an axis value a record              *)
(* [name, pow2, value], where value is the exponent if pow2 is true, and a *)
(* summary a record [tag, name, hint, hide, type, value], where "" and the *)
(* type "none" stand for what the summary does not have and value is the   *)
(* order of magnitude of a number.  Fonts, colors and widths are left out. *)
(***************************************************************************)
EXTENDS Integers, Sequences, FiniteSets, SequencesExt, FiniteSetsExt

-----------------------------------------------------------------------------
(* table_builder *)

Blank == <<>>

Resized(rows, n) == rows \o [k \in 1 .. n - Len(rows) |-> Blank]

\* Mutant of add_cell: the value follows the last one of its column.
add_cell_Next(table, row, key, header, value) ==
  LET i == SelectInSeq(table, LAMBDA column : column.key = key) IN
  IF i = 0 THEN Append(table, [key |-> key, header |-> header, rows |-> <<value>>])
  ELSE IF Len(table[i].rows) >= row THEN table
  ELSE [table EXCEPT ![i].rows = Append(@, value)]

\* The first value given for a row and a column stays.
add_cell(table, row, key, header, value) ==
  LET i == SelectInSeq(table, LAMBDA column : column.key = key)
      placed(rows) == Append(Resized(rows, row - 1), value)
  IN  CASE i = 0 -> Append(table, [key |-> key, header |-> header, rows |-> placed(<<>>)])
        [] i # 0 /\ Len(table[i].rows) < row -> [table EXCEPT ![i].rows = placed(@)]
        [] OTHER -> table

fix_row_lengths(table) ==
  LET rows == Max({0} \cup {Len(table[i].rows) : i \in DOMAIN table})
  IN  [i \in DOMAIN table |-> [table[i] EXCEPT !.rows = Resized(@, rows)]]

\* The cells [key, header, value] of a row, one after the other.
add_row(table, row, cells) ==
  FoldLeft(LAMBDA t, c : add_cell(t, row, c.key, c.header, c.value), table, cells)

\* A row for each list of cells.
Table(rows) ==
  fix_row_lengths(FoldLeft(LAMBDA table, row : add_row(table, row, rows[row]),
                           <<>>, [row \in DOMAIN rows |-> row]))

Cell(key, header, value) == [key |-> key, header |-> header, value |-> value]

-----------------------------------------------------------------------------
(* Summaries *)

\* The elements of a sequence at some of its places: a loop that continues at
\* the others.
Selection(s, places) ==
  FoldLeft(LAMBDA kept, i : IF i \in places THEN Append(kept, s[i]) ELSE kept,
           <<>>, [i \in DOMAIN s |-> i])

Visible(s) ==
  Selection(s.summaries, {i \in DOMAIN s.summaries : s.summaries[i].hide = ""})

Header(x) == IF x.name # "" THEN x.name ELSE x.tag

\* The unit a number is scaled to, from its order of magnitude on: of two for
\* "bytes" and of ten for the rest.
Units ==
  [duration  |-> <<<<0, "s">>, <<-3, "ms">>, <<-6, "us">>, <<-9, "ns">>>>,
   item_rate |-> <<<<15, "P">>, <<12, "T">>, <<9, "G">>, <<6, "M">>, <<3, "K">>, <<0, "">>>>,
   frequency |-> <<<<9, "GHz">>, <<6, "MHz">>, <<3, "KHz">>, <<0, "Hz">>>>,
   bytes     |-> <<<<30, "GiB">>, <<20, "MiB">>, <<10, "KiB">>, <<0, "B">>>>,
   byte_rate |-> <<<<15, "PB/s">>, <<12, "TB/s">>, <<9, "GB/s">>, <<6, "MB/s">>,
                   <<3, "KB/s">>, <<0, "B/s">>>>,
   sample_size |-> <<<<0, "x">>>>, percentage |-> <<<<0, "%">>>>]

Unit(hint, magnitude) ==
  LET units == Units[hint]
      i == SelectInSeq(units, LAMBDA u : u[1] <= magnitude)
  IN  IF i = 0 THEN Last(units)[2] ELSE units[i][2]

\* do_format_*; a value of another type than the format reads is an error.
Formatted(x) ==
  IF x.hint \in DOMAIN Units THEN <<x.value, Unit(x.hint, x.value)>> ELSE <<x.value>>

Formats(x) ==
  /\ x.type # "none"
  /\ x.hint \in {"bytes", "sample_size"} => x.type = "int64"
  /\ x.hint \in DOMAIN Units \ {"bytes", "sample_size"} => x.type = "float64"

-----------------------------------------------------------------------------
(* markdown_printer::do_print_benchmark_results *)

\* A power of two goes to a column of its own name.
MarkdownAxis(a) ==
  IF a.pow2 THEN Cell(a.name, a.name, <<"2^", a.value>>)
  ELSE Cell(a.name \o "_axis", a.name, <<a.value>>)

MarkdownCells(s) ==
  [i \in DOMAIN s.axes |-> MarkdownAxis(s.axes[i])]
    \o [i \in DOMAIN Visible(s) |->
          LET x == Visible(s)[i] IN Cell(x.tag, Header(x), Formatted(x))]

\* The states of a table; skipped ones have no row.
OnDevice(bench, device) ==
  Selection(bench.states, {i \in DOMAIN bench.states :
                             ~bench.states[i].skipped /\ bench.states[i].device = device})

MarkdownTable(bench, device) ==
  LET states == OnDevice(bench, device)
  IN  Table([row \in DOMAIN states |-> MarkdownCells(states[row])])

\* A pass per device, or a single one.
Passes(bench) ==
  IF bench.devices = <<>> THEN <<<<>>>>
  ELSE [i \in DOMAIN bench.devices |-> <<bench.devices[i]>>]

\* A table without columns says "No data".
MarkdownBenchmark(bench) ==
  [name |-> bench.name,
   tables |-> [i \in DOMAIN Passes(bench) |->
                 [device |-> Passes(bench)[i],
                  table |-> MarkdownTable(bench, Passes(bench)[i])]]]

MarkdownResults(benches) == [i \in DOMAIN benches |-> MarkdownBenchmark(benches[i])]

\* The first table whose states have a summary its format cannot read.
MarkdownThrows(benches) ==
  \E bench \in ToSet(benches) : \E s \in ToSet(bench.states) :
    /\ ~s.skipped /\ s.device \in ToSet(Passes(bench))
    /\ \E x \in ToSet(Visible(s)) : ~Formats(x)

-----------------------------------------------------------------------------
(* csv_printer::do_print_benchmark_results *)

CsvAxis(a) ==
  IF a.pow2
    THEN <<Cell(a.name \o "_axis_pow2_pretty", a.name \o " (pow2)", <<"2^", a.value>>),
           Cell(a.name \o "_axis_plain", a.name, <<"2 to the", a.value>>)>>
    ELSE <<Cell(a.name \o "_axis", a.name, <<a.value>>)>>

CsvUnits == [duration |-> " (sec)", item_rate |-> " (elem/sec)",
             bytes |-> " (bytes)", byte_rate |-> " (bytes/sec)"]

CsvCells(row) ==
  LET s == row.state
      start == <<Cell("_bench_name", "Benchmark", <<row.bench>>),
                 Cell("_device_id", "Device", s.device),
                 Cell("_device_name", "Device Name", s.device)>>
               \o FlattenSeq([i \in DOMAIN s.axes |-> CsvAxis(s.axes[i])])
               \o <<Cell("_skip_reason", "Skipped", IF s.skipped THEN <<"Yes">> ELSE <<"No">>)>>
      header(x) == Header(x) \o (IF x.hint \in DOMAIN CsvUnits THEN CsvUnits[x.hint] ELSE "")
  IN  IF s.skipped THEN start
      ELSE start \o [i \in DOMAIN Visible(s) |->
                       LET x == Visible(s)[i] IN Cell(x.tag, header(x), <<x.value>>)]

\* One table of all the states of all benchmarks.
CsvRows(benches) ==
  FlattenSeq([b \in DOMAIN benches |->
    [i \in DOMAIN benches[b].states |->
       [bench |-> benches[b].name, state |-> benches[b].states[i]]]])

CsvResults(benches) ==
  LET rows == CsvRows(benches) IN Table([row \in DOMAIN rows |-> CsvCells(rows[row])])

CsvThrows(benches) ==
  \E row \in ToSet(CsvRows(benches)) :
    ~row.state.skipped /\ \E x \in ToSet(Visible(row.state)) : x.type = "none"

-----------------------------------------------------------------------------
(* json_printer *)

write_named_values(x) ==
  IF x.type = "none" THEN <<>> ELSE <<[name |-> "value", type |-> x.type, value |-> x.value]>>

\* The expected values are written by name, the others as data.
JsonSummary(x) ==
  [tag |-> x.tag, name |-> x.name, hint |-> x.hint, hide |-> x.hide,
   data |-> write_named_values(x)]

\* A state without a device has the id the uninitialized device_info holds.
JsonState(s, unset) ==
  [device |-> IF s.device = <<>> THEN unset ELSE s.device[1],
   axis_values |-> s.axes,
   summaries |-> [i \in DOMAIN s.summaries |-> JsonSummary(s.summaries[i])],
   is_skipped |-> s.skipped]

JsonBenchmark(bench, index, unset) ==
  [name |-> bench.name, index |-> index, devices |-> bench.devices,
   states |-> [i \in DOMAIN bench.states |-> JsonState(bench.states[i], unset)]]

\* add_devices_section names every device, used or not.
JsonResults(benches, devices, unset) ==
  [devices |-> devices,
   benchmarks |-> [i \in DOMAIN benches |-> JsonBenchmark(benches[i], i - 1, unset)]]

-----------------------------------------------------------------------------
(* --list: what has not run *)

\* The benchmarks by index, with their axes.
BenchmarkList(benches) ==
  [i \in DOMAIN benches |->
     [index |-> i - 1, name |-> benches[i].name,
      configurations |-> {s.axes : s \in ToSet(benches[i].states)}]]

\* Devices in use, or all of them if there are none.
DeviceSection(usedDevices, devices) == IF usedDevices # <<>> THEN usedDevices ELSE devices
=============================================================================
