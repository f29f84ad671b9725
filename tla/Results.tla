-------------------------------- MODULE Results -------------------------------
(***************************************************************************)
(* From parsed options to printed results: the phases of main (main.cuh),  *)
(* the calls it and the runner make on the printers (printer_base,         *)
(* printer_multiplex), and the files a JSON printer writes sample times to *)
(* while states run (json_printer.cu).                                     *)
(*                                                                         *)
(* The states of a benchmark run in order; Runner says in which order of   *)
(* devices and type configurations, and Exec what a state collects.  The   *)
(* generator of a state may call exec() any number of times: measurements  *)
(* follow each other, and each cold or CPU-only one hands its sample times *)
(* to the printers.  A measurement is known by <<state, number>>.          *)
(***************************************************************************)
EXTENDS Report

CONSTANTS
  Printers,     \* sequence of records [format, binary]
  Benches,      \* the benchmarks to run, with states that have not run
  Devices,      \* ids of all devices
  UsedDevices,  \* ids of the devices in use
  Timed,        \* sequences of summaries of measurements with sample times
  Untimed,      \* the same of batched and profiled ones, and of the user's own
  Unset,        \* ids an uninitialized device_info may hold
  MaxMeasurements \* bound: measurements of all states together

IsList(s) == Len(s) \in Nat /\ s = [i \in 1 .. Len(s) |-> s[i]]

NoneTwice(devices) == \A i, j \in DOMAIN devices : devices[i] = devices[j] => i = j

\* States are as they are generated: each is on a device of its benchmark, if
\* that has any, and without axes there is one for each device.  Only a binary
\* printer adds summaries of the type "file".
ASSUME ResultsAssumption ==
  /\ Printers \in Seq([format : {"markdown", "csv", "json"}, binary : BOOLEAN])
  /\ \A i \in DOMAIN Printers : Printers[i].binary => Printers[i].format = "json"
  /\ IsList(Benches)
  /\ \A b \in DOMAIN Benches :
       /\ DOMAIN Benches[b] = {"name", "devices", "states"}
       /\ IsList(Benches[b].devices) /\ IsList(Benches[b].states)
       /\ \A s \in ToSet(Benches[b].states) :
            /\ DOMAIN s = {"device", "axes", "skipped", "summaries"}
            /\ s.device \in ToSet(Passes(Benches[b])) /\ IsList(s.axes)
            /\ ~s.skipped /\ s.summaries = <<>>
       /\ NoneTwice(Benches[b].devices) =>
            \A i, j \in DOMAIN Benches[b].states :
              LET s == Benches[b].states[i]
                  t == Benches[b].states[j]
              IN  s.device = t.device /\ s.axes = <<>> => i = j
  /\ MaxMeasurements \in Nat
  /\ \A summaries \in Timed \cup Untimed :
       IsList(summaries) /\ \A x \in ToSet(summaries) : x.type # "file"

VARIABLES
  phase,      \* where main is
  benches,    \* the benchmarks, with what their states have collected
  at,         \* <<benchmark, state>> to run next
  to,         \* printer that is called next; 0 when no call is in progress
  out,        \* what each printer has written, 0 being the one of --list
  bin_files,  \* m_num_jsonbin_files of each printer
  files,      \* sample time files: [id, of, end], of being a measurement
  completed,  \* m_completed_state_count, the same for all printers
  measured    \* measurements so far

vars == <<phase, benches, at, to, out, bin_files, files, completed, measured>>

Init ==
  /\ phase = "parsed" /\ benches = Benches /\ at = <<1, 1>> /\ to = 0
  /\ out = [i \in 0 .. Len(Printers) |-> <<>>]
  /\ bin_files = [i \in DOMAIN Printers |-> 0] /\ files = {} /\ completed = 0
  /\ measured = 0

-----------------------------------------------------------------------------
(* printer_multiplex passes every call on, in the order of the printers *)

\* Only the markdown printer overrides what main and the runner call before
\* the results.
multiplex(items) ==
  [i \in DOMAIN out |->
     IF i # 0 /\ Printers[i].format = "markdown" THEN out[i] \o items ELSE out[i]]

\* A benchmark without devices counts for nothing, although it has states.
get_config_count(bench) == IF bench.devices = <<>> THEN 0 ELSE Len(bench.states)

total == SumFunction([b \in DOMAIN Benches |-> get_config_count(Benches[b])])

log(level, what) == [kind |-> "log", level |-> level, what |-> what]

\* do_log_run_state, with progress unless the total is zero.
log_run_state ==
  log("run", IF total = 0 THEN at ELSE <<completed + 1, total, at>>)

-----------------------------------------------------------------------------
(* Running *)

main_print_preamble ==
  /\ phase = "parsed" /\ phase' = "run"
  /\ out' = multiplex(<<[kind |-> "devices", what |-> DeviceSection(UsedDevices, Devices)],
                        [kind |-> "preamble"]>>)
  /\ UNCHANGED <<benches, at, to, bin_files, files, completed, measured>>

Current == benches[at[1]].states[at[2]]

MoreStates == at[1] \in DOMAIN benches /\ at[2] \in DOMAIN benches[at[1]].states

NextState == <<at[1], at[2] + 1>>

\* The loop over the benchmarks, some of which may have no states.
NextBenchmark ==
  /\ phase = "run" /\ at[1] \in DOMAIN benches /\ ~MoreStates
  /\ at' = <<at[1] + 1, 1>>
  /\ UNCHANGED <<phase, benches, to, out, bin_files, files, completed, measured>>

\* Mutant of add_completed_state: a call reaches a printer twice.
add_completed_state_Twice == completed + 2

add_completed_state == completed + 1

Updated(s) == [benches EXCEPT ![at[1]].states[at[2]] = s]

\* run_state_prologue.
StartState ==
  /\ phase = "run" /\ MoreStates
  /\ phase' = "measure" /\ out' = multiplex(<<log_run_state>>)
  /\ UNCHANGED <<benches, at, to, bin_files, files, completed, measured>>

\* The generator or a measurement skips the state or throws, maybe after other
\* measurements; what they collected stays.  run_state_epilogue counts it.
SkipState ==
  /\ phase = "measure" /\ phase' = "run"
  /\ benches' = Updated([Current EXCEPT !.skipped = TRUE])
  /\ out' = multiplex(<<log("skip", at)>>) /\ completed' = add_completed_state /\ at' = NextState
  /\ UNCHANGED <<to, bin_files, files, measured>>

\* The generator returns; run_state_epilogue.
CompleteState ==
  /\ phase = "measure"
  /\ phase' = "run" /\ completed' = add_completed_state /\ at' = NextState
  /\ UNCHANGED <<benches, to, out, bin_files, files, measured>>

\* What every measurement does when it is through: add its summaries, and log.
Measured(summaries) ==
  /\ phase = "measure" /\ measured < MaxMeasurements /\ measured' = measured + 1
  /\ benches' = Updated([Current EXCEPT !.summaries = @ \o summaries])
  /\ out' = multiplex(<<log("pass", at)>>)
  /\ UNCHANGED <<at, bin_files, files, completed>>

\* A batched or a profiled one.
MeasureState(summaries) == Measured(summaries) /\ UNCHANGED <<phase, to>>

\* A cold or a CPU-only one goes on to process_bulk_data.
TimeState(summaries) == Measured(summaries) /\ phase' = "bulk" /\ to' = 1

This == <<at, measured>>

\* The summary a binary JSON printer adds, whatever became of the file.  The size
\* is that of the samples of the measurement, for which the measurement stands.
BinSummary(path) ==
  [tag |-> "nv/json/bin:samples", name |-> "Samples Times File", hint |-> "file/sample_times",
   hide |-> "Not needed in table.", type |-> "file",
   value |-> [filename |-> path, size |-> This]]

\* What may become of a file.  The stream throws when it can not be opened, and
\* when a write fails that empties its buffer; it is closed by its destructor,
\* which says nothing when what is left in the buffer can not be written.
BulkResults == {"written", "tail lost", "cut off", "not opened", "no directory"}

Throwing == {"cut off", "not opened", "no directory"}

\* Mutant of NumberTaken: the number is taken once the file is complete.
NumberTaken_Complete(result) == result = "written"

\* The number is taken before the file is opened.
NumberTaken(result) == result # "no directory"

\* do_process_bulk_data_float64 of the next printer.  Its path ends with the
\* number of the file unless there is no directory.
BulkData(result) ==
  LET path == IF result = "no directory" THEN <<to>> ELSE <<to, bin_files[to]>>
      file == [id |-> path, of |-> This, end |-> result]
  IN
  /\ phase = "bulk" /\ to \in DOMAIN Printers /\ to' = to + 1
  /\ IF ~Printers[to].binary
       THEN /\ result = "written"
            /\ UNCHANGED <<benches, out, bin_files, files>>
       ELSE /\ bin_files' = [bin_files EXCEPT ![to] = @ + IF NumberTaken(result) THEN 1 ELSE 0]
            /\ files' = IF result \in {"not opened", "no directory"} THEN files
                        ELSE {f \in files : f.id # path} \cup {file}
            /\ benches' = Updated([Current EXCEPT !.summaries = Append(@, BinSummary(path))])
            /\ out' = multiplex((IF result \in Throwing THEN <<log("warn", path)>> ELSE <<>>)
                                  \o <<log("info", path)>>)
  /\ UNCHANGED <<phase, at, completed, measured>>

\* All printers have the sample times: the generator goes on.
GoOn ==
  /\ phase = "bulk" /\ to \notin DOMAIN Printers
  /\ phase' = "measure" /\ to' = 0
  /\ UNCHANGED <<benches, at, out, bin_files, files, completed, measured>>

\* A benchmark throws what the runner does not catch: main's handler ends it.
Abort ==
  /\ phase = "measure" /\ phase' = "failed"
  /\ UNCHANGED <<benches, at, to, out, bin_files, files, completed, measured>>

-----------------------------------------------------------------------------
(* Printing *)

main_print_epilogue ==
  /\ phase = "run" /\ at[1] \notin DOMAIN benches
  /\ phase' = "results" /\ to' = 1 /\ out' = multiplex(<<[kind |-> "epilogue"]>>)
  /\ UNCHANGED <<benches, at, bin_files, files, completed, measured>>

Document(format, unset) ==
  [kind |-> "results", format |-> format,
   what |-> CASE format = "markdown" -> MarkdownResults(benches)
              [] format = "csv"      -> CsvResults(benches)
              [] format = "json"     -> JsonResults(benches, Devices, unset)]

Throws(format) ==
  \/ format = "markdown" /\ MarkdownThrows(benches)
  \/ format = "csv" /\ CsvThrows(benches)

\* Each printer writes its document as a whole, or throws before.
main_print_results(unset) ==
  /\ phase = "results" /\ to \in DOMAIN Printers
  /\ IF Throws(Printers[to].format)
       THEN phase' = "failed" /\ UNCHANGED <<out, to>>
       ELSE /\ out' = [out EXCEPT ![to] = Append(@, Document(Printers[to].format, unset))]
            /\ to' = to + 1 /\ UNCHANGED phase
  /\ UNCHANGED <<benches, at, bin_files, files, completed, measured>>

main_finalize ==
  /\ phase = "results" /\ to \notin DOMAIN Printers /\ phase' = "done"
  /\ UNCHANGED <<benches, at, to, out, bin_files, files, completed, measured>>

\* --list, --jsonlist-benches and --jsonlist-devices: a printer of their own,
\* then the program leaves.
print_list(format) ==
  /\ phase = "parsed" /\ phase' = "exited"
  /\ out' = [out EXCEPT ![0] =
       IF Benches = <<>> THEN <<>>
       ELSE (IF format = "markdown"
               THEN <<[kind |-> "devices", what |-> DeviceSection(UsedDevices, Devices)]>> ELSE <<>>)
            \o <<[kind |-> "list", what |-> BenchmarkList(Benches)]>>]
  /\ UNCHANGED <<benches, at, to, bin_files, files, completed, measured>>

print_devices_json ==
  /\ phase = "parsed" /\ phase' = "exited"
  /\ out' = [out EXCEPT ![0] = <<[kind |-> "devices", what |-> Devices]>>]
  /\ UNCHANGED <<benches, at, to, bin_files, files, completed, measured>>

Next ==
  \/ main_print_preamble \/ StartState \/ NextBenchmark
  \/ SkipState \/ CompleteState
  \/ \E summaries \in Untimed : MeasureState(summaries)
  \/ \E summaries \in Timed : TimeState(summaries)
  \/ \E result \in BulkResults : BulkData(result)
  \/ GoOn \/ Abort \/ main_print_epilogue
  \/ \E unset \in Unset : main_print_results(unset)
  \/ main_finalize
  \/ \E format \in {"markdown", "json"} : print_list(format)
  \/ print_devices_json

Spec == Init /\ [][Next]_vars

-----------------------------------------------------------------------------
(* Properties *)

AllStates == SumFunction([b \in DOMAIN Benches |-> Len(Benches[b].states)])

\* Every variable keeps its type; no more states are counted than there are,
\* and no printer numbers more files than there were measurements.
TypeOK ==
  /\ phase \in {"parsed", "exited", "run", "measure", "bulk", "results", "done", "failed"}
  /\ to \in 0 .. Len(Printers) + 1 /\ DOMAIN out = 0 .. Len(Printers)
  /\ \A i \in DOMAIN Printers : bin_files[i] \in 0 .. measured
  /\ completed \in 0 .. AllStates /\ measured \in 0 .. MaxMeasurements
  /\ \A f \in files : f.id[1] \in DOMAIN Printers
                       /\ f.end \in {"written", "tail lost", "cut off"}

Printed(format, P(_)) ==
  \A i \in DOMAIN Printers : \A k \in DOMAIN out[i] :
    (out[i][k].kind = "results" /\ out[i][k].format = format) => P(out[i][k].what)

Warned(p, path) ==
  \E k \in DOMAIN out[p] :
    out[p][k].kind = "log" /\ out[p][k].level = "warn" /\ out[p][k].what = path

FirstCell(cells, key) ==
  LET i == SelectInSeq(cells, LAMBDA c : c.key = key)
  IN  IF i = 0 THEN Blank ELSE cells[i].value

\* A table has these rows, in order: each cell is the first value its row has
\* for the column's key, or blank, and every key has a column.
TableOf(table, rows) ==
  /\ \A c \in DOMAIN table :
       table[c].rows = [r \in DOMAIN rows |-> FirstCell(rows[r], table[c].key)]
  /\ \A r \in DOMAIN rows : \A k \in DOMAIN rows[r] :
       \E c \in DOMAIN table : table[c].key = rows[r][k].key

\* In the tables that are printed no value stands in another state's row,
\* however ragged the summaries are; each state that was not skipped is in one
\* table of the markdown results, and each state in the CSV results.
MarkdownAligned(results) ==
  \A b \in DOMAIN benches :
    LET tables == results[b].tables
        listed(t) == OnDevice(benches[b], t.device)
    IN  /\ \A t \in ToSet(tables) :
             TableOf(t.table, [r \in DOMAIN listed(t) |-> MarkdownCells(listed(t)[r])])
        /\ \A s \in ToSet(benches[b].states) :
             ~s.skipped => Cardinality({t \in DOMAIN tables : s \in ToSet(listed(tables[t]))}) = 1

CsvAligned(table) ==
  LET rows == FlattenSeq([b \in DOMAIN benches |->
                [i \in DOMAIN benches[b].states |->
                   CsvCells([bench |-> benches[b].name, state |-> benches[b].states[i]])]])
  IN  TableOf(table, rows)

RowsAligned == Printed("markdown", MarkdownAligned) /\ Printed("csv", CsvAligned)

\* The files of sample times that a state names: [filename, size].
Named(b, i) ==
  {x.value : x \in {y \in ToSet(benches[b].states[i].summaries) : y.type = "file"}}

\* A file that a state names holds the samples of the measurement of that state
\* that named it, whatever exec calls, states and failures came between; no two
\* measurements are given the same number.  If the file is missing or a write
\* of it failed, the log has a warning: what is lost without one is only what
\* the closing of the file could not write.
SampleFilesAreOwn ==
  \A b \in DOMAIN benches : \A i \in DOMAIN benches[b].states : \A n \in Named(b, i) :
    /\ n.size[1] = <<b, i>>
    /\ \A f \in files : f.id = n.filename => f.of = n.size
    /\ \A c \in DOMAIN benches : \A j \in DOMAIN benches[c].states : \A m \in Named(c, j) :
         m.filename = n.filename /\ Len(n.filename) = 2 => m.size = n.size
    /\ \/ \E f \in files : f.id = n.filename /\ f.end \notin Throwing
       \/ \A p \in DOMAIN Printers : Printers[p].format = "markdown" => Warned(p, n.filename)
=============================================================================
