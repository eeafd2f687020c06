# TLA+ models of pmu-events

`pmu-events` gives a program the CPU events that `perf` knows. It has two halves:

* at **build time** `src/jevents.py` reads the json event files of `src/arch/` and
  writes a C file with tables: all strings in one big C string, one table of
  events and one of metrics per CPU model, and maps from cpuid strings to them;
* at **run time** the library `src/src/pmu-events.c` finds the PMU instances of
  the machine in sysfs, gives each the events of its table, and turns an event
  string such as `event=0xc0,umask=1` into a `perf_event_attr`.

This directory holds TLA+ modules of both halves, TLC configurations that check
them on small instances, and proofs of their safety properties that hold for every
instance. `PROJECT.json` lists the runs, says which lines of the code each
definition stands for, and names for each property a plausible bug of that code
that it detects (the definitions marked `Mutant:` in the modules).

## 1. Inventory

| component | state it keeps | operations | what is hard | what makes it correct | module |
|---|---|---|---|---|---|
| Bit fields (`apply_range_list_to_val`) | the member being built, the rest of the value | deal one range | shift counts 0 and 64, overlapping ranges | bits outside the ranges stay, the value can be read back | `BitField`, `ApplyRanges` |
| Event attributes (`gen_attr_for_event`, `read_perf_type`, `parse_assignment_list`) | the caller's attr, the list of assignments, what is allocated | read type, parse terms, look up a format, apply | device vanishes between two reads, failure half way, cleanup on each way out | each bit is the one the last assignment put there; the driver decodes what was asked; nothing leaks | `EventAttr` |
| PMU discovery (`get_pmus`, `get_all_pmu_instances_for`, `free_pmus`) | the array of classes and instances, the directory stream | scan per class, add instance, read cpus/cpumask, store or drop class, free | devices come and go under readdir, order of readdir, realloc and opendir fail | exactly the instances that are there, each with its CPUs, no leak, the call ends | `PmuDiscovery` |
| CPU map lookup (generated `map_for_cpu`) | two static caches: last result by CPU number, last search by cpuid | lookup | caches against a changing environment and changing CPUs | same answers as a lookup with no search cache | `CpuLookup`, `MapForCpu` |
| Metric group index (`print_metricgroups`, generated `describe_metricgroup`) | the sorted rows | sort at build time, binary search at run time | two notions of order | a group is found iff it is there | `MetricGroupIndex` |
| Event strings (`JsonEvent`, `parse_assignment`) | the string being built | head, fields, filter, msr, standard and fixed events; parse | number bases differ on the two sides | the C side reads what the json entry asks for | `EventString` |
| Tables and maps (`main`, `preprocess_arch_std_files`, `read_json_events`, `process_one_file`, `print_mapping_table`, `print_system_mapping_table`) | dictionary of standard events, cache of read files, pending lists, table names written | read standard events, preprocess an architecture, enter a model directory, read a file, flush, write maps | one dictionary for all architectures, flush under the right name, sys directories below models | an entry gets the standard event of its own architecture; each directory's entries are in its table, once, and the rows of the maps lead there | `EventTables` |
| Layout of a table (`print_pending_events`, `print_pending_metrics`) | the sorted entries, the PMU at hand | sort, print arrays of offsets | sorted by one key, split by another | each array is defined once | `TableLayout` |
| BigCString | strings, foldings, offsets | add, fold, write, place | folding by suffix, escapes | the offset of a string leads to the string | `BigCString` |
| Compressed events (`build_c_string`, `decompress_event`, `decompress_metric`) | the pointer into the big string | write fields in order, read them in order | no tags: writer and reader must agree on each field | round trip through the big string | `TableLayout` |
| Parsers (`get_file_content`, `parse_range`, `parse_range_list`, `parse_config_def`) | the text, the ranges so far | read, cut, parse a member, parse a term | what `strtoull` takes, content without an end, failure half way | one range for each well formed term | `RangeLists` |
| Event search (`get_event_by_name`) and the example that uses it (`read_event`) | the events found, their attrs and counters | search, make attrs, open, read, stop | devices that hand their numbers on, a signal at any time, many ways out | what is counted is what was asked for; it stops | `ReadEvent` |
| Arm CPU identification (`get_cpuid_str`, `perf_cpu_map__new`, `io__getdelim`, `strcmp_cpuid_str`) | two buffers, the line, the array of CPUs | read, parse, try one CPU after the other, match | short and failing reads, hotplug between the steps | the identity of a CPU that was online, if there is one | `IoReader`, `CpuMap`, `ArmCpuId`, `MidrMatch` |
| x86 CPU identification | none | CPUID, regular expression | dashes of character ranges count as those of the id | its result is the constant `Matching` | not modelled |
| Metric expressions (`src/metric.py`) | none | parse, simplify, rewrite | recursion over expressions | same value before and after | not modelled |
| Arch data, tests, build | - | - | - | - | not modelled |

**Interactions.** `main` of jevents walks the tree (`EventTables`); for each json
object it makes a `JsonEvent` (`EventString`), whose fields go into one string of
`BigCString`; the tables are arrays of offsets into it (`TableLayout`); last it writes the maps and the C code of the lookups
(`MapForCpu`, `MetricGroupIndex`). At run time `get_pmus` calls `map_for_cpu`,
which asks for the identity of a CPU (`ArmCpuId`), then scans sysfs, whose lists of
CPUs are parsed (`RangeLists`); the caller looks an event up in an instance,
which decompresses the entries of its table one by one, and calls
`gen_attr_for_event`, which calls `apply_range_list_to_val` for each assignment.
`ReadEvent` is such a caller, with the calls as its steps.
Nothing runs in several threads: the library has none, takes no locks, and is not
documented as safe to share. What interleaves with it is the kernel (devices,
CPUs), between calls the caller (environment variables), and in the example a signal. jevents is one
sequential Python process.

## 2. Modules and the code

**`BitField`** - words as sets of the positions of their 1 bits, so `&`, `|`, `~`
are set operations; the width is the constant `W`. `ApplyRange` is the body of the
loop of `apply_range_list_to_val`; `ShiftRightOutcomes` gives both results a build
can produce for a shift by the whole width, which C leaves undefined.
**`ApplyRanges`** is the loop: one action per iteration. `Dealt`, `SourceBit` and
`Decides` say independently which bit of the value a position must get.

**`EventAttr`** - one action per stretch of `gen_attr_for_event` between two reads of
sysfs: `ReadPerfType` (with its early returns), `ParseTerm`/`ParseFails` (one term,
with the reallocation that can fail), `SkipPeriod`, `ApplyAssignment`,
`LookupFails`, `Finish`; `DeviceChanges` is the kernel. Whether a text parses is the
data: a term is an assignment or `Malformed`, a format file a definition, `Absent` or
`Malformed`. `heap` is a ledger of what the call has allocated or opened.

**`PmuDiscovery`** - one action per system call or per decision between two of
them; `Vanish` and `Appear` are the kernel. A pass takes a snapshot at `opendir`, and
what changes afterwards may or may not still be returned by `readdir`, as POSIX
says. Names are sequences of tokens, which is what the prefix test of the uncore
branch tells apart. `pc = "wild"` and `pc = "crashed"` are the two places where the
code leaves the defined behaviour of C: `AddClassFails` with a non-empty array, and
`FindMap` on a CPU without a row.

**`RangeLists`** - texts as sequences of characters. `ReadContent` is `get_file_content`,
with anything behind the bytes that were read; `ParseMember`, `ParseTerm` and
`TermFails` are the two parsers, one action for each turn of the loop of
`parse_range_list`; `strtoull` takes a sign and saturates at the constant `Largest`, as C says.
`Leftovers` is what the buffer may hold behind the bytes read. `heap` is the ledger again. `WellFormed` and `Meaning` say what a term is without `strtoull`.

**`ReadEvent`** - `read_event` of the example with `get_pmus` and `gen_attr_for_event` as
single steps and `get_event_by_name` entry by entry. `Plug` takes a device away or
gives it a number that is free; `Sigterm` kills, or runs the handler once it is set.
`counters` is what the kernel counts: the entry asked for and the device of that type at the
time of `perf_event_open`. The members of an event next to one another in memory matter in one
place: the memset runs over its attr into its descriptor.

**`IoReader`**, **`CpuMap`**, **`ArmCpuId`** - each extends the one before and its actions
are the steps of the next: `IoReader` is `io__getdelim` with the buffer of `struct io`
(`FillBuffer`, short reads included) and its own (`TakeChar`); `CpuMap` is
`perf_cpu_map__new` (`ParseTerm`, then `AddCpu` or `Invalid` for each CPU, `EndTerm`,
`FinishMap`); `ArmCpuId` is `get_cpuid_str` around them, with `CountCpus` for the fallback on
`sysconf` and one action for the `midr_el1` of each CPU. `Hotplug` is the kernel, and so is the text of
the list: `OnlineText` writes the runs of the set of online CPUs as the kernel's `%*pbl` does.
**`MidrMatch`** is `strcmp_cpuid_str` of Arm.

**`MapForCpu`** - the two static caches and the search loop with one action per
row; `Setenv` and `CpuChanges` are the environment. **`CpuLookup`** is what it
implements: a lookup that takes the identity of the CPU once and answers with the first
matching row, and that may repeat its last answer for the same CPU. The mapping is
`memo <- {lastResult}` if there is one, `sample <- {the CPU and id of the search}`
while in the loop. `Matching` stands for `strcmp_cpuid_str` of the architecture; the run computes it
with `MidrMatch`.

**`MetricGroupIndex`** - `Metricgroups` is `sorted()` of the Python strings, which end
with a backslash and three zeroes; the actions are the loop of
`describe_metricgroup`, which compares with `strcmp`. Characters are numbers.

**`EventString`** - `WriteHead`, `WriteField` or `SkipField` per field, `WriteTail`,
`Resolve` (the replacement by a standard or fixed event), then one `ParseAssignment` per
term of the C side; the `...Raises` actions are the Python exceptions. Texts of
numbers are [base, number]; `DigitsReadAsHex` is what base 16 makes of decimal
digits. `EventCode | ExtSel << 8` is kept with a smaller shift, bounded by
`MaxNumber`.

**`EventTables`** - both walks of jevents. The first one: `ReadStdFile` puts the events of a
file in the root of an architecture into the dictionary `std`; `PreprocessArch` reads all
other files of the architecture in one step, since none of them changes what another one
is given, and keeps their entries in `cache`; `PreprocessRaises` is a standard event nobody
has defined. What the preprocessing does with the strings of an entry is in `TableLayout`.
The main walk: `EnterModelDir` (flush, then rename),
`SkipModel` (what the model argument excludes), `PassItem` (directories that are no
models, files that are not read), `ReadFile`, `EndOfArch` (the final flush), then the two maps.
`PrintRaises` is the exception of a pending list without a name. A table is the path of its
directory with a set of entries; `TableName` is what `file_name_to_table_name` makes of a path, and
`TableNamesAssumption` says that it tells the model directories and the rows of the map files
apart. `Paired` and `Alone` are the rows of the system map, with the place of their table in its list.

**`BigCString`** - a component without a specification of its own: `AddAll`, `Compute` (the
reversed sort), `FoldString`, `EmitString`, `PlaceFolded`. `c_len` counts as the code does;
`Compiled` is what the C compiler makes of the text, character by character and written
independently of `c_len`. `Ordered` is Python's `sorted`.

**`TableLayout`** - extends `BigCString`: `ReadEntry` is what the preprocessing does with an
entry, `ComputeStrings` is `compute`, `StartEvents` and `StartMetrics` sort, `PrintEntry`
prints an offset and begins an array where the PMU changes. `decompress` is the
generated code on the compiled string. `build_c_string`, `decompress` and the doubling of
backslashes are recursive functions over positions, so that they can be proved about.

## 3. Runs

The violation runs check what the README or a comment says of the code, and TLC
shows a behaviour of the code that differs. `MCEventAttr` and `MCParsers` put two components that
share nothing into one run: in each behaviour one of them is called and the other one stands at
its beginning.

| run | instance | shows |
|---|---|---|
| `event_attr` | words of 4 bits; 3 terms out of 7 (a malformed one and `period` among them), 3 format directories (split, overlapping, broken), 2 changes of the device, failing reallocs; and for the loop alone every list of at most 2 ranges, every list of 3 disjoint ones, every value and old content | `AttrMatchesPrefix`, `DriverReadsBack`, `ZeroIffResolvable`, `HeapBalanced`; `OutsideUntouched`, `LastRangeDecides`, `ValueReadsBack` |
| `parsers` | every text of at most 5 characters over two digits, dash, comma and a letter, every two terms of at most 3, with and without member and newline, words of 8 bits; all entries over small sets of values for each key of the json object | `TakesWhatIsWellFormed`, `FirstLineParsed`, `RangesLiveOnSuccess`; `AssignmentsSurvive` |
| `pmu_discovery` | 5 devices, 3 classes (one the prefix of another), every subset present, 1 device that comes or goes, 1 failure, cpu map known or not, all CPUs online or one offline | `StableDevicesFound`, `InstancesAreGenuine`, `CpusAsPublished`, `HeapIsReachable`, and `CallReturns` under fairness |
| `pmu_discovery_cpu` | the same, without changes and failures | `CpuStandsAlone` fails: `default_core` gets "cpu" and what `readdir` returned before it |
| `pmu_discovery_online` | the same | `CpusOfTheSystem` fails: the last CPU is missed when one below it is offline |
| `read_event` | a core PMU and 2 uncore ones of one class, 4 names (in both tables, twice in one, in one only, unknown), 3 type numbers, 2 changes of devices, 1 failing call, SIGTERM | `CountersAsAsked`, `ReleasedOnExit`, and `StopsAfterSigterm` under fairness |
| `map_for_cpu` | 2 CPUs, 4 ids, 3 Arm rows: a late version of a part, another part, an early version of the first | `SearchCacheSound`, refinement of `CpuLookup` |
| `arm_cpuid` | 5 CPUs, numbers of one and two digits, every set of them online, 2 changes, 1 failing call, buffers of 3 and 2 characters | `NothingLost`, `MapIsOnlineList`, `IdentityFound`, `OnlyIdKept`; no array overflows (`TypeOK`) |
| `metric_group` | up to 4 of the 14 names of at most 3 characters over one character below the backslash and one above | `FoundUnlessExtended`, `StaysInInterval`, and `SearchEnds` under fairness |
| `event_string_base` | the entries of `parsers` | `EveryValueSurvives` fails: two decimal digits are read in base 16 |
| `event_tables` | every tree of 5 directories and 9 files in 2 architectures, 3 kinds of content, 3 model arguments; every subset of 3 files of standard events and 3 files that refer to them | `StandardEventsOwn`, `ReadEntriesKept`, `TablesMatchDirectories`, `RowsGiveTheirModel`, `SysTablesMappedOnce` |
| `table_layout` | every sequence of up to 4 of 8 entries of PMUs whose names end one another or differ in a comma, with escapes and doubled backslashes | `OffsetsReadBack`, `FoldedIntoWritten`, `ArraysDefinedOnce`, `EntriesReadBack` |

**Why the bounds suffice.** In four bits a range may begin at 0, end at the top, cover
one bit or all of them, and three disjoint ranges leave gaps; the code treats
positions alike, and the proofs cover every width. Three terms are two that meet in a
member and one that fails before, between or behind them; two changes of a device are
away and back. Five characters hold a pair with a sign too many, two terms with an empty one
between them, and a number that does not fit into the 8 bits; the loop of
`parse_range_list` keeps nothing of a term but its range. One device that comes or
goes interferes at every system call of the scan, and a second failure cannot meet the
first one's remains, which `HeapIsReachable` shows to be none. In `read_event` two changes are
what it takes to give a device's number to another one, and a name is in no, one or
several tables. Two CPUs and four ids fill both caches with each other's content in
every order. In `arm_cpuid` the text is longer than both buffers, which are of different
size, so that each is full at every place of it; cut short, it names other CPUs than the
whole one (1 for 10); an array that grows by 2 is full within a range and between two;
two changes let the list name CPUs that are gone, and let the one asked for come back.
Four rows give the binary search both directions twice. The tree has every kind of
place the walk tells apart: a file at the root, in a model, in a sys below a model, in a
vendor directory, and in a second architecture; the standard events of both architectures have
the same name, so that either may be missing, replaced or taken from the other. Four entries are two PMUs whose
metrics come with and without a description, and up to eight strings, among them a
chain of three suffixes with a stranger.

`CHECK_DEADLOCK FALSE` is given where a run of the program ends: all but
`map_for_cpu`, whose caller can always call again.

**Fairness.** Only that the thread that made the call keeps running:
`WF_vars(Step)` in `PmuDiscovery` and in `ReadEvent`, `WF_groupVars(GroupNext)` in `MetricGroupIndex`.
Nothing is asked of the kernel or of the user who sends the signal. The code waits for
nobody (the example sleeps, and a signal or the clock ends that), so an enabled step
of its own is taken as long as the thread is scheduled.

## 4. Proofs

The theorems are in modules of their own, `...Proofs`: one for each part of the system, with the
components that make up that part. Names such as `LoopSpec`, `GroupSpec` and `ParseSpec` keep two
components of one part apart. The theorems hold for every value of the
constants that the named assumptions of the components allow. Each safety
theorem goes the same way: an invariant, the conjunction of named parts, holds in
the initial states, is kept by every step (one lemma per part, in it one case per
action that can disturb it), and implies the property. TLC has checked the invariants on the
runs of their components before they were proved. The theorems are listed in `PROJECT.json`; the
lemmas they rest on are stated with a comment in the modules.

Three kinds of argument come back in all of them. What holds for every number (of ranges, rows,
digits, positions) is proved by the **least counterexample**: a set of natural numbers that is
not empty has a least element. The same shows that a recursive function over
positions has the values its recursion says. And **counting** puts a set in order: where each element
is told from the others by the number of those before it, these numbers fill `0..n-1`, so
a sequence sorted by them exists and each element has its place (`SortedIs`, `RowsArePlaces`,
`OrderedIs`).

**`EventAttrProofs`, bits and the loop** (`WidthAssumption`, `ListsAssumption`: ranges lie inside the word).
What shifts and masks do in words of any width (`MaskOfRange`, `ApplyRangeBit`), what one more
range adds to the bits dealt (`DealtStep`), that disjoint ranges have defined shifts and collect
the value bit by bit (`DisjointShiftsDefined`, `ValueCollected`). On these rest
`OutsideNeverTouched`, `CoveredHoldsValue`, `ValueAlwaysReadsBack` about `ApplyRanges`. `LastRangeDecides`
alone is not inductive: what the next range gets comes from `toApply`, of which it says
nothing. `RestIsShiftedValue` adds that `toApply` is the value shifted by the number of bits
dealt so far. `LoopMakesApplyRangeList` joins the two halves of the module: the operator that
`EventAttr` applies in one step gives what this loop ends with.

**`LookupProofs`** (`CpusAssumption`, `RowsAssumption`, `NullAssumption`: NULL is no row and no id). About
`MapForCpu`: `TypeCorrect`, in particular the loop stops at the terminating row; `SearchCacheAlwaysSound`;
`Implements`, that is `Spec => CpuLookup!Spec`: initial states map to initial states, and
every step is a step or a stutter of `CpuLookup`. The inductive invariant is
`TypeOK`, `SearchCacheSound` and `ScanSound` (no row before the current one
matches): without the last one the row the loop stops at need not be the first.
About `MetricGroupIndex` (`BackslashAssumption`, `NamesAssumption`: names hold neither the end of a C string nor a
backslash; `GroupSetsAssumption`: finite sets of names): `AlwaysInInterval` and
`FoundAlwaysUnlessExtended`. `OrderIsTotal` and `OrderIsStrict` say that Python's order and that of
`strcmp` are orders of texts with an end; `SameOrder` that they agree on two names unless one extends
the other; `RowsArePlaces` that the row of a name is the number of names before it. With
these `HalfIsRight` shows that the half of the interval that is given up does not hold the group.

**`ParserProofs`**, the texts (`LargestAssumption`, `CharsAssumption`, `TextsAssumption`): for texts of any length
and any largest integer
* `AlwaysFirstLine` (`FirstLineParsed`): `LineCut` says that cutting at the first newline of the buffer
  gives the first line of the file, whatever lies behind it;
* `OnlyResultsLive` (`RangesLiveOnSuccess`) from the heap by the place of the call;
* `OnlyWellFormedTaken` (`TakesWhatIsWellFormed`). `TermTaken` compares `parse_range` with the
  meaning of a term, which is stated without `strtoull`: `NumberRead` says what `strtoull` takes and leaves of
  any text, `FormsOf` that a term has at most one dash that makes it a pair. `ListInv` says that the
  ranges so far are those of the terms before the text that is left, and `TermsCounted` that there are as
  many terms as separators in front of an end.

**`ParserProofs`, the event strings** (`CodesAssumption`, `FieldsAssumption`, `TermsAssumption`): `AssignmentsAlwaysSurvive`,
for every set of keys and fixed events and numbers of any size. `StringInv` says which assignments the
string written so far has the meaning of, at each place of the two programs. What `DigitsReadAsHex`
computes is no more than a recursion over digits; `DigitsReadAs` proves that a function with this recursion
exists, from which the numbers of one digit and the hexadecimal ones follow.

**`EventAttrProofs`** (besides `WidthAssumption`: `KeysAssumption`, `TypesAssumption`, `FormatsAssumption`: the
files that parse have defined shifts; `EventsAssumption`: at least one term; `AttrsAssumption`), for event
strings and format files of any length:
* `LeaksAreTheTwoNamed` (`HeapBalanced`) from `LiveInv`, which says what is live at each place of
  the call and not only at its end;
* `SucceedsIffResolvable` (`ZeroIffResolvable`) from `ResolvedInv`: the terms parsed so far are those
  of the string, and those applied so far had a file;
* `AttrAlwaysMatchesPrefix` and `DriverAlwaysReadsBack`: `ApplyRangeListBit` is the loop of
  `apply_range_list_to_val` for any list, and `OneMoreWriter` says that an assignment decides the bits it
  writes and leaves the others. What the driver reads follows with `ValueCollected`, for
  fields that no later term writes into.

**`PmuDiscoveryProofs`** (`TableAssumption`: no class twice; `DevicesAssumption`, `NumeralsAssumption`,
`FileSetsAssumption`, `OnlinesAssumption`, `MapFoundAssumption`), for any number of devices, classes, changes and
failures:
* `InstancesAlwaysGenuine` from `PassInv`, `InstancesInv`, `ResultInv`: an instance has been returned by
  `readdir` in this pass and never twice (`unread` and `given` are disjoint), and classes rise;
* `CpusAlwaysAsPublished` from `CpusInv`, which leaves out the instance whose files are being read;
* `HeapAlwaysReachable` from `LiveInv`: at every moment the heap is what the result reaches, plus the
  class at hand, plus the stream; that objects of different classes differ makes a release take no other
  class's objects;
* `StableDevicesAlwaysFound` from `FoundInv`: in a pass, a device that stays is still unread, at hand, or
  listed; and no more classes below the one at hand have missed one than calls have failed.

**`ReadEventProofs`** (`TypesAssumption`: as many numbers as devices; `DevicesAssumption`, `EntriesAssumption`):
`TypeCorrect`, `ReleasedOnEveryExit`, `CountersAlwaysAsAsked`. The last one says what the counters are once
all are open. What makes it true is spread over the call: `SearchInv` (each
instance scanned so far has one event, from its first entry of the name), `TypedInv`
(which attrs are made), `TypesDistinct` and `KeptInv` (no two devices share a number, so that
a number that was read still leads to its device if that stayed), `CounterInv`.

**`ArmCpuIdProofs`** (`BuffersAssumption`, `FaultsAssumption`, `LimitAssumption`; `CpusAssumption`: numbers below
`INT16_MAX`; `MidrAssumption`, `SeparatorsAssumption`, `NullAssumption`; `DecimalAssumption`: the digits of a number
read back as that number; `RunsAssumption`: the runs are disjoint and make up the set), for buffers of any
size, any set of online CPUs, any number of CPUs, changes and failures:
* `BytesNeverLost` (`NothingLost`), with `IoInv` saying where in the file each buffer is;
* `TypeCorrect`: no buffer and no array is written behind its end, whatever the text;
* `MapAlwaysOnlineList` (`MapIsOnlineList`) from `ListInv`: while no call has failed, what is left of the
  text is that of the last n runs, and the array holds the CPUs of the runs before it, each once. `NumberInFront` and
  `TermRead` say that a term is read as the run it was written for, whatever follows it; `SortedIs` that
  `qsort` gives the set in order. `Number`, `NumberLen` and `LastOnes` are recursive functions over natural
  numbers: the lemmas about them are proved by the least counterexample;
* `IdentityAlwaysFound` (`IdentityFound`): from `AskedInv` (the CPU asked for is still to be tried or was
  offline) and `AnyInv` (a CPU that stays online is in the map and has not been passed);
* `OnlyIdAlwaysKept` from `HeapInv`, the heap by the place of the call.

**`EventTablesProofs`** (`NamesAssumption`, `ArchsAssumption`, `TreesAssumption`, `RowsAssumption`; tables are
named by paths, which `TableNamesAssumption` allows), for every tree, any
number of architectures and every model argument:
* `ReadEntriesAlwaysKept`: `KeptOnce` for events and for metrics, through every flush;
* `StandardEventsAlwaysOwn`: the dictionary holds what the architectures up to the one at hand define, the
  latest one first, and the cache keeps what was right when it was filled;
* `TablesAlwaysMatchDirectories` and `RowsAlwaysGiveTheirModel`: a table is filled under the name of one directory only
  if the walk comes to no other directory before its last file. `NoDirBetween` proves that of every tree
  that is `WellLaidOut`, from the order of the names alone; `OrderInv`, `PlaceInv` and `NameInv` carry it
  along the walk (which directory the pending entries are of), `TablesInv` is the result for the tables
  closed so far, and `RowsInv` keeps it when the program ends with an exception;
* `SysTablesAlwaysMappedOnce`: from the names that `TablesInv` keeps apart, each table has one place in its list, and
  a table of metrics is either paired or left over (`RowsAreUnique`).

**`TableLayoutProofs`**, for any characters, entries and lists of attributes, and tables of any
length. The assumptions: `CharsAssumption` (a backslash, the digits 0 and 1 and the underscore are
characters); `AttributesAssumption` (the first field of an event is its name, of a metric its
metric name, as in lines 42-64 of `jevents.py`; flags are not doubled); `EntriesAssumption` (entries have a PMU, which
line 273 gives them, and flags are one digit); `TextsAssumption` (no text of an entry is compiled to something with
the end of a C string in it: no json file of `src/arch` holds `\0`).
* `AlwaysFoldedIntoWritten` (`FoldedIntoWritten`) from `FoldingInv`: each of the first `pos` sorted strings has
  been folded into the last one that begins with it. Why that one is written itself, and why none is
  missed though the scan stops at the first string that does not begin with it: `LessIsTotal` and `BetweenPrefixes`
  say that the strings that begin with one stand behind it without a gap (`BestIsLast`).
* `AlwaysOffsetsReadBack` (`OffsetsReadBack`) from `OffsetsInv`: what is written or placed so far stands in the
  compiled big string at its offset. `CLenIs` is what makes the offsets right: three counts of patterns
  that may overlap give the number of compiled characters. `CompiledConcat` lets strings be compiled
  one by one: every string that is added has no backslash among its last three characters (`BuildClosed`),
  without which an escape could take in what stands behind it.
* `AlwaysArraysDefinedOnce` (`ArraysDefinedOnce`), in both directions, from `PrintInv`: the arrays are the sorted
  entries cut where the PMU changes, and two arrays of one PMU have an entry of another one between
  them. `EventArrays` and `MetricArrays` say when that can be under the two keys.
* `AlwaysEntriesReadBack` (`EntriesReadBack`) from `OffsetsInv`, `PrintInv` and `AddedInv` (what is printed was
  added). `DecompressIs` is the round trip of one entry, and rests on `NulIsLast`: the \000 that `build_c_string`
  writes behind a text is a character of its own, whatever the text ends with, as
  long as the string is one of those `PlainEscapes` allows; `ExcessConcat` says that then each beginning of it is, too.
The properties keep their condition `PlainEscapes`: section 5 says what happens without it.

**Only model-checked, and why.** Liveness (`CallReturns`, `SearchEnds`, `StopsAfterSigterm`) and `ENABLED` are
out of the prover's reach. All other properties of the passing runs are proved. Of the
inductive invariants, `PrintInv` is the one TLC has not evaluated: it says that an order and a cut
exist, over sets TLC cannot enumerate. `EveryValueSurvives`, `CpuStandsAlone` and `CpusOfTheSystem`
are false, and their runs show that.

## 5. Where code and comments part

The violation runs are findings in `PROJECT.json`:

* **Two digits** (`pmu-events.c:359`): 82 x86 events of this commit have a decimal field of two or more
  digits, such as a `CounterMask` of 16, which is read as 0x16 (`EveryValueSurvives`).
* **"cpu" among others** (`pmu-events.c:839`, comment at 788-789): directories with a cpus
  file that `readdir` returns before "cpu" stay instances of `default_core`, those behind it are
  left out (`CpuStandsAlone`).
* **all_cpus** (`pmu-events.c:522`, comments at 513 and 969): the number of online CPUs is taken for
  one more than the number of the last one, which differs if a CPU below it is offline (`CpusOfTheSystem`).

Behaviours the models contain but no run is spent on, because the properties that
hold are stated around them:

* **Groups that are not found** (`jevents.py:925`): Python sorts the names with the four
  characters `\000` behind them, `describe_metricgroup` searches with `strcmp`; where one name
  is another one with a capital or a digit behind it, the rows are out of order for the
  search. `FoundUnlessExtended` excludes these names. The x86 groups "Bad" and
  "MemOffcore" are not found.
* **Keys that are lost** (`pmu-events.c:423`, comment at 327-328): a term that does not parse
  releases the array of assignments and not the keys of the terms before it, and a type file
  without a number (line 685) neither the file nor its content; `HeapBalanced` names both. No
  table has a malformed term (22354 x86 and 1815 arm64 event strings were parsed).
* **A class too many** (`pmu-events.c:1044`): `num_classes` is incremented before the realloc;
  when it fails `free_pmus` reads and frees what lies behind the array: `pc = "wild"`.
* **"5--3"** (`pmu-events.c:190`): the second number of a range may have a sign of its own;
  `TakesWhatIsWellFormed` allows these texts. No kernel writes them.
* **A list cut short** (`aarch64/util.h:100`): a read that fails is taken for the end of the
  file, and what came before it for the list; `MapIsOnlineList` asks for the whole list
  only if no call has failed. If nothing came before it, the map is that of any CPU and
  the assertion in line 442 fails: `pc = "aborted"`.
* **No memory for a map** (`aarch64/util.h:391`): the result of malloc is used without a look at
  it; the models let this malloc succeed.
* **The size that is cleared** (`main.c:159`): the memset begins at `attr.size`, so the kernel
  is given a size of 0 and ignores `config2`. The model leaves the size out: a property of it would
  say again what the memset does.
* **Ctrl+C** (`main.c:189`): the handler is set for SIGTERM, the text printed speaks of Ctrl+C, whose SIGINT
  ends the process without it; `StopsAfterSigterm` is about SIGTERM.
* **Other numbers** (`main.c:172`): a device that is gone when its counter is opened may have
  left its number to another one; `CountersAsAsked` asks for the right device only if it stayed.
* **Arrays written twice** (`jevents.py:527`, `jevents.py:568`): where two PMU names differ in a
  comma only, or two PMUs have metrics with and without a description; `ArraysDefinedOnce` says
  exactly when. No directory of this commit has such entries.
* **get_pmus on an unknown CPU** (`pmu-events.c:1022`): `map_for_cpu` returns NULL and
  the result is dereferenced; the model ends in `pc = "crashed"`.
* **A bare underscore** (`pmu-events.c:936`, comments at 892 and 933): behind the underscore a number should
  follow, but `strtoul` accepts no digits at all, so "foo_" is taken for an instance of "foo";
  `InstancesAreGenuine` says nothing of such a name. The kernel gives no device one.
* **Empty cpumask** (`pmu-events.c:975`, comment at 966-967): a file that is there and
  empty gives way to all CPUs; `CpusAsPublished` says nothing of a device whose only files are empty.
* **A class lost in a success** (`pmu-events.c:1030`): when the scan of a class fails
  the others are returned with 0; `StableDevicesFound` allows one class per failure.
* **Stale results** (`jevents.py:875`): the last result of a CPU number is given again
  without a look at its identity, the NULL of a failed identification included;
  `CpuLookup` allows it.
* **Standard events of others** (`jevents.py:484`): the dictionary of standard events is never
  emptied, so an architecture that does not define a name is given an earlier one's instead of the
  error; `StandardEventsOwn` allows it. Every `ArchStdEvent` of this commit is defined in
  its own architecture.
* **Files behind sys** (`jevents.py:668`): files of a model whose names sort behind
  its sys directory go into the sys table; `WellLaidOut` excludes them. No directory
  has such files.
* **Escapes** (`jevents.py:155`): a string that is the end of another one in the middle
  of an escape gets a wrong offset; `PlainEscapes` excludes it. All 24352 x86 and
  2325 arm64 strings read back at their offsets.

## 6. Not modelled, and simplifications

* `metric.py`: parses, simplifies and rewrites expressions of Python objects, recursively and
  without state; the C library keeps metrics as texts.
* x86 `CPUID` and the regular expressions behind `strcmp_cpuid_str`: the constant `Matching`.
  (A row whose regular expression has one character range, such as `[0-9]`, would have
  three dashes and be taken for one with a stepping; no row of the map file has.)
* Standard events in `EventString`: the one that is found is given, and `EventTables` says which one that is.
* `list_events` of the example, which prints, and the unit tests.
* `EventAttr` and `PmuDiscovery` take the outcome of the parsers as data, which `RangeLists` shows to
  be the one range for each term that the text says.
* Failures of `malloc` and `strdup` other than those named in the modules.
* Range lists that are reversed or beyond 63 in `EventAttr`: no kernel driver writes them.
* The poll of `io__fill_buffer`: its timeout is 0 in all uses.
* Characters above 127 in the reader, and blanks before a number: sysfs has none.
* The C names of tables, which run the names below the architecture together: tables are paths, under the assumption that
  the names tell the model directories apart (`TableNamesAssumption`, checked on the trees of the run; it holds for
  the 132 names of this commit, where only "thead", which is no model directory, is in two architectures).
* Several threads: the library does not claim to allow them.

## 7. Plan

Done: the modules of section 2, the composition of the library's calls in `ReadEvent`, and the
proofs of section 4, which cover every safety property of the passing runs. What is left is
`MetricExpr`: `Simplify` and the rewriting of metrics, checked against evaluation over
small expressions (recursive operators, TLC only).
