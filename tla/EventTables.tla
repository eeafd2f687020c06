----------------------------- MODULE EventTables -----------------------------
(***************************************************************************)
(* The two walks of src/jevents.py.  The first one reads, architecture by  *)
(* architecture, the standard events in its root, then all other files,    *)
(* whose entries may refer to a standard event by its name; what it has    *)
(* read is kept (the lru_cache of read_json_events) for the second walk.   *)
(* The dictionary of standard events goes from one architecture to the     *)
(* next and is never emptied.                                              *)
(*                                                                         *)
(* The main walk goes through the tree in the order of the names; every    *)
(* model directory becomes one table of events and one of metrics, and the *)
(* map file then points the cpuids at those tables.                        *)
(*                                                                         *)
(* The walk keeps one pending list of each kind and writes it out, under   *)
(* the name of the model directory it entered last, when it enters the     *)
(* next one.                                                               *)
(*                                                                         *)
(* Paths begin with the architecture.  The C name of a table leaves that   *)
(* out and runs the other names together (TableName), but it is assumed to *)
(* tell the model directories apart, so that a table is named by the path  *)
(* of its directory here.                                                  *)
(***************************************************************************)
EXTENDS Integers, FiniteSets, SequencesExt

CONSTANTS
    Archs,      \* the architectures, in their order
    Names,      \* all names of files and directories, in their order
    Words,      \* the parts of a name between its hyphens and underscores
    Sys,        \* the name "sys"
    Trees,      \* the trees that are tried: sets of items
    Selections, \* what the model argument lets through
    Rows,       \* the directories in the third column of the map files
    FixedRows,  \* the rows written without a map file: [dir, events, metrics]
    None        \* no table yet, or a table that is not written

ASSUME NamesAssumption == Names \in Seq(Range(Names)) /\ IsInjective(Names) /\ Sys \in Range(Names)
ASSUME ArchsAssumption == Archs \in Seq(Range(Archs)) /\ IsInjective(Archs) /\ Archs # <<>>

\* The rows of the map files are about models, not about their sys directories.
ASSUME RowsAssumption == \A r \in Rows : r # None /\ Last(r) # Sys

(***************************************************************************)
(* An item is [path, dir, json, entries], below one of the architectures   *)
(* and in directories that are items, too.  The entries of a file are      *)
(* records [pmu, name, metric, std], whose name or metric may be None; std *)
(* is the standard event the entry refers to, or None.  Once it is read,   *)
(* an entry has also the file its standard event is from.                  *)
(***************************************************************************)
ASSUME TreesAssumption ==
    \A t \in Trees : \A x \in t :
        /\ x.path \in Seq(Range(Names)) \ {<<>>}
        /\ x.path # None
        /\ Len(x.path) > 1 /\ x.path[1] \in Range(Archs)
        /\ \A n \in 2..(Len(x.path) - 1) :
              \E d \in t : d.dir /\ d.path = SubSeq(x.path, 1, n)
        /\ \A y \in t : x.path = y.path => x = y

\* is_leaf_dir_ignoring_sys, in the tree t
LeafDir(it, t) ==
    /\ it.dir
    /\ ~ \E sub \in t : sub.dir /\ Front(sub.path) = it.path /\ Last(sub.path) # Sys

\* file_name_to_table_name: the names below the architecture are joined by the
\* underscore that also replaces their hyphens.
TableName(path) == FlattenSeq([i \in 1..(Len(path) - 1) |-> Words[path[i + 1]]])

\* The C names tell the model directories and the directories of the rows apart.
ASSUME TableNamesAssumption ==
    \A t \in Trees :
        LET paths == {d.path : d \in {x \in t : LeafDir(x, t)}} \cup Rows
        IN  \A p, q \in paths : TableName(p) = TableName(q) => p = q

VARIABLES
    tree,         \* the items under the starting directory
    selection,    \* [level, dirs]
    pc,           \* "std", "walk", "map", "sysmap", "done", "raised"
    std,          \* _arch_std_events: [file, entry] by name
    cache,        \* what read_json_events has returned, by path
    archNr,       \* the architecture that is walked
    todo,         \* the items that are not visited yet
    tblname,      \* the directory that names the pending tables
    pendingEvents, pendingMetrics,
    eventTables, metricTables, \* the tables written: [name, entries]
    sysNames,     \* the keys of _sys_event_table_to_metric_table_mapping
    cpuMap,       \* the rows of pmu_events_map
    sysMap        \* the rows of pmu_sys_event_tables

walk == <<archNr, todo>>
written == <<eventTables, metricTables>>
pending == <<pendingEvents, pendingMetrics>>
inputs == <<tree, selection>>
standard == <<std, cache>>
maps == <<cpuMap, sysMap>>
vars == <<inputs, standard, pc, walk, tblname, pending, written, sysNames, maps>>

-----------------------------------------------------------------------------
Rank(name) == CHOOSE i \in DOMAIN Names : Names[i] = name

\* sorted(os.scandir(path)), with the contents of a directory right behind it
Before(p, q) ==
    \/ IsStrictPrefix(p, q)
    \/ \E i \in DOMAIN p \cap DOMAIN q :
          /\ SubSeq(p, 1, i - 1) = SubSeq(q, 1, i - 1)
          /\ Rank(p[i]) < Rank(q[i])

InArch == {it \in todo : it.path[1] = Archs[archNr]}
IsNext(it) == \A other \in InArch \ {it} : Before(it.path, other.path)

\* len(parents)
Level(it) == Len(it.path) - 2

IsModelDir(it) == LeafDir(it, tree)

IsSysTable(name) == Last(name) = Sys

\* The model argument restricts the directories of one level.
LetThrough(it) == it.dir /\ Level(it) = selection.level => it.path \in selection.dirs

\* The files whose entries are read: below the root of their architecture, and
\* in no directory that was left out
Walked(it) ==
    /\ ~ it.dir /\ it.json /\ Level(it) \in 1..4
    /\ \A d \in tree : d.dir /\ IsPrefix(d.path, it.path) => LetThrough(d)

EventsOf(it) ==
    {[file |-> it.path, entry |-> e] : e \in {x \in cache[it.path] : x.name # None}}
MetricsOf(it) ==
    {[file |-> it.path, entry |-> e] : e \in {x \in cache[it.path] : x.metric # None}}

-----------------------------------------------------------------------------
\* The assertion of print_pending_events
Duplicates(events) ==
    \E x, y \in events : x # y /\ x.entry.pmu = y.entry.pmu /\ x.entry.name = y.entry.name

CanPrint ==
    /\ pendingEvents # {} => tblname # None /\ ~ Duplicates(pendingEvents)
    /\ pendingMetrics # {} => tblname # None

Close(tables, entries) ==
    IF entries = {} THEN tables ELSE Append(tables, [name |-> tblname, entries |-> entries])

\* Mutant: the pending lists are not emptied.
PrintPending_NoReset ==
    /\ eventTables' = Close(eventTables, pendingEvents)
    /\ metricTables' = Close(metricTables, pendingMetrics)
    /\ UNCHANGED pending

\* print_pending_events and print_pending_metrics
PrintPending ==
    /\ eventTables' = Close(eventTables, pendingEvents)
    /\ metricTables' = Close(metricTables, pendingMetrics)
    /\ pendingEvents' = {}
    /\ pendingMetrics' = {}

Init ==
    /\ tree \in Trees
    /\ selection \in Selections
    /\ pc = "std"
    /\ std = <<>>
    /\ cache = <<>>
    /\ archNr = 1
    /\ todo = tree
    /\ tblname = None
    /\ pendingEvents = {} /\ pendingMetrics = {}
    /\ eventTables = <<>> /\ metricTables = <<>>
    /\ sysNames = {}
    /\ cpuMap = {} /\ sysMap = {}

-----------------------------------------------------------------------------
(***************************************************************************)
(* JsonEvent.__init__: what the standard event defines and the entry does  *)
(* not is copied.                                                          *)
(***************************************************************************)
Resolvable(it) == \A e \in it.entries : e.std # None => e.std \in DOMAIN std
Inherit(own, copied) == IF own = None THEN copied ELSE own
Resolved(e) ==
    IF e.std = None
    THEN [pmu |-> e.pmu, name |-> e.name, metric |-> e.metric, std |-> None, from |-> <<>>]
    ELSE LET origin == std[e.std]
         IN  [pmu |-> e.pmu, std |-> e.std, from |-> origin.file,
              name |-> Inherit(e.name, origin.entry.name),
              metric |-> Inherit(e.metric, origin.entry.metric)]
ReadEntries(it) == {Resolved(e) : e \in it.entries}

StdFiles == {it \in InArch : ~ it.dir /\ it.json /\ Level(it) = 0}

\* Every entry goes into the dictionary under its name and its metric's name.
Defined(it) == {e.name : e \in ReadEntries(it)} \cup {e.metric : e \in ReadEntries(it)}
StdEvents(it) ==
    [n \in Defined(it) \ {None} |->
        [file |-> it.path, entry |-> CHOOSE e \in ReadEntries(it) : n \in {e.name, e.metric}]]

\* What is in a dictionary when new has been assigned to it
Update(dict, new) ==
    [k \in DOMAIN dict \cup DOMAIN new |-> IF k \in DOMAIN new THEN new[k] ELSE dict[k]]

\* preprocess_arch_std_files, for one file; scandir returns them in any order.
ReadStdFile ==
    /\ pc = "std"
    /\ \E it \in StdFiles :
        /\ Resolvable(it)
        /\ std' = Update(std, StdEvents(it))
        /\ todo' = todo \ {it}
    /\ UNCHANGED <<inputs, cache, pc, archNr, tblname, pending, written, sysNames, maps>>

FilesOfArch == {it \in tree : it.path[1] = Archs[archNr] /\ Walked(it)}
ReadFilesOfArch ==
    [path \in {it.path : it \in FilesOfArch} |->
        ReadEntries(CHOOSE it \in FilesOfArch : it.path = path)]

\* preprocess_one_file for all files of the architecture: none of them changes
\* what another one is given.
PreprocessArch ==
    /\ pc = "std"
    /\ StdFiles = {}
    /\ \A it \in FilesOfArch : Resolvable(it)
    /\ cache' = Update(cache, ReadFilesOfArch)
    /\ IF archNr = Len(Archs)
       THEN pc' = "walk" /\ archNr' = 1 /\ todo' = tree
       ELSE archNr' = archNr + 1 /\ UNCHANGED <<pc, todo>>
    /\ UNCHANGED <<inputs, std, tblname, pending, written, sysNames, maps>>

\* "Cannot find arch std event"
PreprocessRaises ==
    /\ pc = "std"
    /\ \/ \E it \in StdFiles : ~ Resolvable(it)
       \/ StdFiles = {} /\ \E it \in FilesOfArch : ~ Resolvable(it)
    /\ pc' = "raised"
    /\ UNCHANGED <<inputs, standard, walk, tblname, pending, written, sysNames, maps>>

-----------------------------------------------------------------------------
\* ftw leaves a directory out that the model argument does not name.
SkipModel(it) ==
    /\ ~ LetThrough(it)
    /\ todo' = {other \in todo : ~ IsPrefix(it.path, other.path)}
    /\ UNCHANGED <<inputs, standard, pc, archNr, tblname, pending, written, sysNames, maps>>

Visit(it) == LetThrough(it) /\ todo' = todo \ {it}

\* Mutant: the table is renamed before the pending one is written out.
EnterModelDir_RenameFirst(it) ==
    /\ Visit(it)
    /\ IsModelDir(it)
    /\ CanPrint
    /\ tblname' = it.path
    /\ eventTables' = IF pendingEvents = {} THEN eventTables
                      ELSE Append(eventTables, [name |-> it.path, entries |-> pendingEvents])
    /\ metricTables' = IF pendingMetrics = {} THEN metricTables
                       ELSE Append(metricTables, [name |-> it.path, entries |-> pendingMetrics])
    /\ pendingEvents' = {} /\ pendingMetrics' = {}
    /\ sysNames' = sysNames \cup (IF IsSysTable(it.path) THEN {it.path} ELSE {})
    /\ UNCHANGED <<inputs, standard, pc, archNr, maps>>

EnterModelDir(it) ==
    /\ Visit(it)
    /\ IsModelDir(it)
    /\ CanPrint
    /\ PrintPending
    /\ tblname' = it.path
    /\ sysNames' = sysNames \cup (IF IsSysTable(it.path) THEN {it.path} ELSE {})
    /\ UNCHANGED <<inputs, standard, pc, archNr, maps>>

\* Other directories, files in the root of the architecture or too deep, and
\* files that are not json files of events
PassItem(it) ==
    /\ Visit(it)
    /\ ~ IsModelDir(it)
    /\ ~ it.dir /\ it.json => Level(it) \notin 1..4
    /\ UNCHANGED <<inputs, standard, pc, archNr, tblname, pending, written, sysNames, maps>>

\* Mutant: without the lru_cache the file is read again, with the dictionary as
\* the first walk has left it.
ReadFile_Again(it) ==
    /\ Visit(it)
    /\ ~ it.dir
    /\ it.json
    /\ Level(it) \in 1..4
    /\ LET found == {[file |-> it.path, entry |-> e] : e \in ReadEntries(it)}
       IN  /\ pendingEvents' = pendingEvents \cup {x \in found : x.entry.name # None}
           /\ pendingMetrics' = pendingMetrics \cup {x \in found : x.entry.metric # None}
    /\ UNCHANGED <<inputs, standard, pc, archNr, tblname, written, sysNames, maps>>

\* add_events_table_entries
ReadFile(it) ==
    /\ Visit(it)
    /\ ~ it.dir
    /\ it.json
    /\ Level(it) \in 1..4
    /\ pendingEvents' = pendingEvents \cup EventsOf(it)
    /\ pendingMetrics' = pendingMetrics \cup MetricsOf(it)
    /\ UNCHANGED <<inputs, standard, pc, archNr, tblname, written, sysNames, maps>>

\* ftw comes to the next item.
VisitNext ==
    /\ pc = "walk"
    /\ \E it \in InArch :
        /\ IsNext(it)
        /\ SkipModel(it) \/ EnterModelDir(it) \/ PassItem(it) \/ ReadFile(it)

\* The tables are closed at the end of an architecture, but keep their name.
EndOfArch ==
    /\ pc = "walk"
    /\ InArch = {}
    /\ CanPrint
    /\ PrintPending
    /\ IF archNr = Len(Archs)
       THEN pc' = "map" /\ archNr' = archNr
       ELSE pc' = pc /\ archNr' = archNr + 1
    /\ UNCHANGED <<inputs, standard, todo, tblname, sysNames, maps>>

\* "Duplicate event", or a table without a name
PrintRaises ==
    /\ pc = "walk"
    /\ \A it \in InArch : IsNext(it) => LetThrough(it) /\ IsModelDir(it)
    /\ ~ CanPrint
    /\ pc' = "raised"
    /\ UNCHANGED <<inputs, standard, walk, tblname, pending, written, sysNames, maps>>

TableNames(tables) == {t.name : t \in Range(tables)}
Written(dir, tables) == IF dir \in TableNames(tables) THEN dir ELSE None

\* Mutant: a row is left out when either of its tables is missing.
CpuRows_NeedsBoth ==
    {[dir |-> r, events |-> r, metrics |-> r] :
        r \in Rows \cap TableNames(eventTables) \cap TableNames(metricTables)}

\* A row with neither table is left out.
CpuRows ==
    {[dir |-> r, events |-> Written(r, eventTables), metrics |-> Written(r, metricTables)] :
        r \in {x \in Rows : x \in TableNames(eventTables) \cup TableNames(metricTables)
                            /\ ~ IsSysTable(x)}}

\* print_mapping_table
PrintMapping ==
    /\ pc = "map"
    /\ cpuMap' = CpuRows \cup FixedRows
    /\ pc' = "sysmap"
    /\ UNCHANGED <<inputs, standard, walk, tblname, pending, written, sysNames, sysMap>>

SysTables(tables) == {name \in TableNames(tables) : IsSysTable(name)}
SysPlaces(tables) == {i \in DOMAIN tables : IsSysTable(tables[i].name)}

\* The row of the i-th table of events, and of a table of metrics on its own
Paired(i) ==
    [nr |-> i, events |-> eventTables[i].name, metrics |-> Written(eventTables[i].name, metricTables)]
Alone(i) == [nr |-> i, events |-> None, metrics |-> metricTables[i].name]

\* Mutant: metric tables that were already paired are written once more.
SysRows_PairedAgain ==
    {Paired(i) : i \in SysPlaces(eventTables)} \cup {Alone(i) : i \in SysPlaces(metricTables)}

\* The metrics of a sys table go into its row; those left over get a row.
SysRows ==
    {Paired(i) : i \in SysPlaces(eventTables)}
    \cup {Alone(i) : i \in {j \in SysPlaces(metricTables) :
                                metricTables[j].name \notin SysTables(eventTables)}}

\* print_system_mapping_table, which looks every sys table up in the mapping
PrintSystemMapping ==
    /\ pc = "sysmap"
    /\ SysTables(eventTables) \subseteq sysNames
    /\ sysMap' = SysRows
    /\ pc' = "done"
    /\ UNCHANGED <<inputs, standard, walk, tblname, pending, written, sysNames, cpuMap>>

Next ==
    \/ ReadStdFile
    \/ PreprocessArch
    \/ PreprocessRaises
    \/ VisitNext
    \/ EndOfArch
    \/ PrintRaises
    \/ PrintMapping
    \/ PrintSystemMapping

Spec == Init /\ [][Next]_vars

-----------------------------------------------------------------------------
Visited == tree \ todo
DirOf(it) == Front(it.path)

\* The layout the walk is written for: files are in model directories only,
\* and none of their names comes behind "sys" when there is such a directory.
WellLaidOut ==
    \A it \in tree : Walked(it) =>
        \A d \in tree : d.path = DirOf(it) =>
            /\ IsModelDir(d)
            /\ \A s \in tree : s.dir /\ DirOf(s) = d.path => Rank(Last(it.path)) < Rank(Last(s.path))

EventsIn(dir) == UNION {EventsOf(it) : it \in {x \in tree : Walked(x) /\ DirOf(x) = dir}}
MetricsIn(dir) == UNION {MetricsOf(it) : it \in {x \in tree : Walked(x) /\ DirOf(x) = dir}}

EntriesOfTable(dir, tables) ==
    UNION {t.entries : t \in {x \in Range(tables) : x.name = dir}}

KeptOnce(all, waiting, tables) ==
    /\ all = waiting \cup UNION {t.entries : t \in Range(tables)}
    /\ \A i \in DOMAIN tables :
          /\ tables[i].entries \cap waiting = {}
          /\ \A j \in DOMAIN tables \ {i} : tables[i].entries \cap tables[j].entries = {}

(***************************************************************************)
(* No event or metric is lost or written twice by the flushing: at every   *)
(* point of the walk what was read is either pending or in one table.      *)
(***************************************************************************)
ReadEntriesKept ==
    LET read == {it \in Visited : Walked(it)}
    IN  /\ KeptOnce(UNION {EventsOf(it) : it \in read}, pendingEvents, eventTables)
        /\ KeptOnce(UNION {MetricsOf(it) : it \in read}, pendingMetrics, metricTables)

ArchRank(path) == CHOOSE i \in DOMAIN Archs : Archs[i] = path[1]
DefinesStd(arch, name) ==
    \E it \in tree : /\ it.path[1] = arch /\ ~ it.dir /\ it.json /\ Level(it) = 0
                     /\ \E e \in it.entries : name \in {e.name, e.metric}

\* Where the standard event of an entry may be from
OwnOrEarlier(file, entry) ==
    IF DefinesStd(file[1], entry.std)
    THEN entry.from[1] = file[1]
    ELSE ArchRank(entry.from) <= ArchRank(file)

(***************************************************************************)
(* What is written for an entry that refers to a standard event is that of *)
(* its own architecture, if that defines it, though the dictionary holds   *)
(* those of all architectures and a later one replaces an earlier one of   *)
(* the same name before the tables are written.  Only if its own does not  *)
(* define it an entry is given one of another architecture, an earlier     *)
(* one (or its own again, if a root file takes it over from there).        *)
(***************************************************************************)
StandardEventsOwn ==
    \A x \in pendingEvents \cup pendingMetrics
              \cup UNION {t.entries : t \in Range(eventTables) \cup Range(metricTables)} :
        x.entry.std # None => OwnOrEarlier(x.file, x.entry)

(***************************************************************************)
(* In a well laid out tree the tables written for a directory hold what    *)
(* its files hold and nothing else, and no table has the name of an        *)
(* earlier one, which would not compile.                                   *)
(***************************************************************************)
TablesMatchDirectories ==
    WellLaidOut =>
        /\ \A t \in Range(eventTables) : t.entries = EventsIn(t.name)
        /\ \A t \in Range(metricTables) : t.entries = MetricsIn(t.name)
        /\ \A tables \in {eventTables, metricTables} :
              Cardinality(TableNames(tables)) = Len(tables)

(***************************************************************************)
(* In a well laid out tree, when all is written, a map file row whose      *)
(* directory has any events or metrics gives its cpus all of them.         *)
(***************************************************************************)
RowsGiveTheirModel ==
    pc = "done" /\ WellLaidOut =>
        \A r \in Rows : EventsIn(r) \cup MetricsIn(r) # {} =>
            \E row \in cpuMap :
                /\ row.dir = r
                /\ (IF row.events = None THEN {} ELSE EntriesOfTable(r, eventTables)) = EventsIn(r)
                /\ (IF row.metrics = None THEN {} ELSE EntriesOfTable(r, metricTables)) = MetricsIn(r)

(***************************************************************************)
(* In a well laid out tree every table of a sys directory is in exactly    *)
(* one row of the system map when all is written: the metrics of a         *)
(* directory that has events, too, are not written a second time.          *)
(***************************************************************************)
SysTablesMappedOnce ==
    pc = "done" /\ WellLaidOut =>
        /\ \A t \in SysTables(eventTables) : Cardinality({r \in sysMap : r.events = t}) = 1
        /\ \A t \in SysTables(metricTables) : Cardinality({r \in sysMap : r.metrics = t}) = 1
=============================================================================
