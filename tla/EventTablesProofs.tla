------------------------- MODULE EventTablesProofs -------------------------
(***************************************************************************)
(* Theorems about the walks of src/jevents.py, for every tree, any number  *)
(* of architectures, any model argument and any map file.                  *)
(***************************************************************************)
EXTENDS EventTables, TLAPS, FiniteSetTheorems, SequenceTheorems

-----------------------------------------------------------------------------
(* Lemmas about paths. *)

Paths == Seq(Range(Names)) \ {<<>>}

\* What a prefix is, element by element.
LEMMA PrefixElements ==
    ASSUME NEW p \in Paths, NEW q \in Paths
    PROVE  IsPrefix(p, q) <=> Len(p) <= Len(q) /\ \A i \in 1..Len(p) : p[i] = q[i]
<1>1. p \in Seq(Range(Names)) /\ q \in Seq(Range(Names)) /\ Len(p) \in Nat /\ Len(q) \in Nat
    BY DEF Paths
<1>2. SubSeq(p, 1, Len(p)) = p
    BY <1>1, SubSeqFull
<1>3. ASSUME Len(p) <= Len(q)
      PROVE  /\ SubSeq(q, 1, Len(p)) \in Seq(Range(Names))
             /\ Len(SubSeq(q, 1, Len(p))) = Len(p)
             /\ \A i \in 1..Len(p) : SubSeq(q, 1, Len(p))[i] = q[i]
    <2>1. \A i \in 1..Len(p) : q[i] \in Range(Names)
        BY <1>1, <1>3
    <2>2. QED
        BY <1>1, <1>3, <2>1
<1>4. ASSUME Len(p) <= Len(q), \A i \in 1..Len(p) : p[i] = q[i]
      PROVE  p = SubSeq(q, 1, Len(p))
    <2> DEFINE front == SubSeq(q, 1, Len(p))
    <2>1. front \in Seq(Range(Names)) /\ Len(front) = Len(p) /\ \A i \in 1..Len(p) : p[i] = front[i]
        BY <1>3, <1>4
    <2> HIDE DEF front
    <2>2. p = front
        BY <1>1, <2>1, SeqEqual
    <2>3. QED
        BY <2>2 DEF front
<1>5. QED
    BY <1>1, <1>2, <1>3, <1>4 DEF IsPrefix

LEMMA PrefixesChain ==
    ASSUME NEW p \in Paths, NEW q \in Paths, NEW r \in Paths, IsPrefix(p, q), IsPrefix(q, r)
    PROVE  IsPrefix(p, r)
<1>1. Len(p) \in Nat /\ Len(q) \in Nat /\ Len(r) \in Nat
    BY DEF Paths
<1>2. /\ Len(p) <= Len(q) /\ \A i \in 1..Len(p) : p[i] = q[i]
      /\ Len(q) <= Len(r) /\ \A i \in 1..Len(q) : q[i] = r[i]
    BY PrefixElements
<1>3. Len(p) <= Len(r) /\ \A i \in 1..Len(p) : i \in 1..Len(q)
    BY <1>1, <1>2
<1>4. QED
    BY <1>2, <1>3, PrefixElements

\* A directory comes before what is in it.
LEMMA InsideComesLater ==
    ASSUME NEW p \in Paths, NEW q \in Paths, IsPrefix(p, q)
    PROVE  ~ Before(q, p)
<1>1. Len(p) \in Nat /\ Len(q) \in Nat /\ DOMAIN p = 1..Len(p) /\ \A i \in DOMAIN p : p[i] \in Range(Names)
    BY DEF Paths
<1>2. Len(p) <= Len(q) /\ \A i \in DOMAIN p : p[i] = q[i]
    BY <1>1, PrefixElements
<1>3. ~ IsStrictPrefix(q, p)
    <2>1. SUFFICES ASSUME IsStrictPrefix(q, p)
                   PROVE  FALSE
        OBVIOUS
    <2>2. IsPrefix(q, p) /\ q # p
        BY <2>1 DEF IsStrictPrefix
    <2>3. Len(q) <= Len(p)
        BY <2>2, PrefixElements
    <2>4. Len(q) = Len(p)
        BY <1>1, <1>2, <2>3
    <2>5. p \in Seq(Range(Names)) /\ q \in Seq(Range(Names)) /\ \A i \in 1..Len(p) : p[i] = q[i]
        BY <1>1, <1>2 DEF Paths
    <2>6. p = q
        BY <2>4, <2>5, SeqEqual
    <2>7. QED
        BY <2>2, <2>6
<1>4. ASSUME NEW i \in DOMAIN p
      PROVE  ~ (Rank(q[i]) < Rank(p[i]))
    <2>1. q[i] = p[i] /\ p[i] \in Range(Names)
        BY <1>1, <1>2, <1>4
    <2>2. \E k \in DOMAIN Names : Names[k] = p[i]
        BY <2>1 DEF Range
    <2>3. Rank(p[i]) \in DOMAIN Names
        BY <2>2 DEF Rank
    <2>4. Rank(p[i]) \in Nat
        BY <2>3, NamesAssumption
    <2> DEFINE n == Rank(p[i])
    <2> HIDE DEF n
    <2>5. n \in Nat => ~ (n < n)
        OBVIOUS
    <2>6. QED
        BY <2>1, <2>4, <2>5 DEF n
<1>5. QED
    BY <1>3, <1>4 DEF Before

-----------------------------------------------------------------------------
(* Lemmas about tables and what is in them. *)

EntriesIn(tables) == UNION {t.entries : t \in Range(tables)}

LEMMA InEntries ==
    ASSUME NEW tables
    PROVE  \A x : x \in EntriesIn(tables) <=> \E i \in DOMAIN tables : x \in tables[i].entries
BY Zenon DEF EntriesIn, Range

\* What is read goes to the pending entries.
LEMMA KeptMore ==
    ASSUME NEW all, NEW waiting, NEW tables, NEW new,
           KeptOnce(all, waiting, tables), new \cap all = {}
    PROVE  KeptOnce(all \cup new, waiting \cup new, tables)
<1>1. all = waiting \cup EntriesIn(tables)
    BY DEF KeptOnce, EntriesIn
<1>2. \A i \in DOMAIN tables : tables[i].entries \cap new = {}
    BY <1>1, InEntries
<1>3. all \cup new = (waiting \cup new) \cup EntriesIn(tables)
    BY <1>1
<1>4. \A i \in DOMAIN tables :
        /\ tables[i].entries \cap (waiting \cup new) = {}
        /\ \A j \in DOMAIN tables \ {i} : tables[i].entries \cap tables[j].entries = {}
    BY <1>2 DEF KeptOnce
<1>5. QED
    BY <1>3, <1>4 DEF KeptOnce, EntriesIn

\* The pending entries go to a table.
LEMMA KeptClosed ==
    ASSUME NEW all, NEW waiting, NEW tables, tables \in Seq(Range(tables)), NEW name,
           KeptOnce(all, waiting, tables)
    PROVE  KeptOnce(all, {}, Append(tables, [name |-> name, entries |-> waiting]))
<1> DEFINE new == [name |-> name, entries |-> waiting]
           more == Append(tables, new)
<1>1. new.entries = waiting
    OBVIOUS
<1> HIDE DEF new
<1>2. /\ Len(tables) \in Nat /\ DOMAIN tables = 1..Len(tables)
      /\ DOMAIN more = 1..(Len(tables) + 1)
      /\ more[Len(tables) + 1] = new
      /\ \A i \in DOMAIN tables : more[i] = tables[i]
    OBVIOUS
<1>3. \A i \in DOMAIN more : i \in DOMAIN tables \/ (i = Len(tables) + 1 /\ i \notin DOMAIN tables)
    BY <1>2
<1>4. DOMAIN tables \subseteq DOMAIN more /\ Len(tables) + 1 \in DOMAIN more
    BY <1>2
<1> HIDE DEF more
<1>5. all = waiting \cup EntriesIn(tables)
    BY DEF KeptOnce, EntriesIn
<1>6. \A x : x \in EntriesIn(more) <=> x \in EntriesIn(tables) \/ x \in waiting
    BY <1>1, <1>2, <1>3, <1>4, InEntries
<1>7. all = {} \cup EntriesIn(more)
    BY <1>5, <1>6
<1>8. ASSUME NEW i \in DOMAIN more, NEW j \in DOMAIN more \ {i}
      PROVE  more[i].entries \cap more[j].entries = {}
    BY <1>1, <1>2, <1>3 DEF KeptOnce
<1>9. QED
    BY <1>7, <1>8 DEF KeptOnce, EntriesIn, more, new

\* Nothing changes where nothing is pending.
LEMMA KeptCloseOrNot ==
    ASSUME NEW all, NEW waiting, NEW tables, tables \in Seq(Range(tables)),
           KeptOnce(all, waiting, tables)
    PROVE  KeptOnce(all, {}, Close(tables, waiting))
<1>1. CASE waiting = {}
    BY <1>1 DEF Close
<1>2. CASE waiting # {}
    BY <1>2, KeptClosed DEF Close
<1>3. QED
    BY <1>1, <1>2

\* A list of tables stays one.
LEMMA StillTables ==
    ASSUME NEW tables, tables \in Seq(Range(tables)), NEW t
    PROVE  Append(tables, t) \in Seq(Range(Append(tables, t)))
<1> DEFINE more == Append(tables, t)
<1>1. /\ Len(tables) \in Nat
      /\ DOMAIN more = 1..(Len(tables) + 1)
      /\ more \in Seq(Range(tables) \cup {t})
    OBVIOUS
<1>2. \A i \in 1..Len(more) : more[i] \in Range(more)
    BY <1>1 DEF Range
<1> HIDE DEF more
<1>3. more = [i \in 1..Len(more) |-> more[i]] /\ Len(more) \in Nat
    BY <1>1
<1>4. more \in Seq(Range(more))
    BY <1>2, <1>3
<1>5. QED
    BY <1>4 DEF more

LEMMA StillTablesClosed ==
    ASSUME NEW tables, tables \in Seq(Range(tables)), NEW entries
    PROVE  Close(tables, entries) \in Seq(Range(Close(tables, entries)))
BY StillTables DEF Close

-----------------------------------------------------------------------------
(* What was read, and what becomes of it. *)

ReadFiles == {it \in Visited : Walked(it)}

\* The events and metrics of a file and of several, for one state of the cache
EventsWith(read, it) ==
    {[file |-> it.path, entry |-> e] : e \in {x \in read[it.path] : x.name # None}}
MetricsWith(read, it) ==
    {[file |-> it.path, entry |-> e] : e \in {x \in read[it.path] : x.metric # None}}
AllEvents(read, items) == UNION {EventsWith(read, it) : it \in items}
AllMetrics(read, items) == UNION {MetricsWith(read, it) : it \in items}

LEMMA InAll ==
    ASSUME NEW read, NEW items
    PROVE  /\ \A x : x \in AllEvents(read, items) <=> \E it \in items : x \in EventsWith(read, it)
           /\ \A x : x \in AllMetrics(read, items) <=> \E it \in items : x \in MetricsWith(read, it)
BY Zenon DEF AllEvents, AllMetrics

\* An entry is written under its file.
LEMMA FileOfEntry ==
    ASSUME NEW read, NEW it
    PROVE  /\ \A x \in EventsWith(read, it) : x.file = it.path /\ x.entry \in read[it.path]
           /\ \A x \in MetricsWith(read, it) : x.file = it.path /\ x.entry \in read[it.path]
BY DEF EventsWith, MetricsWith

\* One more file brings entries nobody has read.
LEMMA OneMoreFile ==
    ASSUME NEW read, NEW items, NEW it, \A other \in items : other.path # it.path
    PROVE  /\ AllEvents(read, items \cup {it}) = AllEvents(read, items) \cup EventsWith(read, it)
           /\ AllMetrics(read, items \cup {it}) = AllMetrics(read, items) \cup MetricsWith(read, it)
           /\ EventsWith(read, it) \cap AllEvents(read, items) = {}
           /\ MetricsWith(read, it) \cap AllMetrics(read, items) = {}
<1>1. AllEvents(read, items \cup {it}) = AllEvents(read, items) \cup EventsWith(read, it)
    BY InAll
<1>2. AllMetrics(read, items \cup {it}) = AllMetrics(read, items) \cup MetricsWith(read, it)
    BY InAll
<1>3. EventsWith(read, it) \cap AllEvents(read, items) = {}
    BY InAll, FileOfEntry
<1>4. MetricsWith(read, it) \cap AllMetrics(read, items) = {}
    BY InAll, FileOfEntry
<1>5. QED
    BY <1>1, <1>2, <1>3, <1>4

TreeInv ==
    /\ tree \in Trees
    /\ todo \subseteq tree
    /\ archNr \in 1..Len(Archs)

\* What is in a directory that was left out was left out, too.
LeftOutInv ==
    \A it \in todo, d \in tree \ todo :
        d.dir /\ IsPrefix(d.path, it.path) => LetThrough(d)

\* The first walk has read root files only, of the architectures so far.
FirstWalkInv ==
    pc = "std" =>
        /\ pendingEvents = {} /\ pendingMetrics = {} /\ eventTables = <<>> /\ metricTables = <<>>
        /\ \A it \in tree \ todo :
             ~ it.dir /\ it.json /\ Level(it) = 0 /\ \E k \in 1..archNr : it.path[1] = Archs[k]

KeptInv ==
    /\ eventTables \in Seq(Range(eventTables)) /\ metricTables \in Seq(Range(metricTables))
    /\ KeptOnce(AllEvents(cache, ReadFiles), pendingEvents, eventTables)
    /\ KeptOnce(AllMetrics(cache, ReadFiles), pendingMetrics, metricTables)

-----------------------------------------------------------------------------
(* The walk. *)

LEMMA ItemsOfTree ==
    ASSUME TreeInv
    PROVE  /\ \A x \in tree : x.path \in Paths /\ \A y \in tree : x.path = y.path => x = y
           /\ \A x \in todo : x \in tree
BY TreesAssumption DEF TreeInv, Paths

LEMMA TreeStep ==
    ASSUME TreeInv, [Next]_vars
    PROVE  TreeInv' /\ UNCHANGED inputs
<1>1. UNCHANGED inputs
    BY DEF Next, vars, inputs, ReadStdFile, PreprocessArch, PreprocessRaises, VisitNext, SkipModel, EnterModelDir,
           PassItem, ReadFile, EndOfArch, PrintRaises, PrintMapping, PrintSystemMapping
<1>2. todo' \subseteq tree
    BY DEF TreeInv, Next, vars, walk, ReadStdFile, PreprocessArch, PreprocessRaises, VisitNext, Visit, SkipModel,
           EnterModelDir, PassItem, ReadFile, EndOfArch, PrintRaises, PrintMapping, PrintSystemMapping
<1>3. archNr' \in 1..Len(Archs)
    <2>1. archNr' \in {archNr, 1} \/ (archNr # Len(Archs) /\ archNr' = archNr + 1)
        BY DEF Next, vars, walk, ReadStdFile, PreprocessArch, PreprocessRaises, VisitNext, SkipModel,
               EnterModelDir, PassItem, ReadFile, EndOfArch, PrintRaises, PrintMapping, PrintSystemMapping
    <2>2. Len(Archs) \in Nat /\ archNr \in 1..Len(Archs)
        BY ArchsAssumption DEF TreeInv
    <2>3. QED
        BY <2>1, <2>2
<1>4. QED
    BY <1>1, <1>2, <1>3 DEF TreeInv, inputs

\* An item that comes next has every directory it is in behind it.
LEMMA InsideWhatWasLetThrough ==
    ASSUME TreeInv, LeftOutInv, NEW it \in InArch, IsNext(it), LetThrough(it),
           NEW d \in tree, d.dir, IsPrefix(d.path, it.path)
    PROVE  LetThrough(d)
<1>1. it \in todo /\ it \in tree /\ it.path \in Paths /\ d.path \in Paths /\ it.path[1] = Archs[archNr]
    BY ItemsOfTree DEF InArch
<1>2. CASE d \in todo
    <2>1. Len(d.path) \in Nat /\ Len(d.path) # 0
        BY <1>1, EmptySeq DEF Paths
    <2>2. d.path[1] = it.path[1]
        BY <1>1, <2>1, PrefixElements
    <2>3. d \in InArch
        BY <1>1, <1>2, <2>2 DEF InArch
    <2>4. ~ Before(it.path, d.path)
        BY <1>1, InsideComesLater
    <2>5. d = it
        BY <2>3, <2>4 DEF IsNext
    <2>6. QED
        BY <2>5
<1>3. CASE d \notin todo
    BY <1>1, <1>3 DEF LeftOutInv
<1>4. QED
    BY <1>2, <1>3

LEMMA LeftOutStep ==
    ASSUME TreeInv, LeftOutInv, FirstWalkInv, [Next]_vars
    PROVE  LeftOutInv'
<1>1. UNCHANGED inputs /\ \A d : LetThrough(d)' <=> LetThrough(d)
    BY TreeStep DEF inputs, LetThrough, Level
<1>2. CASE todo' \in {todo, tree}
    BY <1>1, <1>2 DEF LeftOutInv, inputs
<1>3. CASE \E it \in todo : ~ it.dir /\ todo' = todo \ {it}
    BY <1>1, <1>3 DEF LeftOutInv, inputs
<1>4. CASE \E it \in todo : Visit(it)
    BY <1>1, <1>4 DEF LeftOutInv, inputs, Visit
<1>5. CASE \E it \in todo : SkipModel(it)
    <2>1. PICK skipped \in todo : SkipModel(skipped)
        BY <1>5
    <2>2. todo' = {x \in todo : ~ IsPrefix(skipped.path, x.path)} /\ tree' = tree
        BY <1>1, <2>1 DEF SkipModel, inputs
    <2>3. ASSUME NEW it \in todo', NEW d \in tree \ todo', d.dir, IsPrefix(d.path, it.path)
          PROVE  LetThrough(d)
        <3>1. d \in todo => IsPrefix(skipped.path, d.path)
            BY <2>2, <2>3
        <3>2. it.path \in Paths /\ d.path \in Paths /\ skipped.path \in Paths
            BY <2>2, <2>3, ItemsOfTree
        <3>3. d \notin todo
            BY <2>2, <2>3, <3>1, <3>2, PrefixesChain
        <3>4. QED
            BY <2>2, <2>3, <3>3 DEF LeftOutInv
    <2>4. QED
        BY <1>1, <2>2, <2>3 DEF LeftOutInv
<1>6. CASE ReadStdFile
    BY <1>3, <1>6 DEF ReadStdFile, StdFiles, InArch
<1>7. CASE PreprocessArch
    BY <1>2, <1>7 DEF PreprocessArch
<1>8. CASE VisitNext
    BY <1>4, <1>5, <1>8 DEF VisitNext, EnterModelDir, PassItem, ReadFile, InArch
<1>9. QED
    BY <1>2, <1>6, <1>7, <1>8
    DEF Next, vars, walk, PreprocessRaises, EndOfArch, PrintRaises, PrintMapping, PrintSystemMapping

LEMMA FirstWalkStep ==
    ASSUME TreeInv, FirstWalkInv, [Next]_vars
    PROVE  FirstWalkInv'
<1>1. CASE pc' # "std"
    BY <1>1 DEF FirstWalkInv
<1>2. CASE UNCHANGED <<inputs, todo, pc, archNr, pending, written>>
    BY <1>2 DEF FirstWalkInv, inputs, pending, written, Level
<1>3. CASE ReadStdFile
    <2>1. PICK it \in StdFiles : todo' = todo \ {it}
        BY <1>3 DEF ReadStdFile
    <2>2. UNCHANGED <<inputs, pc, archNr, pending, written>> /\ pc = "std"
        BY <1>3 DEF ReadStdFile
    <2>3. ~ it.dir /\ it.json /\ Level(it) = 0 /\ it.path[1] = Archs[archNr]
        BY <2>1 DEF StdFiles, InArch
    <2>4. archNr \in 1..archNr
        BY DEF TreeInv
    <2>5. QED
        BY <2>1, <2>2, <2>3, <2>4 DEF FirstWalkInv, inputs, pending, written, Level
<1>4. CASE PreprocessArch /\ archNr # Len(Archs)
    <2>1. UNCHANGED <<inputs, pc, todo, pending, written>> /\ pc = "std" /\ archNr' = archNr + 1
        BY <1>4 DEF PreprocessArch
    <2>2. 1..archNr \subseteq 1..archNr'
        BY <2>1 DEF TreeInv
    <2>3. QED
        BY <2>1, <2>2 DEF FirstWalkInv, inputs, pending, written, Level
<1>5. CASE PreprocessArch /\ archNr = Len(Archs)
    BY <1>1, <1>5 DEF PreprocessArch
<1>6. CASE VisitNext
    BY <1>1, <1>6 DEF VisitNext, SkipModel, EnterModelDir, PassItem, ReadFile
<1>7. CASE UNCHANGED vars
    BY <1>2, <1>7 DEF vars, walk
<1>8. QED
    BY <1>1, <1>3, <1>4, <1>5, <1>6, <1>7
    DEF Next, PreprocessRaises, EndOfArch, PrintRaises, PrintMapping, PrintSystemMapping

-----------------------------------------------------------------------------
(* No entry is lost or doubled. *)

\* The files of one of the first walk's states are none that the tables are of.
LEMMA NoneRead ==
    ASSUME FirstWalkInv, pc = "std" \/ todo = tree
    PROVE  ReadFiles = {}
BY DEF FirstWalkInv, ReadFiles, Visited, Walked

LEMMA NothingKept == KeptOnce({}, {}, <<>>) /\ \A read : AllEvents(read, {}) = {} /\ AllMetrics(read, {}) = {}
<1>1. EntriesIn(<<>>) = {}
    BY InEntries
<1>2. KeptOnce({}, {}, <<>>)
    BY <1>1 DEF KeptOnce, EntriesIn
<1>3. QED
    BY <1>2, InAll

LEMMA SameWalked ==
    ASSUME UNCHANGED inputs
    PROVE  \A it : Walked(it)' <=> Walked(it)
BY DEF inputs, Walked, LetThrough, Level

\* A step of the walk that goes on with files that are not read
LEMMA NoFileRead ==
    ASSUME UNCHANGED <<inputs, cache>>, \A it \in Visited' \ Visited : ~ Walked(it), Visited \subseteq Visited'
    PROVE  AllEvents(cache, ReadFiles)' = AllEvents(cache, ReadFiles)
           /\ AllMetrics(cache, ReadFiles)' = AllMetrics(cache, ReadFiles)
<1>1. ReadFiles' = ReadFiles
    BY SameWalked DEF ReadFiles
<1>2. QED
    BY <1>1

LEMMA KeptStep ==
    ASSUME TreeInv, LeftOutInv, FirstWalkInv, FirstWalkInv', KeptInv, [Next]_vars
    PROVE  KeptInv'
<1>1. UNCHANGED inputs
    BY TreeStep
<1>2. ASSUME UNCHANGED <<cache, pending, written>>, \A it \in Visited' \ Visited : ~ Walked(it),
             Visited \subseteq Visited'
      PROVE  KeptInv'
    <2>1. UNCHANGED <<pendingEvents, pendingMetrics, eventTables, metricTables>>
        BY <1>2 DEF pending, written
    <2>2. QED
        BY <1>1, <1>2, <2>1, NoFileRead DEF KeptInv
<1>3. ASSUME UNCHANGED cache, \A it \in Visited' \ Visited : ~ Walked(it), Visited \subseteq Visited',
             PrintPending
      PROVE  KeptInv'
    <2>1. /\ eventTables' = Close(eventTables, pendingEvents) /\ pendingEvents' = {}
          /\ metricTables' = Close(metricTables, pendingMetrics) /\ pendingMetrics' = {}
        BY <1>3 DEF PrintPending
    <2> DEFINE events == AllEvents(cache, ReadFiles)
               metrics == AllMetrics(cache, ReadFiles)
    <2>2. AllEvents(cache, ReadFiles)' = events /\ AllMetrics(cache, ReadFiles)' = metrics
        BY <1>1, <1>3, NoFileRead
    <2>3. KeptOnce(events, {}, Close(eventTables, pendingEvents))
          /\ Close(eventTables, pendingEvents) \in Seq(Range(Close(eventTables, pendingEvents)))
        BY KeptCloseOrNot, StillTablesClosed DEF KeptInv
    <2>4. KeptOnce(metrics, {}, Close(metricTables, pendingMetrics))
          /\ Close(metricTables, pendingMetrics) \in Seq(Range(Close(metricTables, pendingMetrics)))
        BY KeptCloseOrNot, StillTablesClosed DEF KeptInv
    <2> HIDE DEF events, metrics
    <2>5. QED
        BY <2>1, <2>2, <2>3, <2>4 DEF KeptInv
<1>4. CASE ReadStdFile \/ PreprocessArch
    <2>1. UNCHANGED <<pending, written>> /\ pc = "std"
        BY <1>4 DEF ReadStdFile, PreprocessArch
    <2>2. UNCHANGED <<pendingEvents, pendingMetrics, eventTables, metricTables>>
        BY <2>1 DEF pending, written
    <2>3. /\ pendingEvents = {} /\ pendingMetrics = {} /\ eventTables = <<>> /\ metricTables = <<>>
        BY <2>1 DEF FirstWalkInv
    <2>4. pc' = "std" \/ todo' = tree'
        BY <1>1, <1>4, <2>1 DEF ReadStdFile, PreprocessArch, inputs
    <2>5. ReadFiles' = {}
        BY <2>4 DEF FirstWalkInv, ReadFiles, Visited, Walked
    <2>6. AllEvents(cache, ReadFiles)' = {} /\ AllMetrics(cache, ReadFiles)' = {}
        BY <2>5, NothingKept
    <2>7. QED
        BY <2>2, <2>3, <2>6, NothingKept DEF KeptInv
<1>5. CASE PreprocessRaises \/ PrintRaises \/ PrintMapping \/ PrintSystemMapping \/ UNCHANGED vars
    <2>1. UNCHANGED <<cache, pending, written, todo>>
        BY <1>5 DEF PreprocessRaises, PrintRaises, PrintMapping, PrintSystemMapping, vars, standard, walk
    <2>2. QED
        BY <1>1, <1>2, <2>1 DEF Visited, inputs
<1>6. CASE EndOfArch
    <2>1. UNCHANGED <<cache, todo>> /\ PrintPending
        BY <1>6 DEF EndOfArch, standard
    <2>2. QED
        BY <1>1, <1>3, <2>1 DEF Visited, inputs
<1>7. CASE VisitNext
    <2>1. PICK it \in InArch : IsNext(it) /\ (SkipModel(it) \/ EnterModelDir(it) \/ PassItem(it) \/ ReadFile(it))
        BY <1>7 DEF VisitNext
    <2>2. it \in todo /\ it \in tree /\ it.path \in Paths
        BY <2>1, ItemsOfTree DEF InArch
    <2>3. CASE SkipModel(it)
        <3>1. UNCHANGED <<cache, pending, written>> /\ ~ LetThrough(it) /\ it.dir
              /\ todo' = {x \in todo : ~ IsPrefix(it.path, x.path)}
            BY <2>3 DEF SkipModel, standard, LetThrough
        <3>2. ASSUME NEW x \in Visited' \ Visited
              PROVE  ~ Walked(x)
            BY <1>1, <2>2, <3>1, <3>2 DEF Visited, Walked, inputs
        <3>3. QED
            BY <1>1, <1>2, <3>1, <3>2 DEF Visited, inputs
    <2>4. CASE EnterModelDir(it)
        <3>1. UNCHANGED cache /\ PrintPending /\ it.dir /\ todo' = todo \ {it}
            BY <2>4 DEF EnterModelDir, IsModelDir, LeafDir, Visit, standard
        <3>2. QED
            BY <1>1, <1>3, <3>1 DEF Visited, Walked, inputs
    <2>5. CASE PassItem(it)
        <3>1. UNCHANGED <<cache, pending, written>> /\ todo' = todo \ {it} /\ ~ Walked(it)
            BY <2>5 DEF PassItem, Visit, standard, Walked
        <3>2. QED
            BY <1>1, <1>2, <3>1 DEF Visited, inputs
    <2>6. CASE ReadFile(it)
        <3>1. /\ UNCHANGED <<cache, written>> /\ todo' = todo \ {it} /\ LetThrough(it)
              /\ ~ it.dir /\ it.json /\ Level(it) \in 1..4
              /\ pendingEvents' = pendingEvents \cup EventsWith(cache, it)
              /\ pendingMetrics' = pendingMetrics \cup MetricsWith(cache, it)
            BY <2>6 DEF ReadFile, Visit, standard, EventsOf, MetricsOf, EventsWith, MetricsWith
        <3>2. Walked(it)
            BY <2>1, <3>1, InsideWhatWasLetThrough DEF Walked
        <3>3. Visited' = Visited \cup {it} /\ it \notin Visited
            BY <1>1, <2>2, <3>1 DEF Visited, inputs
        <3>4. ReadFiles' = ReadFiles \cup {it}
            BY <1>1, <3>2, <3>3, SameWalked DEF ReadFiles
        <3>5. \A other \in ReadFiles : other.path # it.path
            BY <2>2, <3>3, ItemsOfTree DEF ReadFiles, Visited
        <3> DEFINE events == AllEvents(cache, ReadFiles)
                   metrics == AllMetrics(cache, ReadFiles)
                   newEvents == EventsWith(cache, it)
                   newMetrics == MetricsWith(cache, it)
        <3>0. /\ AllEvents(cache, ReadFiles \cup {it}) = events \cup newEvents
              /\ AllMetrics(cache, ReadFiles \cup {it}) = metrics \cup newMetrics
              /\ newEvents \cap events = {} /\ newMetrics \cap metrics = {}
            BY <3>5, OneMoreFile, Zenon
        <3> HIDE DEF events, metrics, newEvents, newMetrics
        <3>6. AllEvents(cache, ReadFiles)' = events \cup newEvents
            BY <3>0, <3>1, <3>4
        <3>7. AllMetrics(cache, ReadFiles)' = metrics \cup newMetrics
            BY <3>0, <3>1, <3>4
        <3>8. KeptOnce(events, pendingEvents, eventTables) /\ KeptOnce(metrics, pendingMetrics, metricTables)
            BY DEF KeptInv, events, metrics
        <3>a. KeptOnce(events \cup newEvents, pendingEvents \cup newEvents, eventTables)
            BY <3>0, <3>8, KeptMore
        <3>b. KeptOnce(metrics \cup newMetrics, pendingMetrics \cup newMetrics, metricTables)
            BY <3>0, <3>8, KeptMore
        <3>c. pendingEvents' = pendingEvents \cup newEvents /\ pendingMetrics' = pendingMetrics \cup newMetrics
            BY <3>1 DEF newEvents, newMetrics
        <3>9. UNCHANGED <<eventTables, metricTables>>
            BY <3>1 DEF written
        <3>10. QED
            BY <3>6, <3>7, <3>9, <3>a, <3>b, <3>c DEF KeptInv
    <2>7. QED
        BY <2>1, <2>3, <2>4, <2>5, <2>6
<1>8. QED
    BY <1>4, <1>5, <1>6, <1>7 DEF Next

-----------------------------------------------------------------------------
(* Where the standard events are from. *)

\* The dictionary has events of the architectures so far, and under the names
\* the root files of the last one define it has theirs.
StdInv ==
    pc = "std" =>
        /\ \A n \in DOMAIN std : \E k \in 1..archNr : std[n].file[1] = Archs[k]
        /\ \A it \in tree \ todo : it.path[1] = Archs[archNr] =>
             \A e \in it.entries : \A n \in {e.name, e.metric} \ {None} :
                n \in DOMAIN std /\ std[n].file[1] = Archs[archNr]

CachedUpTo(last) ==
    \A it \in tree : \A k \in 1..last : Walked(it) /\ it.path[1] = Archs[k] => it.path \in DOMAIN cache

CacheInv ==
    /\ \A path \in DOMAIN cache : \A e \in cache[path] : e.std # None => OwnOrEarlier(path, e)
    /\ pc = "std" => CachedUpTo(archNr - 1)
    /\ pc = "walk" => CachedUpTo(Len(Archs))
    /\ \A it \in ReadFiles : it.path \in DOMAIN cache

LEMMA ResolvedKeeps ==
    ASSUME NEW e
    PROVE  /\ e.name # None => Resolved(e).name = e.name
           /\ e.metric # None => Resolved(e).metric = e.metric
           /\ Resolved(e).std = e.std
           /\ e.std # None => Resolved(e).from = std[e.std].file
BY DEF Resolved, Inherit

\* The number of an architecture
LEMMA RankOfArch ==
    ASSUME NEW k \in 1..Len(Archs), NEW path, path[1] = Archs[k]
    PROVE  ArchRank(path) = k
<1>1. DOMAIN Archs = 1..Len(Archs)
    BY ArchsAssumption
<1>2. \A i, j \in DOMAIN Archs : Archs[i] = Archs[j] => i = j
    BY ArchsAssumption DEF IsInjective
<1>3. ArchRank(path) \in DOMAIN Archs /\ Archs[ArchRank(path)] = Archs[k]
    BY <1>1 DEF ArchRank
<1>4. QED
    BY <1>1, <1>2, <1>3

LEMMA SameOwn ==
    ASSUME UNCHANGED inputs
    PROVE  \A file, e : OwnOrEarlier(file, e)' <=> OwnOrEarlier(file, e)
BY DEF inputs, OwnOrEarlier, DefinesStd, Level

LEMMA StdStep ==
    ASSUME TreeInv, FirstWalkInv, StdInv, [Next]_vars
    PROVE  StdInv'
<1>1. UNCHANGED inputs
    BY TreeStep
<1>2. CASE pc' # "std"
    BY <1>2 DEF StdInv
<1>3. CASE UNCHANGED <<pc, std, todo, archNr>>
    BY <1>1, <1>3 DEF StdInv, inputs
<1>4. CASE ReadStdFile
    <2>1. PICK it \in StdFiles : todo' = todo \ {it} /\ std' = Update(std, StdEvents(it))
        BY <1>4 DEF ReadStdFile
    <2>2. UNCHANGED <<archNr, pc>> /\ pc = "std" /\ tree' = tree
        BY <1>1, <1>4 DEF ReadStdFile, inputs
    <2> DEFINE new == Defined(it) \ {None}
    <2>3. /\ DOMAIN StdEvents(it) = new
          /\ \A n \in new : StdEvents(it)[n].file = it.path
        BY DEF StdEvents
    <2>4. /\ DOMAIN std' = new \cup DOMAIN std
          /\ \A n \in DOMAIN std' : std'[n] = IF n \in new THEN StdEvents(it)[n] ELSE std[n]
        BY <2>1, <2>3 DEF Update
    <2>5. \A e \in it.entries : \A n \in {e.name, e.metric} \ {None} : n \in new
        BY ResolvedKeeps DEF Defined, ReadEntries
    <2> HIDE DEF new
    <2>6. it.path[1] = Archs[archNr] /\ archNr \in 1..archNr
        BY DEF StdFiles, InArch, TreeInv
    <2>7. ASSUME NEW n \in DOMAIN std'
          PROVE  \E k \in 1..archNr : std'[n].file[1] = Archs[k]
        BY <2>2, <2>3, <2>4, <2>6 DEF StdInv
    <2>8. ASSUME NEW x \in tree \ todo', x.path[1] = Archs[archNr],
                 NEW e \in x.entries, NEW n \in {e.name, e.metric} \ {None}
          PROVE  n \in DOMAIN std' /\ std'[n].file[1] = Archs[archNr]
        <3>1. CASE x = it
            BY <2>3, <2>4, <2>5, <2>6, <2>8, <3>1
        <3>2. CASE x # it
            <4>1. x \in tree \ todo
                BY <2>1, <2>8, <3>2
            <4>2. n \in DOMAIN std /\ std[n].file[1] = Archs[archNr]
                BY <2>2, <2>8, <4>1 DEF StdInv
            <4>3. QED
                BY <2>3, <2>4, <2>6, <4>2
        <3>3. QED
            BY <3>1, <3>2
    <2>9. QED
        BY <2>2, <2>7, <2>8 DEF StdInv
<1>5. CASE PreprocessArch /\ archNr # Len(Archs)
    <2>1. UNCHANGED <<pc, todo, std>> /\ pc = "std" /\ archNr' = archNr + 1 /\ tree' = tree
        BY <1>1, <1>5 DEF PreprocessArch, inputs
    <2>2. /\ archNr \in 1..Len(Archs) /\ archNr' \in 1..Len(Archs) /\ 1..archNr \subseteq 1..archNr'
          /\ archNr' \notin 1..archNr /\ 1..archNr \subseteq 1..Len(Archs)
        <3>1. Len(Archs) \in Nat
            BY ArchsAssumption
        <3>2. QED
            BY <1>5, <2>1, <3>1 DEF TreeInv
    <2>3. ASSUME NEW it \in tree \ todo
          PROVE  it.path[1] # Archs[archNr']
        <3>1. PICK k \in 1..archNr : it.path[1] = Archs[k]
            BY <2>1 DEF FirstWalkInv
        <3>2. Archs[k] # Archs[archNr']
            BY <2>2, ArchsAssumption DEF IsInjective
        <3>3. QED
            BY <3>1, <3>2
    <2>4. QED
        BY <2>1, <2>2, <2>3 DEF StdInv
<1>6. CASE PreprocessArch /\ archNr = Len(Archs)
    BY <1>2, <1>6 DEF PreprocessArch
<1>7. CASE VisitNext
    BY <1>2, <1>7 DEF VisitNext, SkipModel, EnterModelDir, PassItem, ReadFile
<1>8. CASE UNCHANGED vars
    BY <1>3, <1>8 DEF vars, walk, standard
<1>9. QED
    BY <1>2, <1>4, <1>5, <1>6, <1>7, <1>8
    DEF Next, PreprocessRaises, EndOfArch, PrintRaises, PrintMapping, PrintSystemMapping

\* What preprocessing an architecture puts into the cache
LEMMA ReadOfArch ==
    ASSUME TreeInv, StdInv, PreprocessArch,
           NEW path \in DOMAIN ReadFilesOfArch, NEW e \in ReadFilesOfArch[path], e.std # None
    PROVE  OwnOrEarlier(path, e)
<1>1. PICK it \in FilesOfArch : it.path = path /\ ReadFilesOfArch[path] = ReadEntries(it)
    BY DEF ReadFilesOfArch
<1>2. PICK r \in it.entries : e = Resolved(r)
    BY <1>1 DEF ReadEntries
<1>3. e.std = r.std /\ e.from = std[r.std].file
    BY <1>2, ResolvedKeeps
<1>4. e.std \in DOMAIN std /\ e.from = std[e.std].file
    BY <1>1, <1>3 DEF PreprocessArch, Resolvable
<1>5. pc = "std" /\ path[1] = Archs[archNr] /\ archNr \in 1..Len(Archs)
    BY <1>1 DEF PreprocessArch, FilesOfArch, TreeInv
<1>6. CASE DefinesStd(path[1], e.std)
    <2>1. PICK x \in tree : /\ x.path[1] = Archs[archNr] /\ ~ x.dir /\ x.json /\ Level(x) = 0
                            /\ \E d \in x.entries : e.std \in {d.name, d.metric}
        BY <1>5, <1>6 DEF DefinesStd
    <2>2. x \notin todo
        BY <2>1 DEF PreprocessArch, StdFiles, InArch
    <2>3. std[e.std].file[1] = Archs[archNr]
        BY <1>5, <2>1, <2>2 DEF StdInv
    <2>4. QED
        BY <1>4, <1>5, <1>6, <2>3 DEF OwnOrEarlier
<1>7. CASE ~ DefinesStd(path[1], e.std)
    <2>1. PICK k \in 1..archNr : e.from[1] = Archs[k]
        BY <1>4, <1>5 DEF StdInv
    <2>2. k \in 1..Len(Archs) /\ k <= archNr
        <3>1. Len(Archs) \in Nat
            BY ArchsAssumption
        <3>2. QED
            BY <1>5, <2>1, <3>1
    <2>3. ArchRank(e.from) = k /\ ArchRank(path) = archNr
        BY <1>5, <2>1, <2>2, RankOfArch
    <2>4. QED
        BY <1>7, <2>2, <2>3 DEF OwnOrEarlier
<1>8. QED
    BY <1>6, <1>7

LEMMA CacheStep ==
    ASSUME TreeInv, LeftOutInv, FirstWalkInv, FirstWalkInv', StdInv, CacheInv, [Next]_vars
    PROVE  CacheInv'
<1>1. UNCHANGED inputs
    BY TreeStep
<1>2. \A it : Walked(it)' <=> Walked(it)
    BY <1>1, SameWalked
<1>3. \A file, e : OwnOrEarlier(file, e)' <=> OwnOrEarlier(file, e)
    BY <1>1, SameOwn
<1>4. ASSUME UNCHANGED cache, pc' = "std" => pc = "std" /\ archNr' = archNr,
             pc' = "walk" => pc = "walk",
             \A it \in ReadFiles' : it \in ReadFiles \/ it.path \in DOMAIN cache
      PROVE  CacheInv'
    <2>1. \A path \in DOMAIN cache' : \A e \in cache'[path] : e.std # None => OwnOrEarlier(path, e)'
        BY <1>3, <1>4 DEF CacheInv
    <2>2. \A last : CachedUpTo(last) => \A it \in tree' : \A k \in 1..last :
            Walked(it)' /\ it.path[1] = Archs[k] => it.path \in DOMAIN cache'
        BY <1>1, <1>2, <1>4 DEF CachedUpTo, inputs
    <2>3. \A it \in ReadFiles' : it.path \in DOMAIN cache'
        BY <1>4 DEF CacheInv
    <2>4. pc' = "std" => CachedUpTo(archNr - 1)'
        BY <1>4, <2>2 DEF CacheInv, CachedUpTo
    <2>5. pc' = "walk" => CachedUpTo(Len(Archs))'
        BY <1>4, <2>2 DEF CacheInv, CachedUpTo
    <2>6. QED
        BY <2>1, <2>3, <2>4, <2>5 DEF CacheInv
<1>5. CASE PreprocessArch
    <2>1. cache' = Update(cache, ReadFilesOfArch) /\ pc = "std" /\ tree' = tree
        BY <1>1, <1>5 DEF PreprocessArch, inputs
    <2>2. /\ DOMAIN cache' = DOMAIN cache \cup DOMAIN ReadFilesOfArch
          /\ \A path \in DOMAIN cache' :
                cache'[path] = IF path \in DOMAIN ReadFilesOfArch THEN ReadFilesOfArch[path] ELSE cache[path]
        BY <2>1 DEF Update
    <2>3. \A path \in DOMAIN cache' : \A e \in cache'[path] : e.std # None => OwnOrEarlier(path, e)
        BY <1>5, <2>2, ReadOfArch DEF CacheInv
    <2>4. \A it \in tree : Walked(it) /\ it.path[1] = Archs[archNr] => it.path \in DOMAIN cache'
        BY <2>2 DEF ReadFilesOfArch, FilesOfArch
    <2>5. \A it \in tree : \A k \in 1..archNr : Walked(it) /\ it.path[1] = Archs[k] => it.path \in DOMAIN cache'
        <3>1. \A k \in 1..archNr : k \in 1..(archNr - 1) \/ k = archNr
            BY DEF TreeInv
        <3>2. CachedUpTo(archNr - 1)
            BY <2>1 DEF CacheInv
        <3>3. QED
            BY <2>2, <2>4, <3>1, <3>2 DEF CachedUpTo
    <2>6. ReadFiles' = {}
        <3>1. pc' = "std" \/ todo' = tree'
            BY <1>5, <2>1 DEF PreprocessArch
        <3>2. QED
            BY <3>1 DEF FirstWalkInv, ReadFiles, Visited, Walked
    <2>7. pc' = "std" => CachedUpTo(archNr - 1)'
        <3>1. pc' = "std" => archNr' - 1 = archNr
            BY <1>5, <2>1 DEF PreprocessArch, TreeInv
        <3>2. QED
            BY <1>2, <2>1, <2>5, <3>1 DEF CachedUpTo
    <2>8. pc' = "walk" => CachedUpTo(Len(Archs))'
        <3>1. pc' = "walk" => archNr = Len(Archs)
            BY <1>5, <2>1 DEF PreprocessArch
        <3>2. QED
            BY <1>2, <2>1, <2>5, <3>1 DEF CachedUpTo
    <2>9. QED
        BY <1>3, <2>3, <2>6, <2>7, <2>8 DEF CacheInv
<1>6. CASE ReadStdFile
    <2>1. UNCHANGED <<cache, pc, archNr>> /\ pc = "std"
        BY <1>6 DEF ReadStdFile
    <2>2. ReadFiles' = {}
        BY <2>1 DEF FirstWalkInv, ReadFiles, Visited, Walked
    <2>3. QED
        BY <1>4, <2>1, <2>2
<1>7. CASE VisitNext
    <2>1. UNCHANGED <<cache, pc, archNr>> /\ pc = "walk"
        BY <1>7 DEF VisitNext, SkipModel, EnterModelDir, PassItem, ReadFile, standard
    <2>2. ASSUME NEW x \in ReadFiles', x \notin ReadFiles
          PROVE  x.path \in DOMAIN cache
        <3>1. x \in tree /\ Walked(x)
            BY <1>1, <1>2 DEF ReadFiles, Visited, inputs
        <3>2. x \in todo /\ x \notin todo'
            BY <1>1, <1>2, <2>2 DEF ReadFiles, Visited, inputs
        <3>3. PICK it \in InArch : SkipModel(it) \/ todo' = todo \ {it}
            BY <1>7 DEF VisitNext, EnterModelDir, PassItem, ReadFile, Visit
        <3>4. CASE SkipModel(it)
            <4>1. IsPrefix(it.path, x.path) /\ it.dir /\ it \in tree /\ ~ LetThrough(it)
                BY <3>2, <3>4, ItemsOfTree DEF SkipModel, LetThrough, InArch
            <4>2. QED
                BY <3>1, <4>1 DEF Walked
        <3>5. CASE todo' = todo \ {it}
            <4>1. x.path[1] = Archs[archNr]
                BY <3>2, <3>5 DEF InArch
            <4>2. QED
                BY <2>1, <3>1, <4>1 DEF CacheInv, CachedUpTo, TreeInv
        <3>6. QED
            BY <3>3, <3>4, <3>5
    <2>3. QED
        BY <1>4, <2>1, <2>2
<1>8. CASE PreprocessRaises \/ EndOfArch \/ PrintRaises \/ PrintMapping \/ PrintSystemMapping \/ UNCHANGED vars
    <2>1. UNCHANGED <<cache, todo>>
        BY <1>8 DEF PreprocessRaises, EndOfArch, PrintRaises, PrintMapping, PrintSystemMapping, vars, standard, walk
    <2>2. ReadFiles' = ReadFiles
        BY <1>1, <1>2, <2>1 DEF ReadFiles, Visited, inputs
    <2>3. /\ pc' = "std" => pc = "std" /\ archNr' = archNr
          /\ pc' = "walk" => pc = "walk"
        BY <1>8 DEF PreprocessRaises, EndOfArch, PrintRaises, PrintMapping, PrintSystemMapping, vars, walk
    <2>4. QED
        BY <1>4, <2>1, <2>2, <2>3
<1>9. QED
    BY <1>5, <1>6, <1>7, <1>8 DEF Next

-----------------------------------------------------------------------------
(* The system map. *)

MapsInv ==
    /\ \A t \in Range(eventTables) \cup Range(metricTables) : t.name # None
    /\ pc = "done" => sysMap = SysRows

\* A table that is added to a list has the name at hand.
LEMMA ClosedNames ==
    ASSUME NEW tables, tables \in Seq(Range(tables)), NEW entries, entries # {} => tblname # None,
           \A t \in Range(tables) : t.name # None
    PROVE  \A t \in Range(Close(tables, entries)) : t.name # None
<1>1. CASE entries = {}
    BY <1>1 DEF Close
<1>2. CASE entries # {}
    <2> DEFINE new == [name |-> tblname, entries |-> entries]
               more == Append(tables, new)
    <2>1. /\ DOMAIN more = 1..(Len(tables) + 1) /\ DOMAIN tables = 1..Len(tables) /\ Len(tables) \in Nat
          /\ more[Len(tables) + 1] = new
          /\ \A i \in DOMAIN tables : more[i] = tables[i]
        OBVIOUS
    <2>2. new.name # None
        BY <1>2
    <2> HIDE DEF new
    <2>3. \A i \in DOMAIN more : i \in DOMAIN tables \/ i = Len(tables) + 1
        BY <2>1
    <2>4. Close(tables, entries) = more
        BY <1>2 DEF Close, new
    <2> HIDE DEF more
    <2>5. \A i \in DOMAIN more : more[i].name # None
        BY <2>1, <2>2, <2>3 DEF Range
    <2>6. QED
        BY <2>4, <2>5 DEF Range
<1>3. QED
    BY <1>1, <1>2

LEMMA MapsStep ==
    ASSUME KeptInv, MapsInv, [Next]_vars
    PROVE  MapsInv'
<1>1. CASE UNCHANGED written /\ pc' # "done"
    BY <1>1 DEF written, MapsInv
<1>2. CASE CanPrint /\ PrintPending /\ pc' # "done"
    BY <1>2, ClosedNames DEF CanPrint, PrintPending, MapsInv, KeptInv
<1>3. CASE PrintSystemMapping
    BY <1>3 DEF PrintSystemMapping, written, MapsInv, SysRows, Paired, Alone, SysPlaces, SysTables, TableNames, Written
<1>4. CASE VisitNext
    BY <1>1, <1>2, <1>4 DEF VisitNext, SkipModel, EnterModelDir, PassItem, ReadFile
<1>5. CASE EndOfArch
    BY <1>2, <1>5 DEF EndOfArch
<1>6. CASE UNCHANGED vars
    BY <1>6 DEF vars, written, maps, MapsInv, SysRows, Paired, Alone, SysPlaces, SysTables, TableNames, Written
<1>7. QED
    BY <1>1, <1>3, <1>4, <1>5, <1>6
    DEF Next, ReadStdFile, PreprocessArch, PreprocessRaises, PrintRaises, PrintMapping

\* Each list has every name once.
NamesApart(tables) == \A i, j \in DOMAIN tables : tables[i].name = tables[j].name => i = j

\* One row for each table: SysRows pairs the metrics of a directory with its
\* events.
LEMMA RowsAreUnique ==
    ASSUME \A t \in Range(eventTables) \cup Range(metricTables) : t.name # None,
           NamesApart(eventTables), NamesApart(metricTables)
    PROVE  /\ \A t \in SysTables(eventTables) : \E row : {r \in SysRows : r.events = t} = {row}
           /\ \A t \in SysTables(metricTables) : \E row : {r \in SysRows : r.metrics = t} = {row}
<1> DEFINE left == {j \in SysPlaces(metricTables) : metricTables[j].name \notin SysTables(eventTables)}
<1>1. /\ \A i \in DOMAIN eventTables : eventTables[i].name # None
      /\ \A i \in DOMAIN metricTables : metricTables[i].name # None
    BY DEF Range
<1>2. /\ \A t : t \in SysTables(eventTables) <=> \E i \in SysPlaces(eventTables) : eventTables[i].name = t
      /\ \A t : t \in SysTables(metricTables) <=> \E i \in SysPlaces(metricTables) : metricTables[i].name = t
      /\ \A t \in SysTables(metricTables) : t \in TableNames(metricTables)
    BY DEF SysTables, SysPlaces, TableNames, Range
<1>3. \A r : r \in SysRows <=> \/ \E i \in SysPlaces(eventTables) : r = Paired(i)
                               \/ \E i \in left : r = Alone(i)
    BY DEF SysRows
<1>4. /\ \A i : Paired(i).events = eventTables[i].name /\ Paired(i).metrics \in {eventTables[i].name, None}
      /\ \A i : eventTables[i].name \in SysTables(metricTables) => Paired(i).metrics = eventTables[i].name
      /\ \A i : Alone(i).events = None /\ Alone(i).metrics = metricTables[i].name
    BY <1>2 DEF Paired, Alone, Written
<1>5. /\ \A i, j \in SysPlaces(eventTables) : eventTables[i].name = eventTables[j].name => i = j
      /\ \A i, j \in SysPlaces(metricTables) : metricTables[i].name = metricTables[j].name => i = j
      /\ \A i \in SysPlaces(eventTables) : eventTables[i].name # None
      /\ \A i \in SysPlaces(metricTables) : metricTables[i].name # None
    BY <1>1 DEF NamesApart, SysPlaces
<1>6. ASSUME NEW t \in SysTables(eventTables)
      PROVE  \E row : {r \in SysRows : r.events = t} = {row}
    <2>1. PICK i \in SysPlaces(eventTables) : eventTables[i].name = t
        BY <1>2, <1>6
    <2>2. {r \in SysRows : r.events = t} = {Paired(i)}
        BY <1>3, <1>4, <1>5, <2>1
    <2>3. QED
        BY <2>2
<1>7. ASSUME NEW t \in SysTables(metricTables)
      PROVE  \E row : {r \in SysRows : r.metrics = t} = {row}
    <2>1. CASE t \in SysTables(eventTables)
        <3>1. PICK i \in SysPlaces(eventTables) : eventTables[i].name = t
            BY <1>2, <2>1
        <3>2. \A j \in left : metricTables[j].name # t
            BY <2>1
        <3>3. t # None /\ Paired(i).metrics = t /\ Paired(i) \in SysRows
            BY <1>3, <1>4, <1>5, <1>7, <3>1
        <3>4. ASSUME NEW r \in SysRows, r.metrics = t
              PROVE  r = Paired(i)
            BY <1>3, <1>4, <1>5, <3>1, <3>2, <3>3, <3>4
        <3>5. {r \in SysRows : r.metrics = t} = {Paired(i)}
            BY <3>3, <3>4
        <3>6. QED
            BY <3>5
    <2>2. CASE t \notin SysTables(eventTables)
        <3>1. PICK i \in SysPlaces(metricTables) : metricTables[i].name = t
            BY <1>2, <1>7
        <3>2. i \in left /\ t # None
            BY <1>5, <2>2, <3>1
        <3>3. \A j \in SysPlaces(eventTables) : eventTables[j].name # t
            BY <1>2, <2>2
        <3>4. \A j \in left : metricTables[j].name = t => j = i
            BY <1>5, <3>1
        <3>5. Alone(i).metrics = t /\ Alone(i) \in SysRows
            BY <1>3, <1>4, <3>1, <3>2
        <3>6. ASSUME NEW r \in SysRows, r.metrics = t
              PROVE  r = Alone(i)
            BY <1>3, <1>4, <3>2, <3>3, <3>4, <3>6
        <3>7. {r \in SysRows : r.metrics = t} = {Alone(i)}
            BY <3>5, <3>6
        <3>8. QED
            BY <3>7
    <2>3. QED
        BY <2>1, <2>2
<1>8. QED
    BY <1>6, <1>7

-----------------------------------------------------------------------------
(* The order of the walk. *)

\* The first name in which two paths differ decides which one comes first.
Differ(p, q, i) ==
    /\ i \in 1..Len(p) /\ i \in 1..Len(q)
    /\ \A k \in 1..(i - 1) : p[k] = q[k]
    /\ Rank(p[i]) < Rank(q[i])

LEMMA RankIsNat == \A name \in Range(Names) : Rank(name) \in Nat
<1> TAKE name \in Range(Names)
<1>1. \E k \in DOMAIN Names : Names[k] = name
    BY DEF Range
<1>2. Rank(name) \in DOMAIN Names
    BY <1>1 DEF Rank
<1>3. QED
    BY <1>2, NamesAssumption

LEMMA PathNumbers ==
    ASSUME NEW p \in Paths
    PROVE  /\ p \in Seq(Range(Names)) /\ Len(p) \in Nat /\ Len(p) >= 1 /\ DOMAIN p = 1..Len(p)
           /\ \A i \in 1..Len(p) : p[i] \in Range(Names) /\ Rank(p[i]) \in Nat
<1>1. p \in Seq(Range(Names)) /\ p # <<>>
    BY DEF Paths
<1>2. Len(p) \in Nat /\ Len(p) # 0 /\ DOMAIN p = 1..Len(p) /\ \A i \in 1..Len(p) : p[i] \in Range(Names)
    BY <1>1, EmptySeq
<1>3. QED
    BY <1>1, <1>2, RankIsNat

LEMMA SameFront ==
    ASSUME NEW p \in Paths, NEW q \in Paths, NEW i \in 1..Len(p), i \in 1..Len(q)
    PROVE  SubSeq(p, 1, i - 1) = SubSeq(q, 1, i - 1) <=> \A k \in 1..(i - 1) : p[k] = q[k]
<1> DEFINE a == SubSeq(p, 1, i - 1)
           b == SubSeq(q, 1, i - 1)
<1>1. /\ p \in Seq(Range(Names)) /\ Len(p) \in Nat /\ \A k \in 1..Len(p) : p[k] \in Range(Names)
      /\ q \in Seq(Range(Names)) /\ Len(q) \in Nat /\ \A k \in 1..Len(q) : q[k] \in Range(Names)
    BY PathNumbers
<1>2. i - 1 \in Nat /\ i - 1 <= Len(p) /\ i - 1 <= Len(q)
    BY <1>1
<1>3. a \in Seq(Range(Names)) /\ Len(a) = i - 1 /\ \A k \in 1..(i - 1) : a[k] = p[k]
    BY <1>1, <1>2
<1>4. b \in Seq(Range(Names)) /\ Len(b) = i - 1 /\ \A k \in 1..(i - 1) : b[k] = q[k]
    BY <1>1, <1>2
<1> HIDE DEF a, b
<1>5. a = b => \A k \in 1..(i - 1) : p[k] = q[k]
    BY <1>3, <1>4
<1>6. ASSUME \A k \in 1..(i - 1) : p[k] = q[k]
      PROVE  a = b
    <2>1. \A k \in 1..Len(a) : a[k] = b[k]
        BY <1>3, <1>4, <1>6
    <2>2. Len(a) = Len(b)
        BY <1>3, <1>4
    <2>3. QED
        BY <1>3, <1>4, <2>1, <2>2, SeqEqual
<1>7. QED
    BY <1>5, <1>6 DEF a, b

LEMMA BeforeByNames ==
    ASSUME NEW p \in Paths, NEW q \in Paths
    PROVE  Before(p, q) <=> IsStrictPrefix(p, q) \/ \E i \in 1..Len(p) : Differ(p, q, i)
<1>1. DOMAIN p = 1..Len(p) /\ DOMAIN q = 1..Len(q)
    BY PathNumbers
<1>2. \A i \in 1..Len(p) : i \in 1..Len(q) =>
          (SubSeq(p, 1, i - 1) = SubSeq(q, 1, i - 1) <=> \A k \in 1..(i - 1) : p[k] = q[k])
    BY SameFront
<1>3. \A i : i \in DOMAIN p \cap DOMAIN q <=> i \in 1..Len(p) /\ i \in 1..Len(q)
    BY <1>1
<1>4. (\E i \in DOMAIN p \cap DOMAIN q : /\ SubSeq(p, 1, i - 1) = SubSeq(q, 1, i - 1)
                                        /\ Rank(p[i]) < Rank(q[i]))
      <=> \E i \in 1..Len(p) : Differ(p, q, i)
    BY <1>2, <1>3 DEF Differ
<1>5. QED
    BY <1>4, Zenon DEF Before

\* Of two paths only one comes before the other.
LEMMA DifferOneWay ==
    ASSUME NEW p \in Paths, NEW q \in Paths, NEW i \in 1..Len(p), Differ(p, q, i)
    PROVE  /\ ~ IsPrefix(p, q) /\ ~ IsPrefix(q, p)
           /\ \A j \in 1..Len(q) : ~ Differ(q, p, j)
<1>1. /\ Len(p) \in Nat /\ Len(q) \in Nat
      /\ \A k \in 1..Len(p) : Rank(p[k]) \in Nat
      /\ \A k \in 1..Len(q) : Rank(q[k]) \in Nat
    BY PathNumbers
<1>2. i \in 1..Len(q) /\ Rank(p[i]) < Rank(q[i]) /\ \A k \in 1..(i - 1) : p[k] = q[k]
    BY DEF Differ
<1>3. p[i] # q[i]
    BY <1>1, <1>2
<1>4. ~ IsPrefix(p, q) /\ ~ IsPrefix(q, p)
    BY <1>2, <1>3, PrefixElements
<1>5. ASSUME NEW j \in 1..Len(q), Differ(q, p, j)
      PROVE  FALSE
    <2>1. j \in 1..Len(p) /\ Rank(q[j]) < Rank(p[j]) /\ \A k \in 1..(j - 1) : q[k] = p[k]
        BY <1>5 DEF Differ
    <2>2. q[j] # p[j]
        BY <1>1, <2>1
    <2>3. i < j \/ j < i \/ i = j
        BY <1>1
    <2>4. CASE i < j
        BY <1>1, <1>3, <2>1, <2>4
    <2>5. CASE j < i
        BY <1>1, <1>2, <2>2, <2>5
    <2>6. CASE i = j
        BY <1>1, <1>2, <2>1, <2>6
    <2>7. QED
        BY <2>3, <2>4, <2>5, <2>6
<1>6. QED
    BY <1>4, <1>5

LEMMA BeforeOneWay ==
    ASSUME NEW p \in Paths, NEW q \in Paths, Before(p, q)
    PROVE  ~ Before(q, p) /\ p # q
<1>1. CASE IsStrictPrefix(p, q)
    BY <1>1, InsideComesLater DEF IsStrictPrefix
<1>2. CASE \E i \in 1..Len(p) : Differ(p, q, i)
    <2>1. PICK i \in 1..Len(p) : Differ(p, q, i)
        BY <1>2
    <2>2. ~ IsPrefix(q, p) /\ ~ IsPrefix(p, q) /\ \A j \in 1..Len(q) : ~ Differ(q, p, j)
        BY <2>1, DifferOneWay
    <2>3. ~ Before(q, p)
        BY <2>2, BeforeByNames DEF IsStrictPrefix
    <2>4. QED
        BY <2>3
<1>3. QED
    BY <1>1, <1>2, BeforeByNames

\* Paths between a directory and what is in it are in it.
LEMMA BetweenIsInside ==
    ASSUME NEW d \in Paths, NEW e \in Paths, NEW f \in Paths,
           Before(d, e), Before(e, f), IsPrefix(d, f)
    PROVE  IsPrefix(d, e)
<1> SUFFICES ASSUME ~ IsPrefix(d, e)
             PROVE  FALSE
    OBVIOUS
<1>1. PICK i \in 1..Len(d) : Differ(d, e, i)
    BY BeforeByNames DEF IsStrictPrefix
<1>2. Len(d) \in Nat /\ Len(f) \in Nat /\ Len(d) <= Len(f) /\ \A k \in 1..Len(d) : d[k] = f[k]
    BY PathNumbers, PrefixElements
<1>3. i \in 1..Len(f) /\ f[i] = d[i] /\ \A k \in 1..(i - 1) : f[k] = d[k]
    BY <1>2
<1>4. Differ(f, e, i)
    BY <1>1, <1>3 DEF Differ
<1>5. Before(f, e)
    BY <1>3, <1>4, BeforeByNames
<1>6. QED
    BY <1>5, BeforeOneWay

\* What is in a directory comes before all that comes behind the directory.
LEMMA InsideComesBefore ==
    ASSUME NEW d \in Paths, NEW e \in Paths, NEW f \in Paths,
           Before(d, e), ~ IsPrefix(d, e), IsPrefix(d, f)
    PROVE  Before(f, e)
<1>1. PICK i \in 1..Len(d) : Differ(d, e, i)
    BY BeforeByNames DEF IsStrictPrefix
<1>2. Len(d) \in Nat /\ Len(f) \in Nat /\ Len(d) <= Len(f) /\ \A k \in 1..Len(d) : d[k] = f[k]
    BY PathNumbers, PrefixElements
<1>3. i \in 1..Len(f) /\ f[i] = d[i] /\ \A k \in 1..(i - 1) : f[k] = d[k]
    BY <1>2
<1>4. Differ(f, e, i)
    BY <1>1, <1>3 DEF Differ
<1>5. QED
    BY <1>3, <1>4, BeforeByNames

\* The directory of a path.
LEMMA FrontOfPath ==
    ASSUME NEW p \in Paths, Len(p) > 1
    PROVE  /\ Front(p) \in Paths /\ Len(Front(p)) = Len(p) - 1 /\ Front(p) = SubSeq(p, 1, Len(p) - 1)
           /\ \A i \in 1..(Len(p) - 1) : Front(p)[i] = p[i]
           /\ IsPrefix(Front(p), p) /\ Front(p) # p
           /\ Last(p) = p[Len(p)]
<1>1. p \in Seq(Range(Names)) /\ Len(p) \in Nat /\ \A i \in 1..Len(p) : p[i] \in Range(Names)
    BY PathNumbers
<1>2. Front(p) = SubSeq(p, 1, Len(p) - 1) /\ Last(p) = p[Len(p)]
    BY DEF Front, Last
<1>3. /\ SubSeq(p, 1, Len(p) - 1) \in Seq(Range(Names))
      /\ Len(SubSeq(p, 1, Len(p) - 1)) = Len(p) - 1
      /\ \A i \in 1..(Len(p) - 1) : SubSeq(p, 1, Len(p) - 1)[i] = p[i]
    BY <1>1
<1> DEFINE f == SubSeq(p, 1, Len(p) - 1)
<1> HIDE DEF f
<1>4. f \in Seq(Range(Names)) /\ Len(f) = Len(p) - 1 /\ (\A i \in 1..(Len(p) - 1) : f[i] = p[i])
    BY <1>3 DEF f
<1>5. f # <<>> /\ f # p
    BY <1>1, <1>4, EmptySeq
<1>6. f \in Paths
    BY <1>4, <1>5 DEF Paths
<1>7. IsPrefix(f, p)
    <2>1. Len(f) <= Len(p) /\ \A i \in 1..Len(f) : f[i] = p[i]
        BY <1>1, <1>4
    <2>2. QED
        BY <1>6, <2>1, PrefixElements
<1>8. QED
    BY <1>2, <1>4, <1>5, <1>6, <1>7 DEF f

-----------------------------------------------------------------------------
(* Which items the walk has behind it, and which table is open. *)

OrderInv ==
    /\ pc = "walk" =>
         /\ \A x \in tree \ todo : \E k \in 1..archNr : x.path[1] = Archs[k]
         /\ \A x \in todo : \A k \in 1..(archNr - 1) : x.path[1] # Archs[k]
         /\ \A x \in tree \ todo, y \in todo : x.path[1] = y.path[1] => Before(x.path, y.path)
    /\ pc \in {"map", "sysmap", "done"} => todo = {}

\* The files of a directory that are still to come find their table open.
PlaceInv ==
    pc = "walk" /\ WellLaidOut =>
        \A it \in todo : Walked(it) =>
            \A d \in tree \ todo : d.path = DirOf(it) => tblname = d.path

\* Tables have the names of directories that the walk has behind it.
VisitedDir(dir) == \E d \in tree \ todo : d.dir /\ d.path = dir
NameInv ==
    /\ pc = "std" => tblname = None
    /\ pc = "walk" =>
         /\ tblname # None => VisitedDir(tblname)
         /\ \A t \in Range(eventTables) \cup Range(metricTables) : VisitedDir(t.name)

LEMMA InTree ==
    ASSUME TreeInv, NEW x \in tree
    PROVE  /\ x.path \in Paths /\ Len(x.path) \in Nat /\ Len(x.path) > 1 /\ x.path # None
           /\ \E k \in 1..Len(Archs) : x.path[1] = Archs[k]
           /\ \A n \in 2..(Len(x.path) - 1) : \E d \in tree : d.dir /\ d.path = SubSeq(x.path, 1, n)
           /\ DirOf(x) \in Paths /\ IsPrefix(DirOf(x), x.path) /\ DirOf(x)[1] = x.path[1]
           /\ Before(DirOf(x), x.path)
<1>1. tree \in Trees
    BY DEF TreeInv
<1>2. /\ x.path \in Paths /\ Len(x.path) > 1 /\ x.path # None /\ x.path[1] \in Range(Archs)
      /\ \A n \in 2..(Len(x.path) - 1) : \E d \in tree : d.dir /\ d.path = SubSeq(x.path, 1, n)
    BY <1>1, TreesAssumption DEF Paths
<1>3. \E k \in 1..Len(Archs) : x.path[1] = Archs[k]
    BY <1>2, ArchsAssumption DEF Range
<1>4. Len(x.path) \in Nat /\ 1 \in 1..(Len(x.path) - 1)
    BY <1>2, PathNumbers
<1>5. DirOf(x) \in Paths /\ IsPrefix(DirOf(x), x.path) /\ DirOf(x)[1] = x.path[1] /\ DirOf(x) # x.path
    BY <1>2, <1>4, FrontOfPath DEF DirOf
<1>6. Before(DirOf(x), x.path)
    BY <1>5 DEF Before, IsStrictPrefix
<1>7. QED
    BY <1>2, <1>3, <1>4, <1>5, <1>6

LEMMA ArchsDiffer ==
    ASSUME NEW i \in 1..Len(Archs), NEW j \in 1..Len(Archs), Archs[i] = Archs[j]
    PROVE  i = j
BY ArchsAssumption DEF IsInjective

\* In a well laid out tree no directory comes between another one and its files.
LEMMA NoDirBetween ==
    ASSUME TreeInv, WellLaidOut, NEW it \in tree, Walked(it), NEW d \in tree, d.path = DirOf(it),
           NEW e \in tree, e.dir, Before(d.path, e.path), Before(e.path, it.path)
    PROVE  FALSE
<1> DEFINE n == Len(d.path) + 1
           q == e.path
<1>1. /\ it.path \in Paths /\ Len(it.path) > 1 /\ d.path \in Paths /\ q \in Paths
      /\ Len(it.path) \in Nat /\ Len(q) \in Nat /\ Len(d.path) \in Nat /\ Len(d.path) > 1
    BY InTree
<1>2. IsPrefix(d.path, it.path) /\ n = Len(it.path) /\ \A i \in 1..Len(d.path) : d.path[i] = it.path[i]
    <2>1. d.path = Front(it.path)
        BY DEF DirOf
    <2>2. /\ IsPrefix(d.path, it.path) /\ Len(d.path) = Len(it.path) - 1
          /\ \A i \in 1..(Len(it.path) - 1) : d.path[i] = it.path[i]
        BY <1>1, <2>1, FrontOfPath
    <2>3. n = Len(it.path)
        BY <1>1, <2>2
    <2>4. QED
        BY <2>2, <2>3
<1>3. IsPrefix(d.path, q) /\ d.path # q
    BY <1>1, <1>2, BetweenIsInside, BeforeOneWay
<1>4. Len(d.path) <= Len(q) /\ \A i \in 1..Len(d.path) : d.path[i] = q[i]
    BY <1>1, <1>3, PrefixElements
<1>5. Len(d.path) # Len(q)
    <2>1. d.path \in Seq(Range(Names)) /\ q \in Seq(Range(Names))
        BY <1>1 DEF Paths
    <2>2. QED
        BY <1>3, <1>4, <2>1, SeqEqual
<1>6. n <= Len(q) /\ n \in 2..Len(q) /\ n \in 1..Len(q) /\ n - 1 = Len(d.path) /\ n \in Nat /\ n > 1
    BY <1>1, <1>4, <1>5
<1> HIDE DEF n
<1>7. \E s \in tree : s.dir /\ s.path = SubSeq(q, 1, n)
    <2>1. CASE n = Len(q)
        <3>1. SubSeq(q, 1, n) = q
            BY <1>1, <2>1, SubSeqFull DEF Paths
        <3>2. QED
            BY <3>1
    <2>2. CASE n # Len(q)
        <3>1. n \in 2..(Len(q) - 1)
            BY <1>1, <1>6, <2>2
        <3>2. QED
            BY <3>1, InTree
    <2>3. QED
        BY <2>1, <2>2
<1>8. PICK s \in tree : s.dir /\ s.path = SubSeq(q, 1, n)
    BY <1>7
<1>9. s.path \in Paths /\ Len(s.path) = n /\ \A i \in 1..n : s.path[i] = q[i]
    <2>1. q \in Seq(Range(Names)) /\ \A i \in 1..Len(q) : q[i] \in Range(Names)
        BY <1>1, PathNumbers
    <2>2. Len(SubSeq(q, 1, n)) = n /\ \A i \in 1..n : SubSeq(q, 1, n)[i] = q[i]
        BY <1>1, <1>6, <2>1
    <2>3. s.path \in Paths
        BY InTree
    <2>4. QED
        BY <1>8, <2>2, <2>3
<1>10. DirOf(s) = d.path
    <2> DEFINE f == Front(s.path)
    <2>1. f \in Paths /\ Len(f) = n - 1 /\ \A i \in 1..(n - 1) : f[i] = s.path[i]
        BY <1>6, <1>9, FrontOfPath
    <2> HIDE DEF f
    <2>2. f \in Seq(Range(Names)) /\ d.path \in Seq(Range(Names)) /\ Len(f) = Len(d.path)
        BY <1>1, <1>6, <2>1 DEF Paths
    <2>3. \A i \in 1..Len(f) : i \in 1..n /\ f[i] = d.path[i]
        BY <1>4, <1>6, <1>9, <2>1
    <2>4. f = d.path
        BY <2>2, <2>3, SeqEqual
    <2>5. QED
        BY <2>4 DEF DirOf, f
<1>11. Rank(Last(it.path)) < Rank(Last(s.path))
    BY <1>8, <1>10 DEF WellLaidOut
<1>12. Last(it.path) = it.path[n] /\ Last(s.path) = q[n]
    <2>1. Last(it.path) = it.path[n]
        BY <1>1, <1>2, FrontOfPath
    <2>2. n \in 1..n /\ Len(s.path) > 1
        BY <1>6, <1>9
    <2>3. Last(s.path) = s.path[n]
        BY <1>9, <2>2, FrontOfPath
    <2>4. QED
        BY <1>9, <2>1, <2>2, <2>3
<1>13. Differ(it.path, q, n)
    <2>1. n \in 1..Len(it.path)
        BY <1>1, <1>2, <1>6
    <2>2. \A k \in 1..(n - 1) : it.path[k] = q[k]
        BY <1>2, <1>4, <1>6
    <2>3. QED
        BY <1>6, <1>11, <1>12, <2>1, <2>2 DEF Differ
<1>14. Before(it.path, q)
    BY <1>1, <1>2, <1>6, <1>13, BeforeByNames
<1>15. QED
    BY <1>1, <1>14, BeforeOneWay

\* The next directory is entered when the files of the one before have been read.
LEMMA NoFileLeft ==
    ASSUME TreeInv, OrderInv, WellLaidOut, pc = "walk",
           NEW e \in InArch, IsNext(e), NEW it \in todo, it # e, Walked(it), e.dir,
           NEW d \in tree \ todo, d.path = DirOf(it)
    PROVE  FALSE
<1>1. e \in todo /\ e \in tree /\ it \in tree /\ d \in tree /\ e.path[1] = Archs[archNr]
    BY DEF InArch, TreeInv
<1>2. d.path[1] = it.path[1]
    BY <1>1, InTree
<1>3. PICK k \in 1..archNr : d.path[1] = Archs[k]
    BY DEF OrderInv
<1>4. \A j \in 1..(archNr - 1) : it.path[1] # Archs[j]
    BY DEF OrderInv
<1>5. k = archNr
    BY <1>2, <1>3, <1>4 DEF TreeInv
<1>6. it \in InArch \ {e} /\ d.path[1] = e.path[1]
    BY <1>1, <1>2, <1>3, <1>5 DEF InArch
<1>7. Before(e.path, it.path) /\ Before(d.path, e.path)
    BY <1>1, <1>6 DEF IsNext, OrderInv
<1>8. QED
    BY <1>1, <1>7, NoDirBetween

LEMMA OrderStep ==
    ASSUME TreeInv, OrderInv, [Next]_vars
    PROVE  OrderInv'
<1>1. UNCHANGED tree
    BY TreeStep DEF inputs
<1>2. Len(Archs) \in Nat /\ archNr \in 1..Len(Archs) /\ archNr \in 1..archNr
    BY ArchsAssumption DEF TreeInv
<1>3. CASE UNCHANGED <<pc, todo, archNr>>
    BY <1>1, <1>3 DEF OrderInv
<1>4. CASE ReadStdFile \/ PreprocessRaises \/ PrintRaises
    BY <1>4 DEF ReadStdFile, PreprocessRaises, PrintRaises, OrderInv
<1>5. CASE PreprocessArch
    <2>1. pc' = "std" \/ (pc' = "walk" /\ archNr' = 1 /\ todo' = tree)
        BY <1>5 DEF PreprocessArch
    <2>2. tree' \ tree = {} /\ 1..(1 - 1) = {}
        BY <1>1
    <2>3. QED
        BY <2>1, <2>2 DEF OrderInv
<1>6. CASE PrintMapping \/ PrintSystemMapping
    BY <1>6 DEF PrintMapping, PrintSystemMapping, walk, OrderInv
<1>7. CASE EndOfArch
    <2>1. pc = "walk" /\ InArch = {} /\ todo' = todo
        BY <1>7 DEF EndOfArch
    <2>2. \A x \in todo : x.path[1] # Archs[archNr]
        BY <2>1 DEF InArch
    <2>3. \A x \in todo : \A k \in 1..archNr : x.path[1] # Archs[k]
        <3>1. \A k \in 1..archNr : k \in 1..(archNr - 1) \/ k = archNr
            BY <1>2
        <3>2. QED
            BY <2>1, <2>2, <3>1 DEF OrderInv
    <2>4. CASE archNr = Len(Archs)
        <3>1. \A x \in todo : FALSE
            BY <2>3, <2>4, InTree DEF TreeInv
        <3>2. QED
            BY <1>7, <2>1, <2>4, <3>1 DEF EndOfArch, OrderInv
    <2>5. CASE archNr # Len(Archs)
        <3>1. pc' = "walk" /\ archNr' = archNr + 1
            BY <1>7, <2>1, <2>5 DEF EndOfArch
        <3>2. archNr' - 1 = archNr /\ 1..archNr \subseteq 1..archNr'
            BY <1>2, <3>1
        <3>3. QED
            BY <1>1, <2>1, <2>3, <3>1, <3>2 DEF OrderInv
    <2>6. QED
        BY <2>4, <2>5
<1>8. CASE VisitNext
    <2>1. PICK it \in InArch : IsNext(it) /\ (SkipModel(it) \/ EnterModelDir(it) \/ PassItem(it) \/ ReadFile(it))
        BY <1>8 DEF VisitNext
    <2>2. pc = "walk" /\ pc' = pc /\ archNr' = archNr
        BY <1>8, <2>1 DEF VisitNext, SkipModel, EnterModelDir, PassItem, ReadFile
    <2>3. it \in todo /\ it \in tree /\ it.path \in Paths /\ it.path[1] = Archs[archNr]
        BY InTree DEF InArch, TreeInv
    <2>4. \A y \in todo \ {it} : y.path[1] = it.path[1] => Before(it.path, y.path)
        BY <2>1, <2>3 DEF IsNext, InArch
    <2>5. todo' \subseteq todo
        BY <2>1 DEF SkipModel, EnterModelDir, PassItem, ReadFile, Visit
    <2>6. ASSUME NEW x \in tree \ todo', NEW y \in todo'
          PROVE  x.path[1] = y.path[1] => Before(x.path, y.path)
        <3>1. CASE x \notin todo
            BY <2>2, <2>5, <2>6, <3>1 DEF OrderInv
        <3>2. CASE x \in todo /\ SkipModel(it)
            <4>1. todo' = {other \in todo : ~ IsPrefix(it.path, other.path)}
                BY <3>2 DEF SkipModel
            <4>2. IsPrefix(it.path, x.path) /\ ~ IsPrefix(it.path, y.path) /\ y \in todo
                BY <2>6, <3>2, <4>1
            <4>3. x.path \in Paths /\ y.path \in Paths
                BY <3>2, <4>2, InTree DEF TreeInv
            <4>4. x.path[1] = it.path[1]
                <5>1. 1 \in 1..Len(it.path)
                    BY <2>3, PathNumbers
                <5>2. QED
                    BY <2>3, <4>2, <4>3, <5>1, PrefixElements
            <4>5. y # it
                <5>1. IsPrefix(it.path, it.path)
                    BY <2>3, PrefixElements, PathNumbers
                <5>2. QED
                    BY <4>2, <5>1
            <4>6. QED
                BY <2>3, <2>4, <4>2, <4>3, <4>4, <4>5, InsideComesBefore
        <3>3. CASE x \in todo /\ ~ SkipModel(it)
            <4>1. todo' = todo \ {it}
                BY <2>1, <3>3 DEF EnterModelDir, PassItem, ReadFile, Visit
            <4>2. x = it /\ y \in todo \ {it}
                BY <2>6, <3>3, <4>1
            <4>3. QED
                BY <2>4, <4>2
        <3>4. QED
            BY <3>1, <3>2, <3>3
    <2>7. \A x \in tree \ todo' : \E k \in 1..archNr : x.path[1] = Archs[k]
        <3> SUFFICES ASSUME NEW x \in tree \ todo'
                     PROVE  \E k \in 1..archNr : x.path[1] = Archs[k]
            OBVIOUS
        <3>1. CASE x \notin todo
            BY <2>2, <3>1 DEF OrderInv
        <3>2. CASE x \in todo
            <4>1. x = it \/ IsPrefix(it.path, x.path)
                BY <2>1, <3>2 DEF SkipModel, EnterModelDir, PassItem, ReadFile, Visit
            <4>2. 1 \in 1..Len(it.path) /\ x.path \in Paths
                BY <2>3, <3>2, PathNumbers, InTree DEF TreeInv
            <4>3. x.path[1] = it.path[1]
                BY <2>3, <4>1, <4>2, PrefixElements
            <4>4. QED
                BY <1>2, <2>3, <4>3
        <3>3. QED
            BY <3>1, <3>2
    <2>8. QED
        BY <1>1, <2>2, <2>5, <2>6, <2>7 DEF OrderInv
<1>9. QED
    BY <1>3, <1>4, <1>5, <1>6, <1>7, <1>8 DEF Next, vars, walk

\* The layout of the tree is what it is from the beginning.
LEMMA SameLayout ==
    ASSUME UNCHANGED inputs
    PROVE  WellLaidOut' <=> WellLaidOut
<1>1. \A d : IsModelDir(d)' <=> IsModelDir(d)
    BY DEF inputs, IsModelDir, LeafDir
<1>2. QED
    BY <1>1, SameWalked DEF inputs, WellLaidOut, DirOf

LEMMA PlaceStep ==
    ASSUME TreeInv, OrderInv, PlaceInv, [Next]_vars
    PROVE  PlaceInv'
<1>1. UNCHANGED inputs /\ UNCHANGED tree
    BY TreeStep DEF inputs
<1>2. \A it : Walked(it)' <=> Walked(it)
    BY <1>1, SameWalked
<1> SUFFICES ASSUME pc' = "walk", WellLaidOut, NEW it \in todo', Walked(it),
                    NEW d \in tree \ todo', d.path = DirOf(it)
             PROVE  tblname' = d.path
    BY <1>1, <1>2, SameLayout DEF PlaceInv, DirOf
<1>3. CASE UNCHANGED <<pc, todo, tblname>>
    BY <1>3 DEF PlaceInv
<1>4. CASE PreprocessArch
    BY <1>1, <1>4 DEF PreprocessArch
<1>5. CASE EndOfArch
    BY <1>5 DEF EndOfArch, PlaceInv
<1>6. CASE VisitNext
    <2>1. PICK e \in InArch : IsNext(e) /\ (SkipModel(e) \/ EnterModelDir(e) \/ PassItem(e) \/ ReadFile(e))
        BY <1>6 DEF VisitNext
    <2>2. pc = "walk" /\ e \in todo
        BY <1>6 DEF VisitNext, InArch
    <2>3. d \notin todo /\ it \in todo => (tblname = d.path /\ (e.dir /\ it # e => FALSE))
        BY <2>1, <2>2, NoFileLeft DEF PlaceInv
    <2>4. it \in todo /\ it \in tree /\ d \in tree
        BY <1>1, <2>1 DEF TreeInv, SkipModel, EnterModelDir, PassItem, ReadFile, Visit
    <2>5. CASE SkipModel(e)
        <3>1. todo' = {other \in todo : ~ IsPrefix(e.path, other.path)} /\ tblname' = tblname
            BY <2>5 DEF SkipModel
        <3>2. IsPrefix(d.path, it.path) /\ it.path \in Paths /\ d.path \in Paths /\ e.path \in Paths
            BY <2>2, <2>4, InTree DEF TreeInv
        <3>3. ~ IsPrefix(e.path, it.path)
            BY <3>1
        <3>4. ~ IsPrefix(e.path, d.path)
            BY <3>2, <3>3, PrefixesChain
        <3>5. d \notin todo
            BY <3>1, <3>4
        <3>6. QED
            BY <2>3, <2>4, <3>1, <3>5
    <2>6. CASE EnterModelDir(e)
        <3>1. todo' = todo \ {e} /\ tblname' = e.path /\ e.dir
            BY <2>6 DEF EnterModelDir, Visit, IsModelDir, LeafDir
        <3>2. it # e
            BY <3>1
        <3>3. d = e
            BY <2>3, <2>4, <3>1, <3>2
        <3>4. QED
            BY <3>1, <3>3
    <2>7. CASE PassItem(e) \/ ReadFile(e)
        <3>1. todo' = todo \ {e} /\ tblname' = tblname /\ ~ IsModelDir(e)
            BY <2>7 DEF PassItem, ReadFile, Visit, IsModelDir, LeafDir
        <3>2. IsModelDir(d)
            BY <2>4 DEF WellLaidOut
        <3>3. d \notin todo
            BY <3>1, <3>2
        <3>4. QED
            BY <2>3, <2>4, <3>1, <3>3
    <2>8. QED
        BY <2>1, <2>5, <2>6, <2>7
<1>7. QED
    BY <1>3, <1>4, <1>5, <1>6
    DEF Next, vars, walk, ReadStdFile, PreprocessRaises, PrintRaises, PrintMapping, PrintSystemMapping

\* What closing a table makes of the list of tables.
LEMMA ClosedElements ==
    ASSUME NEW tables, tables \in Seq(Range(tables)), NEW entries
    PROVE  /\ DOMAIN tables = 1..Len(tables)
           /\ \A i \in DOMAIN Close(tables, entries) :
                \/ i \in DOMAIN tables /\ Close(tables, entries)[i] = tables[i]
                \/ /\ i = Len(tables) + 1 /\ i \notin DOMAIN tables
                   /\ entries # {}
                   /\ Close(tables, entries)[i].name = tblname
                   /\ Close(tables, entries)[i].entries = entries
<1>1. DOMAIN tables = 1..Len(tables)
    OBVIOUS
<1>2. CASE entries = {}
    BY <1>1, <1>2 DEF Close
<1>3. CASE entries # {}
    <2> DEFINE new == [name |-> tblname, entries |-> entries]
               more == Append(tables, new)
    <2>1. /\ DOMAIN more = 1..(Len(tables) + 1) /\ Len(tables) \in Nat
          /\ more[Len(tables) + 1] = new
          /\ \A i \in DOMAIN tables : more[i] = tables[i]
        OBVIOUS
    <2>2. new.name = tblname /\ new.entries = entries
        OBVIOUS
    <2>3. Close(tables, entries) = more
        BY <1>3 DEF Close
    <2> HIDE DEF new, more
    <2>4. \A i \in DOMAIN more : i \in DOMAIN tables \/ (i = Len(tables) + 1 /\ i \notin DOMAIN tables)
        BY <1>1, <2>1
    <2>5. QED
        BY <1>1, <1>3, <2>1, <2>2, <2>3, <2>4
<1>4. QED
    BY <1>1, <1>2, <1>3

LEMMA NameStep ==
    ASSUME TreeInv, KeptInv, FirstWalkInv, NameInv, [Next]_vars
    PROVE  NameInv'
<1>1. UNCHANGED tree
    BY TreeStep DEF inputs
<1>2. CASE ReadStdFile \/ PreprocessArch \/ PreprocessRaises
    <2>1. pc = "std" /\ UNCHANGED <<tblname, eventTables, metricTables>> /\ pc' \in {"std", "walk", "raised"}
        BY <1>2 DEF ReadStdFile, PreprocessArch, PreprocessRaises, written
    <2>2. eventTables = <<>> /\ metricTables = <<>> /\ tblname = None
        BY <2>1 DEF FirstWalkInv, NameInv
    <2>3. Range(<<>>) = {}
        BY DEF Range
    <2>4. QED
        BY <2>1, <2>2, <2>3 DEF NameInv
<1>3. CASE pc' \notin {"std", "walk"}
    BY <1>3 DEF NameInv
<1>4. CASE UNCHANGED vars
    <2>1. UNCHANGED <<pc, tree, todo, tblname, eventTables, metricTables>>
        BY <1>4 DEF vars, inputs, walk, written
    <2>2. \A dir : VisitedDir(dir)' <=> VisitedDir(dir)
        BY <2>1 DEF VisitedDir
    <2>3. QED
        BY <2>1, <2>2 DEF NameInv
<1>5. ASSUME pc = "walk", todo' \subseteq todo, tblname' = tblname \/ VisitedDir(tblname)',
             (eventTables' = eventTables /\ metricTables' = metricTables) \/ (CanPrint /\ PrintPending),
             pc' = "walk"
      PROVE  NameInv'
    <2>1. \A dir : VisitedDir(dir) => VisitedDir(dir)'
        BY <1>1, <1>5 DEF VisitedDir
    <2>2. \A t \in Range(eventTables) \cup Range(metricTables) : VisitedDir(t.name)
        BY <1>5 DEF NameInv
    <2>3. tblname # None => VisitedDir(tblname)
        BY <1>5 DEF NameInv
    <2>4. ASSUME NEW tables \in {eventTables, metricTables}, NEW waiting, waiting # {} => tblname # None
          PROVE  \A t \in Range(Close(tables, waiting)) : VisitedDir(t.name)
        <3>1. tables \in Seq(Range(tables))
            BY DEF KeptInv
        <3>2. \A i \in DOMAIN tables : VisitedDir(tables[i].name)
            BY <2>2 DEF Range
        <3>3. \A i \in DOMAIN Close(tables, waiting) : VisitedDir(Close(tables, waiting)[i].name)
            BY <2>3, <2>4, <3>1, <3>2, ClosedElements
        <3>4. QED
            BY <3>3 DEF Range
    <2>5. \A t \in Range(eventTables') \cup Range(metricTables') : VisitedDir(t.name)
        BY <1>5, <2>2, <2>4 DEF CanPrint, PrintPending
    <2>6. \A t \in Range(eventTables') \cup Range(metricTables') : VisitedDir(t.name)'
        BY <2>1, <2>5
    <2>7. (tblname # None => VisitedDir(tblname))'
        BY <1>1, <1>5, <2>3 DEF VisitedDir
    <2>8. QED
        BY <1>5, <2>6, <2>7 DEF NameInv
<1>6. CASE VisitNext
    <2>1. PICK it \in InArch : SkipModel(it) \/ EnterModelDir(it) \/ PassItem(it) \/ ReadFile(it)
        BY <1>6 DEF VisitNext
    <2>2. pc = "walk" /\ pc' = "walk"
        BY <1>6, <2>1 DEF VisitNext, SkipModel, EnterModelDir, PassItem, ReadFile
    <2>3. it \in todo /\ it \in tree
        BY DEF InArch, TreeInv
    <2>4. todo' \subseteq todo
        BY <2>1 DEF SkipModel, EnterModelDir, PassItem, ReadFile, Visit
    <2>5. tblname' = tblname \/ VisitedDir(tblname)'
        BY <1>1, <2>1, <2>3 DEF SkipModel, EnterModelDir, PassItem, ReadFile, Visit, IsModelDir, LeafDir, VisitedDir
    <2>6. (eventTables' = eventTables /\ metricTables' = metricTables) \/ (CanPrint /\ PrintPending)
        BY <2>1 DEF SkipModel, EnterModelDir, PassItem, ReadFile, written
    <2>7. QED
        BY <1>5, <2>2, <2>4, <2>5, <2>6
<1>7. CASE EndOfArch /\ pc' = "walk"
    BY <1>5, <1>7 DEF EndOfArch
<1>8. QED
    BY <1>2, <1>3, <1>4, <1>6, <1>7 DEF Next, EndOfArch, PrintRaises, PrintMapping, PrintSystemMapping

-----------------------------------------------------------------------------
(* What the tables of a well laid out tree hold. *)

\* The table that is pending is that of a directory of this architecture.
OpenDir == pc = "walk" /\ tblname # None /\ tblname[1] = Archs[archNr]

\* Each table holds entries of its directory only, and has a name of its own.
Apart(tables) ==
    /\ \A t \in Range(tables) : \A x \in t.entries : Front(x.file) = t.name
    /\ NamesApart(tables)

\* The same of the pending list, which becomes the next table
CanFollow(waiting, tables) ==
    /\ waiting # {} => OpenDir
    /\ \A x \in waiting : Front(x.file) = tblname
    /\ OpenDir => tblname \notin TableNames(tables)
    /\ Apart(tables)

TablesInv ==
    WellLaidOut /\ pc # "raised" =>
        /\ CanFollow(pendingEvents, eventTables)
        /\ CanFollow(pendingMetrics, metricTables)

LEMMA ClosedApart ==
    ASSUME NEW tables, tables \in Seq(Range(tables)), NEW waiting, CanFollow(waiting, tables)
    PROVE  /\ Apart(Close(tables, waiting))
           /\ \A t \in Range(Close(tables, waiting)) : t \in Range(tables) \/ (OpenDir /\ t.name = tblname)
<1> DEFINE more == Close(tables, waiting)
<1>1. /\ DOMAIN tables = 1..Len(tables)
      /\ \A i \in DOMAIN more :
            \/ i \in DOMAIN tables /\ more[i] = tables[i]
            \/ /\ i = Len(tables) + 1 /\ i \notin DOMAIN tables
               /\ waiting # {} /\ more[i].name = tblname /\ more[i].entries = waiting
    BY ClosedElements
<1> HIDE DEF more
<1>2. \A i \in DOMAIN tables : tables[i] \in Range(tables) /\ tables[i].name \in TableNames(tables)
    BY DEF Range, TableNames
<1>3. \A i \in DOMAIN more : \A x \in more[i].entries : Front(x.file) = more[i].name
    BY <1>1, <1>2 DEF CanFollow, Apart, NamesApart
<1>4. \A i, j \in DOMAIN more : more[i].name = more[j].name => i = j
    BY <1>1, <1>2 DEF CanFollow, Apart, NamesApart
<1>5. Apart(more)
    BY <1>3, <1>4 DEF Apart, NamesApart, Range
<1>6. \A t \in Range(more) : t \in Range(tables) \/ (OpenDir /\ t.name = tblname)
    BY <1>1, <1>2 DEF Range, CanFollow
<1>7. QED
    BY <1>5, <1>6 DEF more

\* The file that is read next is in the directory that names the tables.
LEMMA ReadInItsDirectory ==
    ASSUME TreeInv, OrderInv, PlaceInv, WellLaidOut, pc = "walk",
           NEW it \in InArch, IsNext(it), Walked(it)
    PROVE  tblname = DirOf(it) /\ OpenDir
<1>1. it \in todo /\ it \in tree /\ it.path[1] = Archs[archNr]
    BY DEF InArch, TreeInv
<1>2. Level(it) \in 1..4
    BY DEF Walked
<1>3. /\ it.path \in Paths /\ Len(it.path) \in Nat
      /\ \A n \in 2..(Len(it.path) - 1) : \E d \in tree : d.dir /\ d.path = SubSeq(it.path, 1, n)
      /\ DirOf(it) \in Paths /\ IsPrefix(DirOf(it), it.path) /\ DirOf(it)[1] = it.path[1]
    BY <1>1, InTree
<1>4. Len(it.path) - 1 \in 2..(Len(it.path) - 1)
    <2>1. Len(it.path) \in Nat /\ Len(it.path) - 2 \in 1..4
        BY <1>2, <1>3 DEF Level
    <2>2. \A n \in Nat : n - 2 \in 1..4 => n - 1 \in 2..(n - 1)
        OBVIOUS
    <2>3. QED
        BY <2>1, <2>2
<1>5. PICK d \in tree : d.path = DirOf(it)
    BY <1>3, <1>4 DEF DirOf, Front
<1>6. d \notin todo
    <2> SUFFICES ASSUME d \in todo
                 PROVE  FALSE
        OBVIOUS
    <2>1. d # it
        BY <1>2, <1>5 DEF WellLaidOut, IsModelDir, LeafDir, Walked
    <2>2. d \in InArch
        BY <1>1, <1>3, <1>5 DEF InArch
    <2>3. Before(it.path, d.path)
        BY <2>1, <2>2 DEF IsNext
    <2>4. QED
        BY <1>3, <1>5, <2>3, InsideComesLater
<1>7. tblname = d.path
    BY <1>1, <1>5, <1>6 DEF PlaceInv
<1>8. QED
    BY <1>1, <1>3, <1>5, <1>7, InTree DEF OpenDir

LEMMA TablesStep ==
    ASSUME TreeInv, LeftOutInv, FirstWalkInv, KeptInv, OrderInv, PlaceInv, NameInv, TablesInv, [Next]_vars
    PROVE  TablesInv'
<1>1. UNCHANGED inputs /\ UNCHANGED tree
    BY TreeStep DEF inputs
<1> SUFFICES ASSUME WellLaidOut, pc' # "raised"
             PROVE  CanFollow(pendingEvents, eventTables)' /\ CanFollow(pendingMetrics, metricTables)'
    BY <1>1, SameLayout DEF TablesInv
<1>2. pc # "raised"
    BY DEF Next, vars, ReadStdFile, PreprocessArch, VisitNext, SkipModel, EnterModelDir, PassItem, ReadFile,
           EndOfArch, PrintMapping, PrintSystemMapping, PreprocessRaises, PrintRaises
<1>3. CanFollow(pendingEvents, eventTables) /\ CanFollow(pendingMetrics, metricTables)
    BY <1>2 DEF TablesInv
<1>4. ASSUME UNCHANGED <<pendingEvents, pendingMetrics, eventTables, metricTables>>, OpenDir' <=> OpenDir,
             UNCHANGED tblname
      PROVE  CanFollow(pendingEvents, eventTables)' /\ CanFollow(pendingMetrics, metricTables)'
    BY <1>3, <1>4 DEF CanFollow, Apart, NamesApart, TableNames
<1>5. ASSUME CanPrint, PrintPending, pc = "walk",
             OpenDir' => \A t \in Range(eventTables) \cup Range(metricTables) : t.name # tblname',
             OpenDir' => tblname' # tblname
      PROVE  CanFollow(pendingEvents, eventTables)' /\ CanFollow(pendingMetrics, metricTables)'
    <2>1. /\ eventTables' = Close(eventTables, pendingEvents) /\ pendingEvents' = {}
          /\ metricTables' = Close(metricTables, pendingMetrics) /\ pendingMetrics' = {}
        BY <1>5 DEF PrintPending
    <2>2. /\ Apart(Close(eventTables, pendingEvents))
          /\ \A t \in Range(Close(eventTables, pendingEvents)) : t \in Range(eventTables) \/ t.name = tblname
        BY <1>3, ClosedApart DEF KeptInv
    <2>3. /\ Apart(Close(metricTables, pendingMetrics))
          /\ \A t \in Range(Close(metricTables, pendingMetrics)) : t \in Range(metricTables) \/ t.name = tblname
        BY <1>3, ClosedApart DEF KeptInv
    <2>4. Apart(eventTables)' /\ Apart(metricTables)'
        BY <2>1, <2>2, <2>3 DEF Apart, NamesApart
    <2>5. OpenDir' => /\ \A t \in Range(eventTables') : t.name # tblname'
                      /\ \A t \in Range(metricTables') : t.name # tblname'
        BY <1>5, <2>1, <2>2, <2>3
    <2>6. QED
        BY <2>1, <2>4, <2>5 DEF CanFollow, TableNames
<1>6. CASE ReadStdFile \/ PreprocessArch
    <2>1. pc = "std" /\ UNCHANGED <<tblname, pendingEvents, pendingMetrics, eventTables, metricTables>>
        BY <1>6 DEF ReadStdFile, PreprocessArch, pending, written
    <2>2. tblname = None
        BY <2>1 DEF NameInv
    <2>3. QED
        BY <1>4, <2>1, <2>2 DEF OpenDir
<1>7. CASE PrintMapping \/ PrintSystemMapping \/ UNCHANGED vars
    <2>1. UNCHANGED <<tblname, pendingEvents, pendingMetrics, eventTables, metricTables>>
        BY <1>7 DEF PrintMapping, PrintSystemMapping, vars, pending, written
    <2>2. (pc # "walk" /\ pc' # "walk") \/ UNCHANGED <<pc, tblname, archNr>>
        BY <1>7 DEF PrintMapping, PrintSystemMapping, vars, walk
    <2>3. QED
        BY <1>4, <2>1, <2>2 DEF OpenDir
<1>8. CASE EndOfArch
    <2>1. CanPrint /\ PrintPending /\ UNCHANGED tblname /\ pc = "walk"
          /\ (pc' = "walk" => archNr # Len(Archs) /\ archNr' = archNr + 1)
        BY <1>8 DEF EndOfArch
    <2>2. ASSUME OpenDir'
          PROVE  FALSE
        <3>1. pc' = "walk" /\ tblname # None /\ tblname[1] = Archs[archNr'] /\ archNr # Len(Archs) /\ archNr' = archNr + 1
            BY <2>1, <2>2 DEF OpenDir
        <3>2. PICK d \in tree \ todo : d.path = tblname
            BY <2>1, <3>1 DEF NameInv, VisitedDir
        <3>3. PICK k \in 1..archNr : tblname[1] = Archs[k]
            BY <2>1, <3>2 DEF OrderInv
        <3>4. Len(Archs) \in Nat /\ archNr \in 1..Len(Archs)
            BY ArchsAssumption DEF TreeInv
        <3>5. k \in 1..Len(Archs) /\ archNr + 1 \in 1..Len(Archs) /\ k # archNr + 1
            BY <3>1, <3>4
        <3>6. Archs[k] = Archs[archNr + 1]
            BY <3>1, <3>3
        <3>7. QED
            BY <3>5, <3>6, ArchsDiffer
    <2>3. QED
        BY <1>5, <2>1, <2>2
<1>9. CASE VisitNext
    <2>1. PICK it \in InArch : IsNext(it) /\ (SkipModel(it) \/ EnterModelDir(it) \/ PassItem(it) \/ ReadFile(it))
        BY <1>9 DEF VisitNext
    <2>2. pc = "walk" /\ it \in todo /\ it \in tree
        BY <1>9 DEF VisitNext, InArch, TreeInv
    <2>3. CASE SkipModel(it) \/ PassItem(it)
        <3>1. UNCHANGED <<pc, archNr, tblname, pendingEvents, pendingMetrics, eventTables, metricTables>>
            BY <2>3 DEF SkipModel, PassItem, pending, written
        <3>2. QED
            BY <1>4, <3>1 DEF OpenDir
    <2>4. CASE EnterModelDir(it)
        <3>1. CanPrint /\ PrintPending /\ tblname' = it.path
            BY <2>4 DEF EnterModelDir
        <3>2. ~ VisitedDir(it.path)
            BY <2>2, ItemsOfTree DEF VisitedDir
        <3>3. \A t \in Range(eventTables) \cup Range(metricTables) : t.name # it.path
            BY <2>2, <3>2 DEF NameInv
        <3>4. tblname # it.path
            BY <2>2, <3>2, InTree DEF NameInv
        <3>5. QED
            BY <1>5, <2>2, <3>1, <3>3, <3>4
    <2>5. CASE ReadFile(it)
        <3>1. /\ UNCHANGED <<pc, archNr, tblname, eventTables, metricTables>> /\ LetThrough(it)
              /\ ~ it.dir /\ it.json /\ Level(it) \in 1..4
              /\ pendingEvents' = pendingEvents \cup EventsWith(cache, it)
              /\ pendingMetrics' = pendingMetrics \cup MetricsWith(cache, it)
            BY <2>5 DEF ReadFile, Visit, written, EventsOf, MetricsOf, EventsWith, MetricsWith
        <3>2. Walked(it)
            BY <2>1, <3>1, InsideWhatWasLetThrough DEF Walked
        <3>3. tblname = Front(it.path) /\ OpenDir
            BY <2>1, <2>2, <3>2, ReadInItsDirectory DEF DirOf
        <3>4. OpenDir'
            BY <3>1, <3>3 DEF OpenDir
        <3>5. \A x \in EventsWith(cache, it) \cup MetricsWith(cache, it) : Front(x.file) = tblname
            BY <3>3, FileOfEntry
        <3>6. QED
            BY <1>3, <3>1, <3>3, <3>4, <3>5 DEF CanFollow, Apart, NamesApart, TableNames
    <2>6. QED
        BY <2>1, <2>3, <2>4, <2>5
<1>10. QED
    BY <1>6, <1>7, <1>8, <1>9 DEF Next, PreprocessRaises, PrintRaises

\* What a table holds of all that was read, and what all tables of a directory do
LEMMA TableHasItsEntries ==
    ASSUME NEW all, NEW waiting, NEW tables, KeptOnce(all, waiting, tables), CanFollow(waiting, tables),
           NEW t \in Range(tables)
    PROVE  t.entries = {x \in all : Front(x.file) = t.name}
<1>1. all = waiting \cup EntriesIn(tables)
    BY DEF KeptOnce, EntriesIn
<1>2. ASSUME NEW x \in t.entries
      PROVE  x \in all /\ Front(x.file) = t.name
    BY <1>1, InEntries DEF CanFollow, Apart, NamesApart, Range
<1>3. ASSUME NEW x \in all, Front(x.file) = t.name
      PROVE  x \in t.entries
    <2>1. x \notin waiting
        BY <1>3 DEF CanFollow, TableNames
    <2>2. PICK u \in Range(tables) : x \in u.entries
        BY <1>1, <2>1, InEntries DEF Range
    <2>3. u.name = t.name
        BY <1>3, <2>2 DEF CanFollow, Apart, NamesApart
    <2>4. u = t
        BY <2>3 DEF CanFollow, Apart, NamesApart, Range
    <2>5. QED
        BY <2>2, <2>4
<1>4. QED
    BY <1>2, <1>3

LEMMA RowGivesItsEntries ==
    ASSUME NEW all, NEW tables, KeptOnce(all, {}, tables), CanFollow({}, tables), NEW dir, dir # None
    PROVE  /\ (IF Written(dir, tables) = None THEN {} ELSE EntriesOfTable(dir, tables))
                 = {x \in all : Front(x.file) = dir}
           /\ (\E x \in all : Front(x.file) = dir) => dir \in TableNames(tables)
<1> DEFINE own == {x \in all : Front(x.file) = dir}
<1>1. \A t \in Range(tables) : t.name = dir => t.entries = own
    BY TableHasItsEntries
<1>2. all = EntriesIn(tables)
    BY DEF KeptOnce, EntriesIn
<1>3. \A x \in own : dir \in TableNames(tables)
    BY <1>2, InEntries DEF CanFollow, Apart, NamesApart, Range, TableNames
<1> HIDE DEF own
<1>4. CASE dir \in TableNames(tables)
    <2>1. PICK t \in Range(tables) : t.name = dir
        BY <1>4 DEF TableNames
    <2>2. EntriesOfTable(dir, tables) = own
        <3> DEFINE ofDir == {x \in Range(tables) : x.name = dir}
                   found == UNION {x.entries : x \in ofDir}
        <3>1. \A x \in ofDir : x.entries = own
            BY <1>1
        <3>2. t \in ofDir
            BY <2>1
        <3> HIDE DEF ofDir
        <3>3. {x.entries : x \in ofDir} = {own}
            BY <3>1, <3>2
        <3>4. found = own
            BY <3>3
        <3>5. QED
            BY <3>4 DEF EntriesOfTable, ofDir
    <2>3. QED
        BY <1>3, <1>4, <2>2 DEF Written, own
<1>5. CASE dir \notin TableNames(tables)
    BY <1>3, <1>5 DEF Written, own
<1>6. QED
    BY <1>4, <1>5

\* A table that is written has a directory of which no file is to come.
LEMMA NoneToCome ==
    ASSUME TreeInv, OrderInv, PlaceInv, NameInv, TablesInv, WellLaidOut,
           pc \in {"walk", "map", "sysmap", "done"}, NEW it \in todo, Walked(it)
    PROVE  \A t \in Range(eventTables) \cup Range(metricTables) : t.name # DirOf(it)
<1>1. pc = "walk"
    BY DEF OrderInv
<1> SUFFICES ASSUME NEW t \in Range(eventTables) \cup Range(metricTables), t.name = DirOf(it)
             PROVE  FALSE
    OBVIOUS
<1>2. PICK d \in tree \ todo : d.path = DirOf(it)
    BY <1>1 DEF NameInv, VisitedDir
<1>3. tblname = DirOf(it) /\ tblname = d.path
    BY <1>1, <1>2 DEF PlaceInv
<1>4. it \in tree /\ tblname # None /\ tblname[1] = it.path[1]
    BY <1>2, <1>3, InTree DEF TreeInv
<1>5. PICK k \in 1..archNr : tblname[1] = Archs[k]
    BY <1>1, <1>2, <1>3 DEF OrderInv
<1>6. \A j \in 1..(archNr - 1) : it.path[1] # Archs[j]
    BY <1>1 DEF OrderInv
<1>7. k = archNr
    BY <1>4, <1>5, <1>6 DEF TreeInv
<1>8. OpenDir
    BY <1>1, <1>4, <1>5, <1>7 DEF OpenDir
<1>9. QED
    BY <1>3, <1>8 DEF TablesInv, CanFollow, TableNames

\* The files of a directory that have been read, in terms of what was read
LEMMA FilesOfDirectory ==
    ASSUME TreeInv, NEW dir, \A it \in todo : Walked(it) => DirOf(it) # dir
    PROVE  /\ EventsIn(dir) = {x \in AllEvents(cache, ReadFiles) : Front(x.file) = dir}
           /\ MetricsIn(dir) = {x \in AllMetrics(cache, ReadFiles) : Front(x.file) = dir}
<1> DEFINE files == {x \in tree : Walked(x) /\ DirOf(x) = dir}
<1>1. \A it : it \in files <=> it \in ReadFiles /\ DirOf(it) = dir
    BY DEF ReadFiles, Visited
<1>2. EventsIn(dir) = AllEvents(cache, files)
    BY DEF EventsIn, AllEvents, EventsOf, EventsWith
<1>3. MetricsIn(dir) = AllMetrics(cache, files)
    BY DEF MetricsIn, AllMetrics, MetricsOf, MetricsWith
<1> HIDE DEF files
<1>4. AllEvents(cache, files) = {x \in AllEvents(cache, ReadFiles) : Front(x.file) = dir}
    BY <1>1, InAll, FileOfEntry DEF DirOf
<1>5. AllMetrics(cache, files) = {x \in AllMetrics(cache, ReadFiles) : Front(x.file) = dir}
    BY <1>1, InAll, FileOfEntry DEF DirOf
<1>6. QED
    BY <1>2, <1>3, <1>4, <1>5

\* Different names, as many as tables
LEMMA NamesOfTheirOwn ==
    ASSUME NEW tables, tables \in Seq(Range(tables)), Apart(tables)
    PROVE  Cardinality(TableNames(tables)) = Len(tables)
<1> DEFINE n == Len(tables)
           nameOf == [i \in 1..n |-> tables[i].name]
<1>1. n \in Nat /\ DOMAIN tables = 1..n
    OBVIOUS
<1>2. \A name : name \in TableNames(tables) <=> \E i \in 1..n : nameOf[i] = name
    BY <1>1 DEF TableNames, Range
<1>3. \A i, j \in 1..n : nameOf[i] = nameOf[j] => i = j
    BY <1>1 DEF Apart, NamesApart
<1> HIDE DEF n
<1>4. DOMAIN nameOf = 1..n /\ nameOf = [i \in 1..n |-> nameOf[i]]
    OBVIOUS
<1> HIDE DEF nameOf
<1>5. nameOf \in [1..n -> TableNames(tables)]
    BY <1>2, <1>4
<1>6. nameOf \in Bijection(1..n, TableNames(tables))
    BY <1>2, <1>3, <1>5 DEF Bijection, Injection, Surjection, IsInjective
<1>7. IsFiniteSet(1..n) /\ Cardinality(1..n) = n
    BY <1>1, FS_Interval
<1>8. Cardinality(TableNames(tables)) = n
    BY <1>6, <1>7, FS_Bijection DEF ExistsBijection
<1>9. QED
    BY <1>8 DEF n

-----------------------------------------------------------------------------
(* The match of tables and directories, when a run ends by an exception, too. *)

Match ==
    /\ \A t \in Range(eventTables) : t.entries = EventsIn(t.name)
    /\ \A t \in Range(metricTables) : t.entries = MetricsIn(t.name)
    /\ Apart(eventTables) /\ Apart(metricTables)

RowsInv ==
    /\ pc \in {"std", "walk", "map", "sysmap", "done", "raised"}
    /\ pc \in {"sysmap", "done"} => CpuRows \subseteq cpuMap
    /\ pc = "raised" /\ WellLaidOut => Match

LEMMA TablesMatch ==
    ASSUME TreeInv, FirstWalkInv, KeptInv, OrderInv, PlaceInv, NameInv, TablesInv, RowsInv, WellLaidOut
    PROVE  Match
<1>1. CASE pc = "std"
    <2>1. eventTables = <<>> /\ metricTables = <<>>
        BY <1>1 DEF FirstWalkInv
    <2>2. Range(<<>>) = {} /\ DOMAIN <<>> = {}
        BY DEF Range
    <2>3. QED
        BY <2>1, <2>2 DEF Match, Apart, NamesApart
<1>2. CASE pc = "raised"
    BY <1>2 DEF RowsInv
<1>3. CASE pc \in {"walk", "map", "sysmap", "done"}
    <2>1. CanFollow(pendingEvents, eventTables) /\ CanFollow(pendingMetrics, metricTables)
        BY <1>3 DEF TablesInv
    <2>2. ASSUME NEW t \in Range(eventTables)
          PROVE  t.entries = EventsIn(t.name)
        <3>1. t.entries = {x \in AllEvents(cache, ReadFiles) : Front(x.file) = t.name}
            BY <2>1, TableHasItsEntries DEF KeptInv
        <3>2. QED
            BY <1>3, <3>1, NoneToCome, FilesOfDirectory
    <2>3. ASSUME NEW t \in Range(metricTables)
          PROVE  t.entries = MetricsIn(t.name)
        <3>1. t.entries = {x \in AllMetrics(cache, ReadFiles) : Front(x.file) = t.name}
            BY <2>1, TableHasItsEntries DEF KeptInv
        <3>2. QED
            BY <1>3, <3>1, NoneToCome, FilesOfDirectory
    <2>4. QED
        BY <2>1, <2>2, <2>3 DEF Match, CanFollow
<1>4. QED
    BY <1>1, <1>2, <1>3 DEF RowsInv

LEMMA RowsStep ==
    ASSUME TreeInv, FirstWalkInv, KeptInv, OrderInv, PlaceInv, NameInv, TablesInv, RowsInv, [Next]_vars
    PROVE  RowsInv'
<1>1. UNCHANGED inputs /\ UNCHANGED tree
    BY TreeStep DEF inputs
<1>2. pc' \in {"std", "walk", "map", "sysmap", "done", "raised"}
    BY DEF RowsInv, Next, vars, ReadStdFile, PreprocessArch, VisitNext, SkipModel, EnterModelDir, PassItem, ReadFile,
           EndOfArch, PrintMapping, PrintSystemMapping, PreprocessRaises, PrintRaises
<1>3. ASSUME pc' \in {"sysmap", "done"}
      PROVE  CpuRows' \subseteq cpuMap'
    <2>1. UNCHANGED <<eventTables, metricTables>> /\ (cpuMap' = cpuMap \/ CpuRows \subseteq cpuMap')
          /\ (cpuMap' = cpuMap => pc \in {"sysmap", "done"} \/ CpuRows \subseteq cpuMap')
        BY <1>3 DEF Next, vars, ReadStdFile, PreprocessArch, VisitNext, SkipModel, EnterModelDir, PassItem, ReadFile,
           EndOfArch, PrintMapping, PrintSystemMapping, PreprocessRaises, PrintRaises, written, maps
    <2>2. CpuRows' = CpuRows
        BY <2>1 DEF CpuRows, TableNames, Written
    <2>3. QED
        BY <2>1, <2>2 DEF RowsInv
<1>4. ASSUME pc' = "raised", WellLaidOut'
      PROVE  Match'
    <2>1. UNCHANGED <<cache, eventTables, metricTables>>
        BY <1>4 DEF RowsInv, Next, vars, ReadStdFile, PreprocessArch, VisitNext, SkipModel, EnterModelDir, PassItem,
           ReadFile, EndOfArch, PrintMapping, PrintSystemMapping, PreprocessRaises, PrintRaises, written, standard
    <2>2. Match
        BY <1>1, <1>4, SameLayout, TablesMatch
    <2>3. /\ \A dir : EventsIn(dir)' = EventsIn(dir)
          /\ \A dir : MetricsIn(dir)' = MetricsIn(dir)
        BY <1>1, <2>1, SameWalked DEF EventsIn, MetricsIn, EventsOf, MetricsOf, DirOf
    <2>4. QED
        BY <2>1, <2>2, <2>3 DEF Match, Apart, NamesApart
<1>5. QED
    BY <1>2, <1>3, <1>4 DEF RowsInv

-----------------------------------------------------------------------------
(* What holds in every reachable state. *)

IInv ==
    /\ TreeInv /\ LeftOutInv /\ FirstWalkInv
    /\ KeptInv /\ StdInv /\ CacheInv /\ MapsInv
    /\ OrderInv /\ PlaceInv /\ NameInv /\ TablesInv /\ RowsInv

LEMMA IInvInit == Init => IInv
<1> SUFFICES ASSUME Init
             PROVE  IInv
    OBVIOUS
<1>1. Len(Archs) \in Nat /\ 1 \in 1..Len(Archs)
    BY ArchsAssumption, EmptySeq
<1>2. TreeInv /\ LeftOutInv /\ FirstWalkInv
    BY <1>1 DEF Init, TreeInv, LeftOutInv, FirstWalkInv
<1>3. ReadFiles = {}
    BY DEF Init, ReadFiles, Visited
<1>4. Range(<<>>) = {} /\ <<>> \in Seq({})
    BY DEF Range
<1>5. KeptInv
    BY <1>3, <1>4, NothingKept DEF Init, KeptInv
<1>6. StdInv /\ CacheInv /\ MapsInv
    BY <1>3, <1>4 DEF Init, StdInv, CacheInv, CachedUpTo, MapsInv
<1>7. OrderInv /\ PlaceInv /\ NameInv /\ RowsInv
    BY DEF Init, OrderInv, PlaceInv, NameInv, RowsInv
<1>8. TablesInv
    <2>1. DOMAIN <<>> = {} /\ TableNames(<<>>) = {}
        BY <1>4 DEF TableNames
    <2>2. QED
        BY <1>4, <2>1 DEF Init, TablesInv, CanFollow, Apart, NamesApart, OpenDir
<1>9. QED
    BY <1>2, <1>5, <1>6, <1>7, <1>8 DEF IInv

LEMMA IInvStep == IInv /\ [Next]_vars => IInv'
<1> SUFFICES ASSUME TreeInv, LeftOutInv, FirstWalkInv, KeptInv, StdInv, CacheInv, MapsInv,
                    OrderInv, PlaceInv, NameInv, TablesInv, RowsInv, [Next]_vars
             PROVE  IInv'
    BY DEF IInv
<1>1. TreeInv' /\ LeftOutInv' /\ FirstWalkInv'
    BY TreeStep, LeftOutStep, FirstWalkStep
<1>2. KeptInv'
    BY <1>1, KeptStep
<1>3. StdInv'
    BY StdStep
<1>4. CacheInv'
    BY <1>1, CacheStep
<1>5. MapsInv'
    BY MapsStep
<1>6. OrderInv' /\ PlaceInv' /\ NameInv'
    BY OrderStep, PlaceStep, NameStep
<1>7. TablesInv' /\ RowsInv'
    BY TablesStep, RowsStep
<1>8. QED
    BY <1>1, <1>2, <1>3, <1>4, <1>5, <1>6, <1>7 DEF IInv

LEMMA Invariance == Spec => []IInv
BY IInvInit, IInvStep, PTL DEF Spec

(***************************************************************************)
(* Whatever tree is walked with whatever model argument, at every point of *)
(* the main walk an entry that was read is pending or in one table, once:  *)
(* the flushing of print_pending_events loses none and doubles none.       *)
(***************************************************************************)
THEOREM ReadEntriesAlwaysKept == Spec => []ReadEntriesKept
<1>1. ASSUME IInv
      PROVE  ReadEntriesKept
    <2>1. UNION {EventsOf(it) : it \in ReadFiles} = AllEvents(cache, ReadFiles)
        BY DEF AllEvents, EventsOf, EventsWith
    <2>2. UNION {MetricsOf(it) : it \in ReadFiles} = AllMetrics(cache, ReadFiles)
        BY DEF AllMetrics, MetricsOf, MetricsWith
    <2>3. QED
        BY <1>1, <2>1, <2>2 DEF IInv, KeptInv, ReadEntriesKept, ReadFiles
<1>2. QED
    BY <1>1, Invariance, PTL

(***************************************************************************)
(* The standard event of an entry that is written is that of its own       *)
(* architecture, if that defines it, and one of an earlier architecture    *)
(* otherwise, for any number of architectures that define events of the    *)
(* same name in the one dictionary that is never emptied.                  *)
(***************************************************************************)
THEOREM StandardEventsAlwaysOwn == Spec => []StandardEventsOwn
<1>1. ASSUME IInv
      PROVE  StandardEventsOwn
    <2>1. SUFFICES ASSUME NEW x \in pendingEvents \cup pendingMetrics
                                    \cup UNION {t.entries : t \in Range(eventTables) \cup Range(metricTables)},
                          x.entry.std # None
                   PROVE  OwnOrEarlier(x.file, x.entry)
        BY DEF StandardEventsOwn
    <2>2. x \in AllEvents(cache, ReadFiles) \cup AllMetrics(cache, ReadFiles)
        <3>1. x \in pendingEvents \cup pendingMetrics \cup EntriesIn(eventTables) \cup EntriesIn(metricTables)
            BY <2>1, Zenon DEF EntriesIn
        <3>2. /\ AllEvents(cache, ReadFiles) = pendingEvents \cup EntriesIn(eventTables)
              /\ AllMetrics(cache, ReadFiles) = pendingMetrics \cup EntriesIn(metricTables)
            BY <1>1 DEF IInv, KeptInv, KeptOnce, EntriesIn
        <3>3. QED
            BY <3>1, <3>2
    <2>3. PICK it \in ReadFiles : x \in EventsWith(cache, it) \cup MetricsWith(cache, it)
        BY <2>2, InAll
    <2>4. x.file = it.path /\ x.entry \in cache[it.path]
        BY <2>3, FileOfEntry
    <2>5. it.path \in DOMAIN cache
        BY <1>1, <2>3 DEF IInv, CacheInv
    <2>6. QED
        BY <1>1, <2>1, <2>4, <2>5 DEF IInv, CacheInv
<1>2. QED
    BY <1>1, Invariance, PTL

(***************************************************************************)
(* When all is written, in a well laid out tree every table of a sys       *)
(* directory is in exactly one row of pmu_sys_event_tables, whether the    *)
(* directory has events, metrics or both: no two tables of a kind have the *)
(* same name, and metrics that were paired are not written again.          *)
(***************************************************************************)
THEOREM SysTablesAlwaysMappedOnce == Spec => []SysTablesMappedOnce
<1>1. ASSUME IInv
      PROVE  SysTablesMappedOnce
    <2>1. SUFFICES ASSUME pc = "done", WellLaidOut
                   PROVE  /\ \A t \in SysTables(eventTables) : Cardinality({r \in sysMap : r.events = t}) = 1
                          /\ \A t \in SysTables(metricTables) : Cardinality({r \in sysMap : r.metrics = t}) = 1
        BY DEF SysTablesMappedOnce
    <2>2. sysMap = SysRows /\ \A t \in Range(eventTables) \cup Range(metricTables) : t.name # None
        BY <1>1, <2>1 DEF IInv, MapsInv
    <2>3. NamesApart(eventTables) /\ NamesApart(metricTables)
        BY <1>1, <2>1, TablesMatch DEF IInv, Match, Apart
    <2>4. \A row : Cardinality({row}) = 1
        BY FS_Singleton
    <2>5. QED
        BY <2>2, <2>3, <2>4, RowsAreUnique
<1>2. QED
    BY <1>1, Invariance, PTL

(***************************************************************************)
(* In every tree whose files are in model directories and come before a    *)
(* sys directory, the table written for a directory holds the events (or   *)
(* metrics) of its files, all of them and no others, and no two tables of  *)
(* a kind have the same name, though the walk writes a table only when it  *)
(* enters the next directory and keeps the name over the end of an         *)
(* architecture.                                                           *)
(***************************************************************************)
THEOREM TablesAlwaysMatchDirectories == Spec => []TablesMatchDirectories
<1>1. ASSUME IInv
      PROVE  TablesMatchDirectories
    <2>1. WellLaidOut => Match
        BY <1>1, TablesMatch DEF IInv
    <2>2. Match => \A tables \in {eventTables, metricTables} : Cardinality(TableNames(tables)) = Len(tables)
        BY <1>1, NamesOfTheirOwn DEF Match, IInv, KeptInv
    <2>3. QED
        BY <2>1, <2>2 DEF Match, TablesMatchDirectories
<1>2. QED
    BY <1>1, Invariance, PTL

(***************************************************************************)
(* In such a tree, when all is written, the row of a map file whose        *)
(* directory has any events or metrics points its cpus at tables that hold *)
(* all of them, and at none where there are none.                          *)
(***************************************************************************)
THEOREM RowsAlwaysGiveTheirModel == Spec => []RowsGiveTheirModel
<1>1. ASSUME IInv
      PROVE  RowsGiveTheirModel
    <2>1. SUFFICES ASSUME pc = "done", WellLaidOut, NEW r \in Rows, EventsIn(r) \cup MetricsIn(r) # {}
                   PROVE  \E row \in cpuMap :
                            /\ row.dir = r
                            /\ (IF row.events = None THEN {} ELSE EntriesOfTable(r, eventTables)) = EventsIn(r)
                            /\ (IF row.metrics = None THEN {} ELSE EntriesOfTable(r, metricTables)) = MetricsIn(r)
        BY DEF RowsGiveTheirModel
    <2>2. CanFollow(pendingEvents, eventTables) /\ CanFollow(pendingMetrics, metricTables)
        BY <1>1, <2>1 DEF IInv, TablesInv
    <2>3. pendingEvents = {} /\ pendingMetrics = {}
        BY <2>1, <2>2 DEF CanFollow, OpenDir
    <2>4. /\ EventsIn(r) = {x \in AllEvents(cache, ReadFiles) : Front(x.file) = r}
          /\ MetricsIn(r) = {x \in AllMetrics(cache, ReadFiles) : Front(x.file) = r}
        BY <1>1, <2>1, FilesOfDirectory DEF IInv, OrderInv
    <2>5. r # None /\ ~ IsSysTable(r)
        BY RowsAssumption DEF IsSysTable
    <2>6. /\ (IF Written(r, eventTables) = None THEN {} ELSE EntriesOfTable(r, eventTables)) = EventsIn(r)
          /\ EventsIn(r) # {} => r \in TableNames(eventTables)
        BY <1>1, <2>2, <2>3, <2>4, <2>5, RowGivesItsEntries DEF IInv, KeptInv
    <2>7. /\ (IF Written(r, metricTables) = None THEN {} ELSE EntriesOfTable(r, metricTables)) = MetricsIn(r)
          /\ MetricsIn(r) # {} => r \in TableNames(metricTables)
        BY <1>1, <2>2, <2>3, <2>4, <2>5, RowGivesItsEntries DEF IInv, KeptInv
    <2> DEFINE row == [dir |-> r, events |-> Written(r, eventTables), metrics |-> Written(r, metricTables)]
    <2>8. row \in CpuRows
        BY <2>1, <2>5, <2>6, <2>7 DEF CpuRows
    <2>9. row \in cpuMap
        BY <1>1, <2>1, <2>8 DEF IInv, RowsInv
    <2>10. row.dir = r /\ row.events = Written(r, eventTables) /\ row.metrics = Written(r, metricTables)
        OBVIOUS
    <2> HIDE DEF row
    <2>11. QED
        BY <2>6, <2>7, <2>9, <2>10
<1>2. QED
    BY <1>1, Invariance, PTL
=============================================================================
