----------------------------- MODULE TableLayout -----------------------------
(***************************************************************************)
(* One table of events and one of metrics, from the entries of the json    *)
(* files to what the library reads out of them (src/jevents.py): the       *)
(* strings of the entries go into BigCString, the entries are sorted and   *)
(* printed as one array of offsets for each PMU, and decompress_event and  *)
(* decompress_metric take the fields out of the big string again.          *)
(*                                                                         *)
(* An entry is a function from attributes, and "pmu", to texts; <<>> is    *)
(* None.  The same entry can be an event and a metric.                     *)
(***************************************************************************)
EXTENDS BigCString

CONSTANTS
    EventAttributes,   \* _json_event_attributes
    MetricAttributes,  \* _json_metric_attributes
    EnumAttributes,    \* _json_enum_attributes: one digit, with no \000 behind it
    DoubledAttributes, \* those whose backslashes are doubled for a metric
    Entries,           \* the entries a file may hold
    MaxEntries         \* bound on the entries of the table

Fields == {"pmu", "desc"} \cup Range(EventAttributes) \cup Range(MetricAttributes)

ASSUME AttributesAssumption ==
    /\ EventAttributes \in Seq(Fields) /\ EventAttributes # <<>> /\ EventAttributes[1] = "name"
    /\ MetricAttributes \in Seq(Fields) /\ MetricAttributes # <<>> /\ MetricAttributes[1] = "metric_name"
    /\ DoubledAttributes \cap EnumAttributes = {}

\* An entry without a PMU is given one; flags are digits.
ASSUME EntriesAssumption ==
    \A e \in Entries :
        /\ \A field \in Fields : e[field] \in Texts
        /\ e["pmu"] # <<>>
        /\ \A attr \in EnumAttributes \cap Fields :
                e[attr] # <<>> => Len(e[attr]) = 1 /\ e[attr][1] # Backslash

VARIABLES
    entries,  \* the entries read, in their order
    todo,     \* the sorted entries of the table that is printed
    lastPmu, lastName,
    arrays    \* the arrays written: [metric, pmu, offsets]

vars == <<pc, bcsVars, entries, todo, lastPmu, lastName, arrays>>

Init ==
    /\ BcsInit
    /\ pc = "add"
    /\ entries = <<>>
    /\ todo = <<>>
    /\ lastPmu = <<>> /\ lastName = <<>>
    /\ arrays = <<>>

-----------------------------------------------------------------------------
IsEvent(e) == e["name"] # <<>>
IsMetric(e) == e["metric_name"] # <<>>

\* The characters of an attribute in the source of the big string.
Doubled(text) ==
    LET first[n \in 0..Len(text)] ==
            IF n = 0 THEN <<>>
            ELSE first[n - 1] \o IF text[n] = Backslash THEN <<Backslash, Backslash>> ELSE <<text[n]>>
    IN  first[Len(text)]
Source(e, attr, metric) ==
    IF metric /\ attr \in DoubledAttributes THEN Doubled(e[attr]) ELSE e[attr]

\* No text of the json files holds the end of a string.
ASSUME TextsAssumption ==
    \A e \in Entries : \A attr \in Fields, metric \in BOOLEAN : NulEscape \notin Range(Compiled(Source(e, attr, metric)))

Attributes(metric) == IF metric THEN MetricAttributes ELSE EventAttributes

Field(e, attr, metric) ==
    IF attr \in EnumAttributes
    THEN IF e[attr] = <<>> THEN <<"0">> ELSE e[attr]
    ELSE Source(e, attr, metric) \o NulEscape

build_c_string(e, metric) ==
    LET first[n \in 0..Len(Attributes(metric))] ==
            IF n = 0 THEN <<>> ELSE first[n - 1] \o Field(e, Attributes(metric)[n], metric)
    IN  first[Len(Attributes(metric))]

PmuString(pmu) == pmu \o NulEscape
StringsOf(e, metric) == <<PmuString(e["pmu"]), build_c_string(e, metric)>>

\* preprocess_one_file, for one entry of a file
ReadEntry(e) ==
    /\ pc = "add"
    /\ Len(entries) < MaxEntries
    /\ entries' = Append(entries, e)
    /\ AddAll(IF IsEvent(e) THEN StringsOf(e, FALSE) ELSE <<>>,
              IF IsMetric(e) THEN StringsOf(e, TRUE) ELSE <<>>)
    /\ UNCHANGED <<pc, todo, lastPmu, lastName, arrays>>

ComputeStrings == BcsStep /\ UNCHANGED <<entries, todo, lastPmu, lastName, arrays>>

-----------------------------------------------------------------------------
\* replace(',', '_')
Underscored(pmu) == [i \in DOMAIN pmu |-> IF pmu[i] = "," THEN "_" ELSE pmu[i]]
IsNotNone(text) == IF text = <<>> THEN <<>> ELSE <<"1">>

\* Mutant: the name decides before the PMU.
EventKey_NameFirst(e) == <<e["name"], Underscored(e["pmu"]), IsNotNone(e["desc"]), e["metric_name"]>>

\* event_cmp_key without the topic, metric_cmp_key
EventKey(e) == <<Underscored(e["pmu"]), e["name"], IsNotNone(e["desc"]), e["metric_name"]>>
MetricKey(e) == <<IsNotNone(e["desc"]), e["pmu"], e["metric_name"]>>

KeyLess(k, l) ==
    \E i \in DOMAIN k : SubSeq(k, 1, i - 1) = SubSeq(l, 1, i - 1) /\ Less(k[i], l[i])

\* The entries that have a row, as positions
EntriesOf(metric) == {i \in DOMAIN entries : IF metric THEN IsMetric(entries[i]) ELSE IsEvent(entries[i])}

\* Python's sorted keeps the order of entries with the same key.
Sorted(metric) ==
    LET Key(i) == IF metric THEN MetricKey(entries[i]) ELSE EventKey(entries[i])
        Precedes(i, j) == KeyLess(Key(i), Key(j)) \/ (Key(i) = Key(j) /\ i < j)
        own == EntriesOf(metric)
        order == Ordered(own, {p \in own \X own : Precedes(p[1], p[2])})
    IN  [k \in DOMAIN order |-> entries[order[k]]]

Printing == pc \in {"events", "metrics"}
Metric == pc = "metrics"

StartEvents ==
    /\ pc = "done"
    /\ pc' = "events"
    /\ todo' = Sorted(FALSE)
    /\ UNCHANGED <<bcsVars, entries, lastPmu, lastName, arrays>>

Duplicate ==
    ~ Metric /\ todo # <<>> /\ lastPmu = Head(todo)["pmu"] /\ lastName = Head(todo)["name"]

\* One entry; an array begins where the PMU changes.
PrintEntry ==
    /\ Printing
    /\ todo # <<>>
    /\ ~ Duplicate
    /\ LET e == Head(todo)
           offset == offsets[build_c_string(e, Metric)]
       IN  /\ arrays' = IF e["pmu"] = lastPmu
                        THEN [arrays EXCEPT ![Len(arrays)].offsets = Append(@, offset)]
                        ELSE Append(arrays, [metric |-> Metric, pmu |-> e["pmu"],
                                             offsets |-> <<offset>>])
           /\ lastPmu' = e["pmu"]
           /\ lastName' = e["name"]
    /\ todo' = Tail(todo)
    /\ UNCHANGED <<pc, bcsVars, entries>>

\* "Duplicate event"
PrintRaises ==
    /\ Printing
    /\ Duplicate
    /\ pc' = "raised"
    /\ UNCHANGED <<bcsVars, entries, todo, lastPmu, lastName, arrays>>

StartMetrics ==
    /\ pc = "events"
    /\ todo = <<>>
    /\ pc' = "metrics"
    /\ todo' = Sorted(TRUE)
    /\ lastPmu' = <<>> /\ lastName' = <<>>
    /\ UNCHANGED <<bcsVars, entries, arrays>>

PrintEnds ==
    /\ pc = "metrics"
    /\ todo = <<>>
    /\ pc' = "printed"
    /\ UNCHANGED <<bcsVars, entries, todo, lastPmu, lastName, arrays>>

Next ==
    \/ \E e \in Entries : ReadEntry(e)
    \/ ComputeStrings
    \/ StartEvents
    \/ PrintEntry
    \/ PrintRaises
    \/ StartMetrics
    \/ PrintEnds

Spec == Init /\ [][Next]_vars

-----------------------------------------------------------------------------
\* What the compiled library holds: the big string, and a row of the table for
\* each PMU, with the offset of its name and the array of that C name.
Memory == Compiled(big) \o <<NulEscape>>
ArrayName(a) == <<a.metric, Underscored(a.pmu)>>

\* A string from p on, without its end; end of it
EndOf(memory, p) == CHOOSE k \in p..Len(memory) : memory[k] = NulEscape /\ \A j \in p..(k - 1) : memory[j] # NulEscape
CString(memory, p) == SubSeq(memory, p, EndOf(memory, p) - 1)

\* Mutant: the pointer stays in front of a flag.
Behind_EnumKept(memory, p, attr) ==
    IF attr \in EnumAttributes THEN p ELSE EndOf(memory, p) + 1

\* Where the next field begins
Behind(memory, p, attr) ==
    IF attr \in EnumAttributes THEN p + 1 ELSE EndOf(memory, p) + 1

\* decompress_event, decompress_metric: the field of each attribute
decompress(memory, offset, attributes) ==
    LET at[i \in 0..Len(attributes)] ==
            IF i = 0 THEN offset + 1 ELSE Behind(memory, at[i - 1], attributes[i])
    IN  [i \in DOMAIN attributes |->
            IF attributes[i] \in EnumAttributes THEN <<memory[at[i - 1]]>> ELSE CString(memory, at[i - 1])]

\* What an entry holds, as C reads it: a flag is 0 where there is none.
Meant(e, metric) ==
    LET attributes == Attributes(metric)
    IN  [i \in DOMAIN attributes |->
            IF attributes[i] \in EnumAttributes /\ e[attributes[i]] = <<>> THEN Compiled(<<"0">>)
            ELSE Compiled(Source(e, attributes[i], metric))]

PmusOf(metric) == {entries[i]["pmu"] : i \in EntriesOf(metric)}

(***************************************************************************)
(* The name of every array is defined once, so that the tables compile, if *)
(* and only if no two PMUs differ in commas and underscores alone, and, of *)
(* the PMUs whose metrics come with and without a description, there is    *)
(* one at most, behind all PMUs of the one kind and before all of the      *)
(* other.                                                                  *)
(***************************************************************************)
ArraysDefinedOnce ==
    pc = "printed" =>
        LET described(b) == {entries[i]["pmu"] : i \in {j \in EntriesOf(TRUE) : (entries[j]["desc"] # <<>>) = b}}
        IN  IsInjective([k \in DOMAIN arrays |-> ArrayName(arrays[k])])
            <=> /\ \A metric \in BOOLEAN : \A p, q \in PmusOf(metric) :
                        Underscored(p) = Underscored(q) => p = q
                /\ \A p \in described(TRUE) \cap described(FALSE) :
                        /\ \A q \in described(FALSE) : ~ Less(p, q)
                        /\ \A q \in described(TRUE) : ~ Less(q, p)

(***************************************************************************)
(* Round trip: in tables that compile, the row of each PMU has its name,   *)
(* and decompressing its array gives what the json entries of that PMU     *)
(* hold, every field of each of them, though strings have been folded into *)
(* the ends of others and a metric has no \000 behind its last field.      *)
(***************************************************************************)
EntriesReadBack ==
    pc = "printed" /\ IsInjective([k \in DOMAIN arrays |-> ArrayName(arrays[k])]) /\ PlainEscapes =>
        LET memory == Memory IN
        \A metric \in BOOLEAN : \A pmu \in PmusOf(metric) :
            LET array == arrays[CHOOSE k \in DOMAIN arrays : ArrayName(arrays[k]) = <<metric, Underscored(pmu)>>]
                own == {i \in EntriesOf(metric) : entries[i]["pmu"] = pmu}
            IN  /\ CString(memory, offsets[PmuString(pmu)] + 1) = Compiled(pmu)
                /\ Len(array.offsets) = Cardinality(own)
                /\ {decompress(memory, array.offsets[k], Attributes(metric)) : k \in DOMAIN array.offsets}
                    = {Meant(entries[i], metric) : i \in own}
=============================================================================
