------------------------------- MODULE CpuMap -------------------------------
(***************************************************************************)
(* perf_cpu_map__new (src/include/pmu-events/aarch64/util.h): turn the     *)
(* text of a CPU list such as "0-3,8" into a sorted array of CPU numbers.  *)
(* The CPUs are collected in an array that grows by the length of the      *)
(* range at hand, or by a fixed amount where that is more.                 *)
(*                                                                         *)
(* Texts are sequences of characters, since the reader may hand over a     *)
(* text that ends in the middle of a number.  A digit is its value.        *)
(***************************************************************************)
EXTENDS IoReader

CONSTANTS
    Dash, Comma, Newline,  \* the characters that are no digits
    Limit,   \* INT16_MAX
    GrowBy,  \* the least the array grows by
    NoMap    \* NULL

ASSUME LimitAssumption == Limit \in Nat /\ GrowBy \in Nat \ {0}

VARIABLES
    list,        \* cpu_list: what is left of the text
    startCpu, endCpu,
    tmpCpus,     \* tmp_cpus[0..nr_cpus - 1]
    maxEntries,  \* max_entries
    cpus,        \* the map, or NoMap
    mapPc        \* "idle", "term", "add" or "done"

mapVars == <<list, startCpu, endCpu, tmpCpus, maxEntries, cpus, mapPc>>

MapInit ==
    /\ list = <<>>
    /\ startCpu = 0 /\ endCpu = 0
    /\ tmpCpus = <<>> /\ maxEntries = 0
    /\ cpus = NoMap
    /\ mapPc = "idle"

\* isdigit(*s), *s == '\0'
StartsWithDigit(s) == s # <<>> /\ Head(s) \in 0..9
AtOneOf(s, chars) == s = <<>> \/ Head(s) \in chars

\* strtoul: the number s begins with, 0 where there is none, and what follows.
\* (Its base 0 is 10 here: the kernel prints no leading zeros.)
NumberLen(s) == Max({n \in 0..Len(s) : \A k \in 1..n : s[k] \in 0..9})
Number(s) ==
    LET value[n \in 0..NumberLen(s)] == IF n = 0 THEN 0 ELSE 10 * value[n - 1] + s[n]
    IN  value[NumberLen(s)]
Behind(s) == SubSeq(s, NumberLen(s) + 1, Len(s))

\* qsort: the numbers of S in their order
Sorted(S) == [i \in 1..Cardinality(S) |-> CHOOSE n \in S : Cardinality({m \in S : m < n}) = i - 1]

\* The parser is done with this map; the array it worked in is released.
Give(map) ==
    /\ cpus' = map
    /\ mapPc' = "done"

-----------------------------------------------------------------------------
\* A text that begins with anything but a digit has no map.
StartParse ==
    /\ mapPc = "idle"
    /\ list' = text
    /\ IF StartsWithDigit(text) \/ text = <<>>
       THEN mapPc' = "term" /\ UNCHANGED cpus
       ELSE Give(NoMap)
    /\ UNCHANGED <<startCpu, endCpu, tmpCpus, maxEntries, faults, heap>>

\* Mutant: the number behind the dash is left out.
ParseTerm_Exclusive ==
    /\ mapPc = "term"
    /\ StartsWithDigit(list)
    /\ LET ranged == Behind(list) # <<>> /\ Head(Behind(list)) = Dash
           last == IF ranged THEN Tail(Behind(list)) ELSE list
       IN  /\ startCpu' = Number(list)
           /\ endCpu' = IF ranged THEN Number(last) - 1 ELSE Number(list)
           /\ list' = Behind(last)
           /\ mapPc' = "add"
    /\ UNCHANGED <<tmpCpus, maxEntries, cpus, faults, heap>>

\* One term, "5" or "4-7"; a bad one gives up the whole list.
ParseTerm ==
    /\ mapPc = "term"
    /\ StartsWithDigit(list)
    /\ LET ranged == Behind(list) # <<>> /\ Head(Behind(list)) = Dash
           last == IF ranged THEN Tail(Behind(list)) ELSE list
           good == /\ Number(list) < Limit
                   /\ Number(last) < Limit
                   /\ AtOneOf(Behind(last), {Comma, Newline})
                   /\ Number(list) <= Number(last)
       IN  IF good
           THEN /\ startCpu' = Number(list)
                /\ endCpu' = Number(last)
                /\ list' = Behind(last)
                /\ mapPc' = "add"
                /\ UNCHANGED <<cpus, heap>>
           ELSE /\ Give(NoMap)
                /\ heap' = heap \ {"tmp"}
                /\ UNCHANGED <<list, startCpu, endCpu>>
    /\ UNCHANGED <<tmpCpus, maxEntries, faults>>

\* Mutant: the array grows only when it has overflowed.
Grown_Late ==
    IF Len(tmpCpus) > maxEntries
    THEN maxEntries + Max({endCpu - startCpu + 1, GrowBy})
    ELSE maxEntries

Grown ==
    IF Len(tmpCpus) = maxEntries
    THEN maxEntries + Max({endCpu - startCpu + 1, GrowBy})
    ELSE maxEntries

AddCpu ==
    /\ mapPc = "add"
    /\ startCpu <= endCpu
    /\ ~ Contains(tmpCpus, startCpu)
    /\ maxEntries' = Grown
    /\ tmpCpus' = Append(tmpCpus, startCpu)
    /\ startCpu' = startCpu + 1
    /\ heap' = heap \cup {"tmp"}
    /\ UNCHANGED <<list, endCpu, cpus, mapPc, faults>>

\* Mutant: a list that is given up keeps the array.
Invalid_ArrayKept ==
    /\ mapPc = "add"
    /\ startCpu <= endCpu
    /\ \/ Contains(tmpCpus, startCpu) /\ UNCHANGED faults
       \/ Len(tmpCpus) = maxEntries /\ Fails
    /\ Give(NoMap)
    /\ UNCHANGED <<list, startCpu, endCpu, tmpCpus, maxEntries, heap>>

\* A CPU that is in the array already, or no memory for it.
Invalid ==
    /\ mapPc = "add"
    /\ startCpu <= endCpu
    /\ \/ Contains(tmpCpus, startCpu) /\ UNCHANGED faults
       \/ Len(tmpCpus) = maxEntries /\ Fails
    /\ Give(NoMap)
    /\ heap' = heap \ {"tmp"}
    /\ UNCHANGED <<list, startCpu, endCpu, tmpCpus, maxEntries>>

\* The character behind the term is skipped.
EndTerm ==
    /\ mapPc = "add"
    /\ startCpu > endCpu
    /\ list' = IF list = <<>> THEN list ELSE Tail(list)
    /\ mapPc' = "term"
    /\ UNCHANGED <<startCpu, endCpu, tmpCpus, maxEntries, cpus, faults, heap>>

(***************************************************************************)
(* The loop ends where no digit follows, and cpu_map__trim_new sorts what  *)
(* was collected.  The empty text gives the map of any CPU, <<-1>>.  (The  *)
(* branch between the two, no CPU but some text, cannot be taken: a text   *)
(* that does not begin with a digit never enters the loop.)                *)
(***************************************************************************)
FinishMap ==
    /\ mapPc = "term"
    /\ ~ StartsWithDigit(list)
    /\ Give(IF tmpCpus = <<>> THEN <<-1>> ELSE Sorted(ToSet(tmpCpus)))
    /\ heap' = (heap \ {"tmp"}) \cup {"map"}
    /\ UNCHANGED <<list, startCpu, endCpu, tmpCpus, maxEntries, faults>>

MapStep == ParseTerm \/ AddCpu \/ Invalid \/ EndTerm \/ FinishMap

\* The part of the type invariant that concerns the map: the array is never
\* written behind its end, and holds nothing twice.
MapTypeOK ==
    /\ Len(tmpCpus) <= maxEntries
    /\ IsInjective(tmpCpus)
    /\ mapPc \in {"idle", "term", "add", "done"}
=============================================================================
