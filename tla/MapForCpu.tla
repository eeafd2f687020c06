------------------------------ MODULE MapForCpu ------------------------------
(***************************************************************************)
(* map_for_cpu, as jevents.py writes it into the generated file: find the  *)
(* row of pmu_events_map for a CPU.  Two static variables keep the last    *)
(* result, by CPU number, and the last search, by cpuid string.            *)
(***************************************************************************)
EXTENDS Naturals

CONSTANTS Cpus, FirstCpu, Ids, NoId, NumRows, Matching, NoMap

VARIABLES
    override,       \* the environment variable PERF_CPUID
    hardware,       \* what get_cpuid_str reads for each CPU
    hasLastResult, lastResult,  \* has_last_result, last_result
    hasLastSearch, lastSearch,  \* has_last_map_search, last_map_search
    pc,             \* "idle" between two calls, "scan" in the search loop
    cpu,            \* the argument of the call in the loop
    cpuid,          \* its cpuid string
    i,              \* the row at hand
    answer          \* the result of the last call

\* What the caches promise: the same answers as a search that keeps nothing
\* but the answer for the CPU last asked for.
Lookup == INSTANCE CpuLookup WITH
    sample <- IF pc = "scan" THEN {[cpu |-> cpu, id |-> cpuid]} ELSE {},
    memo <- IF hasLastResult THEN {lastResult} ELSE {}

Rows == Lookup!Rows
Maps == Lookup!Maps
MaybeIds == Lookup!MaybeIds
CpuId(c) == Lookup!CpuId(c)

ASSUME CpusAssumption == FirstCpu \in Cpus
ASSUME RowsAssumption == NumRows \in Nat /\ Matching \in [Rows -> SUBSET Ids]
ASSUME NullAssumption == NoMap \notin Rows /\ NoId \notin Ids

env == <<override, hardware>>
call == <<pc, cpu, cpuid, i>>
vars == <<override, hardware, hasLastResult, lastResult, hasLastSearch, lastSearch,
          pc, cpu, cpuid, i, answer>>

\* Static storage starts as zeroes.
Init ==
    /\ override \in MaybeIds
    /\ hardware \in [Cpus -> MaybeIds]
    /\ hasLastResult = FALSE
    /\ lastResult = [cpu |-> FirstCpu, map |-> NoMap]
    /\ hasLastSearch = FALSE
    /\ lastSearch = [map |-> NoMap, cpuid |-> NoId]
    /\ pc = "idle"
    /\ cpu = FirstCpu
    /\ cpuid = NoId
    /\ i = 1
    /\ answer = NoMap

-----------------------------------------------------------------------------
\* The process changes its environment between two calls.
Setenv ==
    /\ pc = "idle"
    /\ override' \in MaybeIds
    /\ UNCHANGED <<hardware, hasLastResult, lastResult, hasLastSearch, lastSearch, call, answer>>

\* A CPU goes offline and its identification registers with it, or another
\* kind of CPU comes online under its number.
CpuChanges ==
    /\ \E c \in Cpus : \E id \in MaybeIds : hardware' = [hardware EXCEPT ![c] = id]
    /\ UNCHANGED <<override, hasLastResult, lastResult, hasLastSearch, lastSearch, call, answer>>

CachedResult(c) == hasLastResult /\ lastResult.cpu = c

\* Mutant: any search that was made answers.
CachedSearch_AnyId(id) == hasLastSearch
CachedSearch(id) == hasLastSearch /\ lastSearch.cpuid = id

\* out_update_last_result
UpdateLastResult(c, map) ==
    /\ lastResult' = [cpu |-> c, map |-> map]
    /\ hasLastResult' = TRUE
    /\ answer' = map

AnswerFromResult(c) ==
    /\ pc = "idle"
    /\ CachedResult(c)
    /\ answer' = lastResult.map
    /\ UNCHANGED <<env, hasLastResult, lastResult, hasLastSearch, lastSearch, call>>

\* No cpuid: the answer is NULL, and is kept like any other.
AnswerUnidentified(c) ==
    /\ pc = "idle"
    /\ ~ CachedResult(c)
    /\ CpuId(c) = NoId
    /\ UpdateLastResult(c, NoMap)
    /\ UNCHANGED <<env, hasLastSearch, lastSearch, call>>

AnswerFromSearch(c) ==
    /\ pc = "idle"
    /\ ~ CachedResult(c)
    /\ CpuId(c) # NoId
    /\ CachedSearch(CpuId(c))
    /\ UpdateLastResult(c, lastSearch.map)
    /\ UNCHANGED <<env, hasLastSearch, lastSearch, call>>

StartScan(c) ==
    /\ pc = "idle"
    /\ ~ CachedResult(c)
    /\ CpuId(c) # NoId
    /\ ~ CachedSearch(CpuId(c))
    /\ pc' = "scan"
    /\ cpu' = c
    /\ cpuid' = CpuId(c)
    /\ i' = 1
    /\ UNCHANGED <<env, hasLastResult, lastResult, hasLastSearch, lastSearch, answer>>

\* Mutant: the loop does not look for the terminating row.
ScanOn_NoEnd ==
    /\ pc = "scan"
    /\ i \in Rows => cpuid \notin Matching[i]
    /\ i' = i + 1
    /\ UNCHANGED <<env, hasLastResult, lastResult, hasLastSearch, lastSearch, pc, cpu, cpuid,
                   answer>>

\* The row at hand does not match.
ScanOn ==
    /\ pc = "scan"
    /\ i \in Rows
    /\ cpuid \notin Matching[i]
    /\ i' = i + 1
    /\ UNCHANGED <<env, hasLastResult, lastResult, hasLastSearch, lastSearch, pc, cpu, cpuid,
                   answer>>

\* Mutant: the search remembers its answer only if it found one, and keeps
\* the map of the search before.
RememberSearch_OnlyFound(map) ==
    /\ lastSearch' = [map |-> IF map = NoMap THEN lastSearch.map ELSE map, cpuid |-> cpuid]
    /\ hasLastSearch' = TRUE

RememberSearch(map) ==
    /\ lastSearch' = [map |-> map, cpuid |-> cpuid]
    /\ hasLastSearch' = TRUE

\* The loop stops at a row that matches, or at the terminating row.
StopAt(map) ==
    /\ RememberSearch(map)
    /\ UpdateLastResult(cpu, map)
    /\ pc' = "idle"
    /\ cpu' = FirstCpu
    /\ cpuid' = NoId
    /\ i' = 1
    /\ UNCHANGED env

ScanMatches ==
    /\ pc = "scan"
    /\ i \in Rows
    /\ cpuid \in Matching[i]
    /\ StopAt(i)

ScanEnds ==
    /\ pc = "scan"
    /\ i \notin Rows
    /\ StopAt(NoMap)

Next ==
    \/ Setenv
    \/ CpuChanges
    \/ \E c \in Cpus :
        \/ AnswerFromResult(c)
        \/ AnswerUnidentified(c)
        \/ AnswerFromSearch(c)
        \/ StartScan(c)
    \/ ScanOn
    \/ ScanMatches
    \/ ScanEnds

Spec == Init /\ [][Next]_vars

-----------------------------------------------------------------------------
\* The variables have their types, and the loop does not pass the terminating row.
TypeOK ==
    /\ override \in MaybeIds
    /\ hardware \in [Cpus -> MaybeIds]
    /\ hasLastResult \in BOOLEAN
    /\ lastResult \in [cpu : Cpus, map : Maps]
    /\ hasLastSearch \in BOOLEAN
    /\ lastSearch \in [map : Maps, cpuid : MaybeIds]
    /\ pc \in {"idle", "scan"}
    /\ cpu \in Cpus
    /\ cpuid \in MaybeIds
    /\ i \in 1..(NumRows + 1)
    /\ answer \in Maps

(***************************************************************************)
(* Whatever happens to the environment and to the CPUs, the cached search  *)
(* is the result a search for its string would have: the first row that    *)
(* matches, or NULL.  It can be used for any CPU at any later time.        *)
(***************************************************************************)
SearchCacheSound ==
    hasLastSearch =>
        /\ lastSearch.cpuid # NoId
        /\ lastSearch.map = Lookup!FirstMatch(lastSearch.cpuid)

\* The rows the loop has passed do not match.
ScanSound == pc = "scan" => cpuid # NoId /\ \A q \in 1..(i - 1) : cpuid \notin Matching[q]

(***************************************************************************)
(* map_for_cpu with its two caches gives the answers of CpuLookup.         *)
(***************************************************************************)
ImplementsLookup == Lookup!Spec
=============================================================================
