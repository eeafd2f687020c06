------------------------------ MODULE CpuLookup ------------------------------
(***************************************************************************)
(* What map_for_cpu promises, without its caches and its search: a call    *)
(* takes the identity of the CPU as it is at that moment and answers with  *)
(* the first row of pmu_events_map that matches it.  One answer is kept    *)
(* and given again, unexamined, as long as the calls ask for the same CPU. *)
(***************************************************************************)
EXTENDS Naturals

CONSTANTS
    Cpus,      \* CPU numbers
    FirstCpu,  \* the number 0, which static storage starts from
    Ids,       \* cpuid strings
    NoId,      \* no string: the variable is not set, or the id is not readable
    NumRows,   \* rows of pmu_events_map before the terminating one
    Matching,  \* Matching[r]: the ids that strcmp_cpuid_str accepts for row r
    NoMap      \* NULL

Rows == 1..NumRows

Maps == Rows \cup {NoMap}
MaybeIds == Ids \cup {NoId}

VARIABLES
    override,  \* the environment variable PERF_CPUID
    hardware,  \* what get_cpuid_str reads for each CPU
    sample,    \* the calls under way: the CPU asked for and the id it had
    memo,      \* the answer kept, with its CPU: a set of at most one
    answer     \* the result of the last call

vars == <<override, hardware, sample, memo, answer>>

\* get_cpuid_allow_env_override
CpuId(c) == IF override # NoId THEN override ELSE hardware[c]

\* strcmp_cpuid_str(map->cpuid, cpuid) is 0 for this row and for none before.
IsFirstMatch(r, id) ==
    /\ id \in Matching[r]
    /\ \A q \in 1..(r - 1) : id \notin Matching[q]

FirstMatch(id) ==
    IF \E r \in Rows : IsFirstMatch(r, id)
    THEN CHOOSE r \in Rows : IsFirstMatch(r, id)
    ELSE NoMap

Init ==
    /\ override \in MaybeIds
    /\ hardware \in [Cpus -> MaybeIds]
    /\ sample = {}
    /\ memo = {}
    /\ answer = NoMap

Setenv ==
    /\ sample = {}
    /\ override' \in MaybeIds
    /\ UNCHANGED <<hardware, sample, memo, answer>>

CpuChanges ==
    /\ \E c \in Cpus : \E id \in MaybeIds : hardware' = [hardware EXCEPT ![c] = id]
    /\ UNCHANGED <<override, sample, memo, answer>>

\* The call asks for the CPU of the call before.
AnswerAgain ==
    /\ sample = {}
    /\ \E m \in memo : answer' = m.map
    /\ UNCHANGED <<override, hardware, sample, memo>>

\* The call asks for another CPU and looks its id up, at once or later.
Ask(c) ==
    /\ sample = {}
    /\ \A m \in memo : m.cpu # c
    /\ sample' = {[cpu |-> c, id |-> CpuId(c)]}
    /\ UNCHANGED <<override, hardware, memo, answer>>

Settle(c, id) ==
    /\ answer' = FirstMatch(id)
    /\ memo' = {[cpu |-> c, map |-> FirstMatch(id)]}
    /\ sample' = {}
    /\ UNCHANGED <<override, hardware>>

AskAndSettle(c) ==
    /\ sample = {}
    /\ \A m \in memo : m.cpu # c
    /\ Settle(c, CpuId(c))

SettleLater == \E s \in sample : Settle(s.cpu, s.id)

Next ==
    \/ Setenv
    \/ CpuChanges
    \/ AnswerAgain
    \/ \E c \in Cpus : Ask(c) \/ AskAndSettle(c)
    \/ SettleLater

Spec == Init /\ [][Next]_vars
=============================================================================
