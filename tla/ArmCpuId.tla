------------------------------ MODULE ArmCpuId ------------------------------
(***************************************************************************)
(* get_cpuid_str on Arm (src/include/pmu-events/aarch64/util.h): the       *)
(* content of midr_el1 of one CPU, or, for CPU -1, of the first CPU of the *)
(* list of online CPUs whose register can be read.  The list is a sysfs    *)
(* file, read by IoReader and parsed by CpuMap; where that fails, the      *)
(* number of online CPUs stands in for it.                                 *)
(*                                                                         *)
(* CPUs go offline and come back between any two of these steps, and the   *)
(* directory of the registers goes and comes with them.                    *)
(***************************************************************************)
EXTENDS CpuMap

CONSTANTS
    Cpus,       \* CPU numbers
    Decimal,    \* the digits of each CPU number
    OnlineRuns, \* the runs of consecutive numbers in each set of online CPUs
    Midr,       \* the content of midr_el1 for each CPU
    Asked,      \* arguments of the call: CPU numbers, or -1 for any CPU
    NoId,       \* NULL
    MaxPlugs    \* bound on how often a CPU goes offline or comes online

Onlines == (SUBSET Cpus) \ {{}}

ASSUME CpusAssumption == IsFiniteSet(Cpus) /\ Cpus \subseteq Nat /\ \A c \in Cpus : c < Limit
ASSUME MidrAssumption == \A c \in Cpus : Midr[c] # NoId
ASSUME SeparatorsAssumption ==
    /\ Dash # Comma /\ Dash # Newline
    /\ {Dash, Comma, Newline} \cap (0..9) = {}
ASSUME NullAssumption == NoText \notin Seq((0..9) \cup {Dash, Comma, Newline}) /\ NoMap \notin Seq(Nat)

ASSUME DecimalAssumption ==
    \A c \in Cpus : Decimal[c] \in Seq(0..9) /\ Decimal[c] # <<>> /\ Number(Decimal[c]) = c
ASSUME RunsAssumption ==
    \A S \in Onlines :
        LET runs == OnlineRuns[S]
        IN  /\ runs \in Seq([first : Cpus, last : Cpus])
            /\ \A k \in DOMAIN runs : runs[k].first <= runs[k].last
            /\ S = UNION {runs[k].first..runs[k].last : k \in DOMAIN runs}
            /\ \A j, k \in DOMAIN runs : j # k =>
                    runs[j].first..runs[j].last \cap runs[k].first..runs[k].last = {}

VARIABLES
    online,  \* the CPUs that are online
    plugs,   \* how often that has changed
    always,  \* history: the CPUs online ever since the call began
    ever,    \* history: the CPUs online at some time of the call
    listed,  \* history: the CPUs online when the list was opened
    cpu,     \* the argument
    pc,      \* "start", "list", "map", "midr", "returned" or "aborted"
    idx,     \* the place in the map
    cpuid    \* the result, NoId before

hotplug == <<online, plugs, always, ever>>
vars == <<ioVars, mapVars, faults, heap, hotplug, listed, cpu, pc, idx, cpuid>>

Init ==
    /\ IoInit
    /\ MapInit
    /\ online \in Onlines
    /\ plugs = 0
    /\ always = online /\ ever = online
    /\ listed = {}
    /\ cpu \in Asked
    /\ pc = "start"
    /\ idx = 1
    /\ cpuid = NoId

-----------------------------------------------------------------------------
(***************************************************************************)
(* The kernel's "%*pbl", which prints /sys/devices/system/cpu/online:      *)
(* "5" or "4-7" for each run, with commas between and a newline behind.    *)
(* LastOnes(S)[n] is the text of the last n runs of S.                     *)
(***************************************************************************)
RunText(run) ==
    IF run.first = run.last
    THEN Decimal[run.first]
    ELSE Decimal[run.first] \o (<<Dash>> \o Decimal[run.last])
LastOnes(S) ==
    LET runs == OnlineRuns[S]
        lastOnes[n \in 0..Len(runs)] ==
            IF n = 0 THEN <<>>
            ELSE RunText(runs[Len(runs) - n + 1])
                 \o (<<IF n = 1 THEN Newline ELSE Comma>> \o lastOnes[n - 1])
    IN  lastOnes
OnlineText(S) == LastOnes(S)[Len(OnlineRuns[S])]

-----------------------------------------------------------------------------
Ended == pc \in {"returned", "aborted"}

\* One CPU at least stays online.
Hotplug(c) ==
    /\ ~ Ended
    /\ plugs < MaxPlugs
    /\ plugs' = plugs + 1
    /\ online' \in {online \cup {c}, online \ {c}} \ {online, {}}
    /\ always' = always \cap online'
    /\ ever' = ever \cup online'
    /\ UNCHANGED <<ioVars, mapVars, faults, heap, listed, cpu, pc, idx, cpuid>>

Return(id) ==
    /\ cpuid' = id
    /\ pc' = "returned"

NoBuffer ==
    /\ pc = "start"
    /\ Fails
    /\ Return(NoId)
    /\ UNCHANGED <<ioVars, mapVars, heap, hotplug, listed, cpu, idx>>

\* One CPU is asked for: its register is read, without a map.
AskOne ==
    /\ pc = "start"
    /\ cpu # -1
    /\ cpus' = <<cpu>>
    /\ heap' = heap \cup {"id"}
    /\ pc' = "midr"
    /\ UNCHANGED <<ioVars, list, startCpu, endCpu, tmpCpus, maxEntries, mapPc, faults, hotplug,
                   listed, cpu, idx, cpuid>>

AskAny ==
    /\ pc = "start"
    /\ cpu = -1
    /\ heap' = heap \cup {"id"}
    /\ pc' = "list"
    /\ UNCHANGED <<ioVars, mapVars, faults, hotplug, listed, cpu, idx, cpuid>>

\* The text of the file is made by the first read, and later reads go on in it.
ReadList ==
    /\ pc = "list"
    /\ \/ Open(OnlineText(online)) /\ listed' = online
       \/ (OpenFails \/ IoStep) /\ UNCHANGED listed
    /\ UNCHANGED <<mapVars, hotplug, cpu, pc, idx, cpuid>>

ParseList ==
    /\ pc = "list"
    /\ ioPc = "done"
    /\ text # NoText
    /\ StartParse
    /\ pc' = "map"
    /\ UNCHANGED <<ioVars, hotplug, listed, cpu, idx, cpuid>>

BuildMap ==
    /\ pc = "map"
    /\ MapStep
    /\ UNCHANGED <<ioVars, hotplug, listed, cpu, pc, idx, cpuid>>

\* cpu_map__new_sysfs_online has a map; it releases the text.
TakeMap ==
    /\ pc = "map"
    /\ mapPc = "done"
    /\ cpus # NoMap
    /\ heap' = heap \ {"line"}
    /\ pc' = "midr"
    /\ UNCHANGED <<ioVars, mapVars, faults, hotplug, listed, cpu, idx, cpuid>>

\* cpu_map__new_sysconf: as many CPUs as are online, from 0
CountCpus ==
    /\ \/ pc = "list" /\ ioPc = "done" /\ text = NoText
       \/ pc = "map" /\ mapPc = "done" /\ cpus = NoMap
    /\ cpus' = [i \in 1..Cardinality(online) |-> i - 1]
    /\ heap' = (heap \ {"line"}) \cup {"map"}
    /\ pc' = "midr"
    /\ UNCHANGED <<ioVars, list, startCpu, endCpu, tmpCpus, maxEntries, mapPc, faults, hotplug,
                   listed, cpu, idx, cpuid>>

-----------------------------------------------------------------------------
\* The register of the CPU at hand can be read: its CPU is online.
MidrRead ==
    /\ pc = "midr"
    /\ idx <= Len(cpus)
    /\ cpus[idx] \in online
    /\ Return(Midr[cpus[idx]])
    /\ heap' = heap \ {"map"}
    /\ UNCHANGED <<ioVars, mapVars, faults, hotplug, listed, cpu, idx>>

\* Mutant: the first CPU of the map decides.
MidrMissing_GivesUp ==
    /\ pc = "midr"
    /\ idx <= Len(cpus)
    /\ cpus[idx] \notin online \cup {-1}
    /\ Return(NoId)
    /\ heap' = heap \ {"map", "id"}
    /\ UNCHANGED <<ioVars, mapVars, faults, hotplug, listed, cpu, idx>>

\* fopen fails, or fgets: the next CPU of the map is tried.
MidrMissing ==
    /\ pc = "midr"
    /\ idx <= Len(cpus)
    /\ cpus[idx] \notin online \cup {-1}
    /\ idx' = idx + 1
    /\ UNCHANGED <<ioVars, mapVars, faults, heap, hotplug, listed, cpu, pc, cpuid>>

\* The assertion of _get_cpuid fails on the map of any CPU.
MidrAborts ==
    /\ pc = "midr"
    /\ idx <= Len(cpus)
    /\ cpus[idx] = -1
    /\ pc' = "aborted"
    /\ UNCHANGED <<ioVars, mapVars, faults, heap, hotplug, listed, cpu, idx, cpuid>>

NoneReadable ==
    /\ pc = "midr"
    /\ idx > Len(cpus)
    /\ Return(NoId)
    /\ heap' = heap \ {"map", "id"}
    /\ UNCHANGED <<ioVars, mapVars, faults, hotplug, listed, cpu, idx>>

Next ==
    \/ \E c \in Cpus : Hotplug(c)
    \/ NoBuffer
    \/ AskOne
    \/ AskAny
    \/ ReadList
    \/ ParseList
    \/ BuildMap
    \/ TakeMap
    \/ CountCpus
    \/ MidrRead
    \/ MidrMissing
    \/ MidrAborts
    \/ NoneReadable

Spec == Init /\ [][Next]_vars

-----------------------------------------------------------------------------
\* The variables of the reader, the map and the call have their types.
TypeOK ==
    /\ IoTypeOK
    /\ MapTypeOK
    /\ online \in Onlines
    /\ always \subseteq online /\ online \subseteq ever
    /\ pc \in {"start", "list", "map", "midr", "returned", "aborted"}
    /\ pc = "midr" => idx \in 1..(Len(cpus) + 1)
    /\ heap \subseteq {"id", "fd", "line", "tmp", "map"}
    /\ cpuid \in {Midr[c] : c \in Cpus} \cup {NoId}

(***************************************************************************)
(* The map that comes out of the reader and the parser holds the CPUs that *)
(* were online when the file was opened, each once and in order, unless a  *)
(* call has failed; and even a list cut short by a failing read gives no   *)
(* map that is out of order.                                               *)
(***************************************************************************)
MapIsOnlineList ==
    pc = "map" /\ mapPc = "done" =>
        /\ faults = 0 => cpus # NoMap /\ ToSet(cpus) = listed
        /\ cpus # NoMap => \A i, j \in DOMAIN cpus : i < j => cpus[i] < cpus[j]

(***************************************************************************)
(* What is returned is the identity of the CPU asked for, or of one that   *)
(* was online during the call; and a CPU asked for is never missed while   *)
(* it stays online, nor does the call abort on it, unless a call fails.    *)
(***************************************************************************)
IdentityIsAsked ==
    /\ cpuid # NoId => \E c \in ever : cpuid = Midr[c] /\ cpu \in {c, -1}
    /\ cpu # -1 /\ Ended => pc = "returned" /\ (faults = 0 /\ cpuid = NoId => cpu \notin always)

(***************************************************************************)
(* And if any CPU will do and one is online from beginning to end, the     *)
(* call finds an identity, however many others go offline between the read *)
(* of the list and the read of their registers; it never aborts, unless a  *)
(* call has failed.                                                        *)
(***************************************************************************)
IdentityFound ==
    /\ IdentityIsAsked
    /\ Ended /\ faults = 0 /\ cpu = -1 => pc = "returned" /\ (cpuid = NoId => always = {})

(***************************************************************************)
(* On every way out, whichever call has failed, only the string returned   *)
(* is live: the descriptor, the text, the array of the parser and the map  *)
(* are released.                                                           *)
(***************************************************************************)
OnlyIdKept == pc = "returned" => heap = (IF cpuid = NoId THEN {} ELSE {"id"})
=============================================================================
