---------------------------- MODULE PmuDiscovery ----------------------------
(***************************************************************************)
(* get_pmus, get_all_pmu_instances_for and free_pmus                       *)
(* (src/src/pmu-events.c): for every PMU class of the event table of this  *)
(* CPU, find the PMU instances among the directories of                    *)
(* /sys/bus/event_source/devices and the CPUs each one is responsible for. *)
(*                                                                         *)
(* The library is sequential; what moves under it is sysfs.  A device may  *)
(* appear or vanish between any two system calls, and readdir returns the  *)
(* directories in an order of the kernel's choice: one that exists all     *)
(* through a pass is returned once, one that comes or goes during the pass *)
(* may or may not be.                                                      *)
(*                                                                         *)
(* A name is a sequence of tokens, so that <<"unc", "_", "0">> has the     *)
(* name <<"unc">> as a prefix and a number behind the underscore.          *)
(***************************************************************************)
EXTENDS Integers, FiniteSets, SequencesExt

CONSTANTS
    Devices,      \* names of device directories
    Table,        \* names of the PMU classes, in the order of the event table
    DefaultCore,  \* the class name "default_core"
    CpuDevice,    \* the directory name "cpu"
    Numerals,     \* tokens that strtoul reads to their end
    NoFile,       \* no such file
    FileSets,     \* contents of the cpus and cpumask files, per device
    Onlines,      \* sets of online CPUs
    MapFound,     \* whether map_for_cpu may find a table, may not, or either
    MaxPlugs,     \* bound on the number of devices that appear or vanish
    MaxFailures   \* bound on the number of failing reallocs and opendirs

ASSUME TableAssumption == Table \in Seq(Seq(STRING)) /\ IsInjective(Table)
ASSUME DevicesAssumption == IsFiniteSet(Devices) /\ Devices \subseteq Seq(STRING)
ASSUME NumeralsAssumption == Numerals \subseteq STRING
ASSUME FileSetsAssumption ==
    \A f \in FileSets : \A d \in Devices :
        f[d].cpus \in {NoFile} \cup SUBSET Nat /\ f[d].cpumask \in {NoFile} \cup SUBSET Nat
ASSUME OnlinesAssumption == \A S \in Onlines : IsFiniteSet(S) /\ S # {}
ASSUME MapFoundAssumption == MapFound \subseteq BOOLEAN

Failed == -1
Running == 1

VARIABLES
    present,   \* the directories in /sys/bus/event_source/devices
    files,     \* what their cpus and cpumask files hold; {} is an empty line
    online,    \* the CPUs that are online
    plugs,     \* how many devices have appeared or vanished
    always,    \* history: the devices present ever since the call began
    ever,      \* history: the devices present at some time since then
    map,       \* does the generated table know this CPU
    pc,        \* where the call is
    classNr,   \* cur_pmu, from 1: the class at hand
    unread,    \* the directories readdir may still return in this pass
    given,     \* those it has returned in this pass
    entry,     \* dp: the directory at hand
    instances, \* class.instances: what this pass has found
    pmus,      \* pmus->classes
    heap,      \* what is allocated or open
    failures,  \* how many reallocs and opendirs have failed
    ret        \* the value get_pmus returned, Running before

env == <<present, files, online, plugs, always, ever, map>>
pass == <<unread, given, entry>>
vars == <<present, files, online, plugs, always, ever, map, pc, classNr, unread,
          given, entry, instances, pmus, heap, failures, ret>>

\* The objects of the ledger.
Dir == <<"dir">>
Classes == <<"classes">>
InstanceArray(k) == <<"instances", k>>
InstanceObjects(k, d) == {<<"name", k, d>>, <<"cpus", k, d>>}
ClassObjects(k, insts) ==
    (UNION {InstanceObjects(k, insts[i].name) : i \in DOMAIN insts})
    \cup (IF insts = <<>> THEN {} ELSE {InstanceArray(k)})

-----------------------------------------------------------------------------
ClassName == Table[classNr]

\* Mutant: a directory belongs to every class its name begins with.
InstanceOf_Prefix(name, class) == IsPrefix(class, name)

(***************************************************************************)
(* The test of an uncore directory name: the class name, or the class name *)
(* followed by an underscore and what strtoul reads to the end, which may  *)
(* be nothing.                                                             *)
(***************************************************************************)
InstanceOf(name, class) ==
    /\ IsPrefix(class, name)
    /\ LET tail == SubSeq(name, Len(class) + 1, Len(name))
       IN  tail \in {<<>>, <<"_">>} \cup {<<"_", n>> : n \in Numerals}

\* all_cpus: as many CPUs as are online, from 0
AllCpus == 0..(Cardinality(online) - 1)

\* get_cpus_for, get_cpumask_for: the file is there and a range list.
Readable(file, d) == d \in present /\ files[d][file] \notin {NoFile, {}}

Instance(d, cpus) == [name |-> d, cpus |-> cpus]
\* The pass of this class is over, with what it has found left in instances.
EndPass ==
    /\ unread' = {}
    /\ given' = {}
    /\ entry' = <<>>

\* continue, in the loop over the classes
NextClass ==
    /\ classNr' = classNr + 1
    /\ instances' = <<>>
    /\ pc' = "class"

Init ==
    /\ present \in SUBSET Devices
    /\ files \in FileSets
    /\ online \in Onlines
    /\ plugs = 0
    /\ always = present
    /\ ever = present
    /\ map \in MapFound
    /\ pc = "map"
    /\ classNr = 1
    /\ unread = {}
    /\ given = {}
    /\ entry = <<>>
    /\ instances = <<>>
    /\ pmus = <<>>
    /\ heap = {}
    /\ failures = 0
    /\ ret = Running

-----------------------------------------------------------------------------
(***************************************************************************)
(* The kernel.  A device that comes or goes during a pass may be in what   *)
(* readdir has still to return or not, but no name is returned twice.      *)
(***************************************************************************)
InPass == pc \in {"readdir", "entry", "cpus", "cpumask"}
Active == pc \notin {"returned", "freed", "crashed", "wild"}

Vanish(d) ==
    /\ Active
    /\ d \in present
    /\ plugs < MaxPlugs
    /\ plugs' = plugs + 1
    /\ present' = present \ {d}
    /\ always' = always \ {d}
    /\ unread' \in {unread, unread \ {d}}
    /\ UNCHANGED <<files, online, ever, map, pc, classNr, given, entry, instances,
                   pmus, heap, failures, ret>>

Appear(d) ==
    /\ Active
    /\ d \notin present
    /\ plugs < MaxPlugs
    /\ plugs' = plugs + 1
    /\ present' = present \cup {d}
    /\ ever' = ever \cup {d}
    /\ unread' \in IF InPass /\ d \notin given THEN {unread, unread \cup {d}} ELSE {unread}
    /\ UNCHANGED <<files, online, always, map, pc, classNr, given, entry, instances,
                   pmus, heap, failures, ret>>

-----------------------------------------------------------------------------
(***************************************************************************)
(* get_pmus: the table of CPU 0.  A CPU the table does not know makes      *)
(* map_for_cpu return NULL, which get_pmus dereferences.                   *)
(***************************************************************************)
FindMap ==
    /\ pc = "map"
    /\ pc' = IF map THEN "class" ELSE "crashed"
    /\ UNCHANGED <<env, classNr, pass, instances, pmus, heap, failures, ret>>

OpenDir ==
    /\ pc = "class"
    /\ classNr <= Len(Table)
    /\ unread' = present
    /\ heap' = heap \cup {Dir}
    /\ pc' = "readdir"
    /\ UNCHANGED <<env, classNr, given, entry, instances, pmus, failures, ret>>

OpenDirFails ==
    /\ pc = "class"
    /\ classNr <= Len(Table)
    /\ failures < MaxFailures
    /\ failures' = failures + 1
    /\ NextClass
    /\ UNCHANGED <<env, pass, pmus, heap, ret>>

ReadDir ==
    /\ pc = "readdir"
    /\ \E d \in unread :
        /\ unread' = unread \ {d}
        /\ given' = given \cup {d}
        /\ entry' = d
    /\ pc' = "entry"
    /\ UNCHANGED <<env, classNr, instances, pmus, heap, failures, ret>>

EndOfDir ==
    /\ pc = "readdir"
    /\ unread = {}
    /\ EndPass
    /\ heap' = heap \ {Dir}
    /\ pc' = "store"
    /\ UNCHANGED <<env, classNr, instances, pmus, failures, ret>>

-----------------------------------------------------------------------------
\* What the directory at hand is to the class at hand.
IsCpu == ClassName = DefaultCore /\ entry = CpuDevice
IsCoreInstance == ClassName = DefaultCore /\ entry # CpuDevice /\ Readable("cpus", entry)
IsUncoreInstance == ClassName # DefaultCore /\ InstanceOf(entry, ClassName)

\* What one more instance of the class adds to the heap.
Grown(d) == heap \cup {InstanceArray(classNr)} \cup InstanceObjects(classNr, d)

\* Mutant: a directory that does not match is looked at again.
SkipEntry_Again ==
    /\ pc = "entry"
    /\ ~ IsCpu /\ ~ IsCoreInstance /\ ~ IsUncoreInstance
    /\ UNCHANGED vars

SkipEntry ==
    /\ pc = "entry"
    /\ ~ IsCpu /\ ~ IsCoreInstance /\ ~ IsUncoreInstance
    /\ pc' = "readdir"
    /\ UNCHANGED <<env, classNr, pass, instances, pmus, heap, failures, ret>>

\* Mutant: the directory stream stays open.
AddCpu_DirOpen ==
    /\ pc = "entry"
    /\ IsCpu
    /\ instances' = Append(instances, Instance(entry, AllCpus))
    /\ heap' = Grown(entry)
    /\ EndPass
    /\ pc' = "store"
    /\ UNCHANGED <<env, classNr, pmus, failures, ret>>

\* default_core and "cpu": the pass ends here.
AddCpu ==
    /\ pc = "entry"
    /\ IsCpu
    /\ instances' = Append(instances, Instance(entry, AllCpus))
    /\ heap' = Grown(entry) \ {Dir}
    /\ EndPass
    /\ pc' = "store"
    /\ UNCHANGED <<env, classNr, pmus, failures, ret>>

\* default_core and any other directory with a cpus file.
AddCoreInstance ==
    /\ pc = "entry"
    /\ IsCoreInstance
    /\ instances' = Append(instances, Instance(entry, files[entry].cpus))
    /\ heap' = Grown(entry)
    /\ pc' = "readdir"
    /\ UNCHANGED <<env, classNr, pass, pmus, failures, ret>>

\* The instance is in the array, with its name, before its CPUs are known.
AddUncoreInstance ==
    /\ pc = "entry"
    /\ IsUncoreInstance
    /\ instances' = Append(instances, Instance(entry, {}))
    /\ heap' = Grown(entry) \ {<<"cpus", classNr, entry>>}
    /\ pc' = "cpus"
    /\ UNCHANGED <<env, classNr, pass, pmus, failures, ret>>

SetCpus(cpus) ==
    /\ instances' = [instances EXCEPT ![Len(instances)] = Instance(@.name, cpus)]
    /\ heap' = Grown(entry)
    /\ pc' = "readdir"

\* Mutant: without a cpus file the cpumask file is not tried.
ReadCpus_NoMask ==
    /\ pc = "cpus"
    /\ SetCpus(IF Readable("cpus", entry) THEN files[entry].cpus ELSE AllCpus)
    /\ UNCHANGED <<env, classNr, pass, pmus, failures, ret>>

ReadCpus ==
    /\ pc = "cpus"
    /\ IF Readable("cpus", entry)
       THEN SetCpus(files[entry].cpus)
       ELSE pc' = "cpumask" /\ UNCHANGED <<instances, heap>>
    /\ UNCHANGED <<env, classNr, pass, pmus, failures, ret>>

ReadCpumask ==
    /\ pc = "cpumask"
    /\ IF Readable("cpumask", entry)
       THEN SetCpus(files[entry].cpumask)
       ELSE SetCpus(AllCpus)
    /\ UNCHANGED <<env, classNr, pass, pmus, failures, ret>>

\* The realloc of class->instances fails: the pass returns -1, and get_pmus
\* goes on with the next class.
GrowInstancesFails ==
    /\ pc = "entry"
    /\ IsCpu \/ IsCoreInstance \/ IsUncoreInstance
    /\ failures < MaxFailures
    /\ failures' = failures + 1
    /\ heap' = heap \ (ClassObjects(classNr, instances) \cup {Dir})
    /\ EndPass
    /\ NextClass
    /\ UNCHANGED <<env, pmus, ret>>

-----------------------------------------------------------------------------
\* Mutant: the first class without instances ends the loop over the classes.
DropClass_Break ==
    /\ pc = "store"
    /\ instances = <<>>
    /\ pc' = "returned"
    /\ ret' = IF pmus = <<>> THEN Failed ELSE 0
    /\ UNCHANGED <<env, classNr, pass, instances, pmus, heap, failures>>

DropClass ==
    /\ pc = "store"
    /\ instances = <<>>
    /\ NextClass
    /\ UNCHANGED <<env, pass, pmus, heap, failures, ret>>

\* The class goes into pmus->classes; its instances get the entries of the
\* class, which stand here as the number of the class.
AddClass ==
    /\ pc = "store"
    /\ instances # <<>>
    /\ pmus' = Append(pmus, [class |-> classNr, instances |-> instances])
    /\ heap' = heap \cup {Classes}
    /\ NextClass
    /\ UNCHANGED <<env, pass, failures, ret>>

(***************************************************************************)
(* The realloc of pmus->classes fails after num_classes was incremented:   *)
(* free_pmus visits one class more than the array holds.  With an empty    *)
(* array that is free_pmu_class(NULL), which returns at once; otherwise it *)
(* reads and frees whatever lies behind the array.                         *)
(***************************************************************************)
AddClassFails ==
    /\ pc = "store"
    /\ instances # <<>>
    /\ failures < MaxFailures
    /\ failures' = failures + 1
    /\ IF pmus = <<>>
       THEN /\ heap' = heap \ ClassObjects(classNr, instances)
            /\ instances' = <<>>
            /\ pc' = "returned"
            /\ ret' = Failed
       ELSE /\ pc' = "wild"
            /\ UNCHANGED <<heap, instances, ret>>
    /\ UNCHANGED <<env, classNr, pass, pmus>>

Finish ==
    /\ pc = "class"
    /\ classNr > Len(Table)
    /\ pc' = "returned"
    /\ ret' = IF pmus = <<>> THEN Failed ELSE 0
    /\ UNCHANGED <<env, classNr, pass, instances, pmus, heap, failures>>

\* What free_pmus reaches from *pmus.
Reachable ==
    (UNION {ClassObjects(pmus[c].class, pmus[c].instances) : c \in DOMAIN pmus})
    \cup (IF pmus = <<>> THEN {} ELSE {Classes})

\* free_pmus, called by the user after success.
FreePmus ==
    /\ pc = "returned"
    /\ ret = 0
    /\ heap' = heap \ Reachable
    /\ pmus' = <<>>
    /\ pc' = "freed"
    /\ UNCHANGED <<env, classNr, pass, instances, failures, ret>>

Step ==
    \/ FindMap
    \/ OpenDir
    \/ OpenDirFails
    \/ ReadDir
    \/ EndOfDir
    \/ SkipEntry
    \/ AddCpu
    \/ AddCoreInstance
    \/ AddUncoreInstance
    \/ ReadCpus
    \/ ReadCpumask
    \/ GrowInstancesFails
    \/ DropClass
    \/ AddClass
    \/ AddClassFails
    \/ Finish
    \/ FreePmus

Kernel == \E d \in Devices : Vanish(d) \/ Appear(d)

Next == Step \/ Kernel

Spec == Init /\ [][Next]_vars

\* The caller's thread runs on; nothing is asked of the kernel.
FairSpec == Spec /\ WF_vars(Step)

-----------------------------------------------------------------------------
\* The places of the result that name device d as an instance of class k.
PlacesOf(k, d) ==
    {pl \in UNION {{c} \X DOMAIN pmus[c].instances : c \in DOMAIN pmus} :
        pmus[pl[1]].class = k /\ pmus[pl[1]].instances[pl[2]].name = d}

\* Device d is an instance of class k by the rules of the comment above
\* get_all_pmu_instances_for, on a system where it is there all the time.
HasCpusFile(d) == files[d].cpus \notin {NoFile, {}}
BelongsTo(k, d) ==
    IF Table[k] = DefaultCore
    THEN d = CpuDevice \/ (CpuDevice \notin ever /\ HasCpusFile(d))
    ELSE d = Table[k] \/ \E n \in Numerals : d = Table[k] \o <<"_", n>>

(***************************************************************************)
(* A device that is there all through the call is found exactly once under *)
(* every class it belongs to, whatever else comes and goes meanwhile and   *)
(* in whatever order readdir returns the directories.  A failing realloc   *)
(* or opendir costs a result reported as success one class, not the others.*)
(***************************************************************************)
StableDevicesFound ==
    pc = "returned" /\ (failures = 0 \/ ret = 0) =>
        Cardinality({k \in DOMAIN Table :
            \E d \in always : BelongsTo(k, d) /\ Cardinality(PlacesOf(k, d)) # 1}) <= failures

\* A directory beside "cpu", which takes all events of default_core for itself.
BesideCpu(k, d) == Table[k] = DefaultCore /\ d # CpuDevice /\ CpuDevice \in ever

(***************************************************************************)
(* Nothing else is found: an instance was a directory at some time of the  *)
(* call, it is listed once under its class, and it is an instance of that  *)
(* class by the comment above get_all_pmu_instances_for; "unc" does not    *)
(* collect the devices of "unc_free".  Two kinds of names are left out,    *)
(* for which the code does not do what its comments say: directories       *)
(* beside "cpu" (see CpuStandsAlone), and an underscore with no number     *)
(* behind it.  No class is listed without an instance: its users take      *)
(* instances[0] without a look at the number (main.c, list_events).        *)
(***************************************************************************)
InstancesAreGenuine ==
    /\ \A c \in DOMAIN pmus : pmus[c].instances # <<>>
    /\ \A k \in DOMAIN Table : \A d \in Devices :
        LET places == PlacesOf(k, d)
        IN  places # {} =>
                /\ Cardinality(places) = 1
                /\ d \in ever
                /\ ~ BesideCpu(k, d) /\ d # Table[k] \o <<"_">> => BelongsTo(k, d)

(***************************************************************************)
(* The comment above get_all_pmu_instances_for (lines 788-789): "If there  *)
(* is no "cpu" PMU instance folder, then the PMU instance folders that     *)
(* contain a "cpus" file belong to the "default_core" PMU class."  Where   *)
(* "cpu" is there all through the call no other one is listed.             *)
(***************************************************************************)
CpuStandsAlone ==
    CpuDevice \in always =>
        \A k \in DOMAIN Table : \A d \in Devices \ {CpuDevice} :
            Table[k] = DefaultCore => PlacesOf(k, d) = {}

HasNoFile(d) == files[d].cpus = NoFile /\ files[d].cpumask = NoFile

(***************************************************************************)
(* The CPUs of an uncore instance whose device is there all through the    *)
(* call are those of its cpus file, or else those of its cpumask file, if  *)
(* that holds a list; and all CPUs, if it has neither file and none of     *)
(* them is offline.  Nothing is said of a device whose only files are      *)
(* empty, nor of all_cpus when one is offline (see CpusOfTheSystem).       *)
(***************************************************************************)
CpusAsPublished ==
    pc = "returned" =>
        \A k \in DOMAIN Table : \A d \in always : \A pl \in PlacesOf(k, d) :
            LET cpus == pmus[pl[1]].instances[pl[2]].cpus
            IN  Table[k] # DefaultCore =>
                    /\ HasCpusFile(d) => cpus = files[d].cpus
                    /\ ~ HasCpusFile(d) /\ files[d].cpumask \notin {NoFile, {}} =>
                            cpus = files[d].cpumask
                    /\ HasNoFile(d) /\ online = 0..(Cardinality(online) - 1) => cpus = online

(***************************************************************************)
(* The comments at all_cpus (line 513), "Get a range list representing all *)
(* CPUs in the system", and at its use (line 969), "the event is openable  *)
(* on all cores of the cpu": an uncore instance without files of its own   *)
(* gets all CPUs that are online.                                          *)
(***************************************************************************)
CpusOfTheSystem ==
    pc = "returned" =>
        \A k \in DOMAIN Table : \A d \in always : \A pl \in PlacesOf(k, d) :
            Table[k] # DefaultCore /\ HasNoFile(d) =>
                online \subseteq pmus[pl[1]].instances[pl[2]].cpus

(***************************************************************************)
(* When get_pmus returns, what is live is what the result reaches, so that *)
(* free_pmus releases all of it, and nothing is live after a failure or    *)
(* after free_pmus: no directory stream stays open and no class given up   *)
(* half way leaves anything behind.                                        *)
(***************************************************************************)
HeapIsReachable ==
    pc \in {"returned", "freed"} => heap = Reachable /\ (ret = Failed => heap = {})

(***************************************************************************)
(* The call comes to an end whatever appears, vanishes or fails under it.  *)
(***************************************************************************)
CallReturns == <>(~ Active)
=============================================================================
