-------------------------- MODULE PmuDiscoveryProofs --------------------------
(***************************************************************************)
(* Theorems about get_pmus and free_pmus, for every set of devices, every  *)
(* event table, and any number of devices that come and go and of calls    *)
(* that fail.                                                              *)
(***************************************************************************)
EXTENDS PmuDiscovery, TLAPS, FiniteSetTheorems, SequenceTheorems

-----------------------------------------------------------------------------
(* The inductive invariant. *)

CpuSets == SUBSET Nat
InstanceSet == [name : Devices, cpus : CpuSets]
ClassSet == [class : DOMAIN Table, instances : Seq(InstanceSet)]

TypedInv ==
    /\ present \subseteq ever /\ ever \subseteq Devices /\ always \subseteq present
    /\ files \in FileSets
    /\ online \in Onlines
    /\ failures \in Nat
    /\ classNr \in Nat \ {0}
    /\ pc \in {"map", "class", "readdir", "entry", "cpus", "cpumask", "store",
               "returned", "freed", "crashed", "wild"}
    /\ unread \subseteq ever /\ given \subseteq ever
    /\ instances \in Seq(InstanceSet)
    /\ pmus \in Seq(ClassSet)
    /\ ret \in {Running, 0, Failed}

\* Where the call is in a pass, and the directory it looks at.
PassInv ==
    /\ InPass \/ pc = "store" => classNr \in DOMAIN Table
    /\ ~ InPass => unread = {} /\ given = {}
    /\ unread \cap given = {}
    /\ pc \in {"entry", "cpus", "cpumask"} => entry \in given
    /\ pc \in {"map", "class"} => instances = <<>>
    /\ pc = "map" => classNr = 1 /\ pmus = <<>>

NamesDiffer(insts) ==
    \A i, j \in DOMAIN insts : insts[i].name = insts[j].name => i = j

\* What makes a directory an instance of class k, and stays true.
Genuine(k, d) ==
    /\ d \in ever
    /\ IF Table[k] = DefaultCore
       THEN d = CpuDevice \/ HasCpusFile(d)
       ELSE \/ d = Table[k]
            \/ \E n \in Numerals : d = Table[k] \o <<"_", n>>
            \/ d = Table[k] \o <<"_">>
AllGenuine(k, insts) == \A i \in DOMAIN insts : Genuine(k, insts[i].name)

\* What the pass at hand has found so far.
InstancesInv ==
    /\ NamesDiffer(instances)
    /\ classNr \in DOMAIN Table => AllGenuine(classNr, instances)
    /\ InPass => \A i \in DOMAIN instances : instances[i].name \in given
    /\ pc = "entry" => \A i \in DOMAIN instances : instances[i].name # entry
    /\ pc \in {"cpus", "cpumask"} =>
          /\ Table[classNr] # DefaultCore
          /\ instances # <<>>
          /\ instances[Len(instances)].name = entry

\* What the passes before it have found.
ResultInv ==
    /\ \A c \in DOMAIN pmus :
          /\ pmus[c].class < classNr
          /\ pmus[c].instances # <<>>
          /\ NamesDiffer(pmus[c].instances)
          /\ AllGenuine(pmus[c].class, pmus[c].instances)
    /\ \A b, c \in DOMAIN pmus : pmus[b].class = pmus[c].class => b = c

\* The CPUs of every instance but the one at hand.
Published(d) ==
    IF HasCpusFile(d) THEN files[d].cpus
    ELSE IF files[d].cpumask \notin {NoFile, {}} THEN files[d].cpumask ELSE AllCpus
CpusRight(insts, n) ==
    \A i \in 1..n : insts[i].name \in always => insts[i].cpus = Published(insts[i].name)
CpusInv ==
    /\ \A c \in DOMAIN pmus : Table[pmus[c].class] # DefaultCore =>
          CpusRight(pmus[c].instances, Len(pmus[c].instances))
    /\ classNr \in DOMAIN Table /\ Table[classNr] # DefaultCore =>
          CpusRight(instances, IF pc \in {"cpus", "cpumask"} THEN Len(instances) - 1
                               ELSE Len(instances))
    /\ pc = "cpumask" /\ entry \in always => ~ HasCpusFile(entry)

\* What is live at every moment of the call.
LiveInv ==
    /\ pc \in {"map", "class", "returned", "freed"} => heap = Reachable
    /\ pc \in {"readdir", "entry"} =>
          heap = Reachable \cup ClassObjects(classNr, instances) \cup {Dir}
    /\ pc \in {"cpus", "cpumask"} =>
          heap = (Reachable \cup ClassObjects(classNr, instances) \cup {Dir})
                    \ {<<"cpus", classNr, entry>>}
    /\ pc = "store" => heap = Reachable \cup ClassObjects(classNr, instances)
    /\ pc \in {"returned", "freed"} /\ ret = Failed => pmus = <<>>

\* No device that is there all the time has been passed over.
Listed(d) == \E i \in DOMAIN instances : instances[i].name = d
Missed(k) == \E d \in always : BelongsTo(k, d) /\ Cardinality(PlacesOf(k, d)) # 1
MissedClasses == {k \in DOMAIN Table : k < classNr /\ Missed(k)}
FoundInv ==
    /\ InPass => \A d \in always : BelongsTo(classNr, d) =>
          d \in unread \/ (pc = "entry" /\ d = entry) \/ Listed(d)
    /\ pc = "store" => \A d \in always : BelongsTo(classNr, d) => Listed(d)
    /\ pc # "freed" => Cardinality(MissedClasses) <= failures
    /\ pc = "returned" /\ (failures = 0 \/ ret = 0) => classNr > Len(Table)

IInv == TypedInv /\ PassInv /\ InstancesInv /\ ResultInv /\ CpusInv /\ LiveInv /\ FoundInv

-----------------------------------------------------------------------------
(* Lemmas about the instances of a class. *)

\* One more instance behind the others.
LEMMA OneMore ==
    ASSUME NEW insts \in Seq(InstanceSet), NEW d \in Devices, NEW cs \in CpuSets,
           NEW s, s = Append(insts, Instance(d, cs))
    PROVE  /\ s \in Seq(InstanceSet) /\ s # <<>>
           /\ Len(insts) \in Nat /\ DOMAIN insts = 1..Len(insts)
           /\ Len(s) = Len(insts) + 1 /\ DOMAIN s = 1..(Len(insts) + 1)
           /\ \A i \in 1..Len(insts) : s[i] = insts[i]
           /\ s[Len(insts) + 1].name = d /\ s[Len(insts) + 1].cpus = cs
<1> DEFINE inst == Instance(d, cs)
<1>1. inst \in InstanceSet /\ inst.name = d /\ inst.cpus = cs
    BY DEF InstanceSet, Instance
<1> HIDE DEF inst
<1>2. s = Append(insts, inst)
    BY DEF inst
<1>3. s \in Seq(InstanceSet) /\ Len(insts) \in Nat /\ Len(s) = Len(insts) + 1
    BY <1>1, <1>2
<1>4. s[Len(insts) + 1] = inst /\ \A i \in 1..Len(insts) : s[i] = insts[i]
    BY <1>1, <1>2
<1>5. DOMAIN insts = 1..Len(insts) /\ DOMAIN s = 1..(Len(insts) + 1)
    BY <1>3
<1>6. s # <<>>
    BY <1>3
<1>7. QED
    BY <1>1, <1>3, <1>4, <1>5, <1>6

\* The last instance is given its CPUs.
LEMMA LastSet ==
    ASSUME NEW insts \in Seq(InstanceSet), insts # <<>>, NEW cs \in CpuSets,
           NEW s, s = [insts EXCEPT ![Len(insts)] = Instance(@.name, cs)]
    PROVE  /\ s \in Seq(InstanceSet)
           /\ Len(insts) \in Nat \ {0} /\ DOMAIN insts = 1..Len(insts)
           /\ Len(s) = Len(insts) /\ DOMAIN s = DOMAIN insts
           /\ \A i \in DOMAIN insts : s[i].name = insts[i].name
           /\ \A i \in 1..(Len(insts) - 1) : s[i] = insts[i]
           /\ s[Len(insts)].cpus = cs
<1>1. Len(insts) \in Nat \ {0} /\ DOMAIN insts = 1..Len(insts)
    BY EmptySeq
<1> DEFINE n == Len(insts)
           inst == Instance(insts[n].name, cs)
<1>2. insts[n] \in InstanceSet
    BY <1>1
<1>3. inst \in InstanceSet /\ inst.name = insts[n].name /\ inst.cpus = cs
    BY <1>2 DEF InstanceSet, Instance
<1>4. s = [insts EXCEPT ![n] = inst]
    OBVIOUS
<1> HIDE DEF inst
<1>5. s \in Seq(InstanceSet) /\ Len(s) = Len(insts)
    BY <1>1, <1>3, <1>4
<1>6. DOMAIN s = DOMAIN insts
    BY <1>4
<1>7. s[n] = inst /\ \A i \in DOMAIN insts : i # n => s[i] = insts[i]
    BY <1>1, <1>4
<1>8. \A i \in 1..(n - 1) : i \in DOMAIN insts /\ i # n
    <2>1. \A m \in Nat : \A i \in 1..(m - 1) : i \in 1..m /\ i # m
        OBVIOUS
    <2>2. QED
        BY <1>1, <2>1
<1>9. QED
    BY <1>1, <1>3, <1>5, <1>6, <1>7, <1>8

\* The CPUs an instance is given are a set of CPU numbers.
LEMMA CpusAreNumbers ==
    ASSUME TypedInv
    PROVE  /\ AllCpus \in CpuSets
           /\ \A d \in Devices : Readable("cpus", d) => files[d].cpus \in CpuSets
           /\ \A d \in Devices : Readable("cpumask", d) => files[d].cpumask \in CpuSets
<1>1. Cardinality(online) \in Nat
    BY OnlinesAssumption, FS_CardinalityType DEF TypedInv
<1>2. AllCpus \in CpuSets
    BY <1>1 DEF AllCpus, CpuSets
<1>3. \A d \in Devices : files[d].cpus \in {NoFile} \cup CpuSets
                        /\ files[d].cpumask \in {NoFile} \cup CpuSets
    BY FileSetsAssumption DEF TypedInv, CpuSets
<1>4. QED
    BY <1>2, <1>3 DEF Readable

\* The name test of an uncore class, stated with the names put together.
LEMMA NameTest ==
    ASSUME NEW d \in Devices, NEW k \in DOMAIN Table, InstanceOf(d, Table[k])
    PROVE  \/ d = Table[k]
           \/ \E n \in Numerals : d = Table[k] \o <<"_", n>>
           \/ d = Table[k] \o <<"_">>
<1> DEFINE c == Table[k]
           tail == SubSeq(d, Len(c) + 1, Len(d))
<1>1. d \in Seq(STRING) /\ c \in Seq(STRING)
    BY DevicesAssumption, TableAssumption
<1>2. Len(c) <= Len(d) /\ SubSeq(c, 1, Len(c)) = SubSeq(d, 1, Len(c))
    BY DEF InstanceOf, IsPrefix
<1>3. tail \in {<<>>, <<"_">>} \cup {<<"_", n>> : n \in Numerals}
    BY DEF InstanceOf
<1>4. d = c \o tail
    <2>1. SubSeq(d, 1, Len(c)) = c /\ SubSeq(d, 1, Len(d)) = d
        BY <1>1, <1>2, SubSeqFull
    <2>2. Len(c) \in Nat /\ Len(d) \in Nat
        BY <1>1
    <2>3. SubSeq(d, 1, Len(c)) \o tail = SubSeq(d, 1, Len(d))
        <3>1. 1 \in 1..(Len(d) + 1) /\ Len(c) \in (1 - 1)..Len(d) /\ Len(d) \in Len(c)..Len(d)
            BY <1>2, <2>2
        <3>2. SubSeq(d, 1, Len(c)) \o SubSeq(d, Len(c) + 1, Len(d)) = SubSeq(d, 1, Len(d))
            BY <1>1, <3>1, ConcatAdjacentSubSeq
        <3>3. QED
            BY <3>2
    <2>4. QED
        BY <2>1, <2>3
<1>5. tail = <<>> => d = c
    BY <1>1, <1>4, ConcatEmptySeq
<1>6. QED
    BY <1>3, <1>4, <1>5

-----------------------------------------------------------------------------
(* Every action that changes instances is one of these. *)

Grows(cs) == instances' = Append(instances, Instance(entry, cs))
Sets(cs) == instances' = [instances EXCEPT ![Len(instances)] = Instance(@.name, cs)]

Added == AddCpu \/ AddCoreInstance \/ AddUncoreInstance
CpusSet ==
    /\ ReadCpus \/ ReadCpumask
    /\ pc' # "cpumask"
GivenUp == OpenDirFails \/ GrowInstancesFails \/ DropClass

LEMMA AddStep ==
    ASSUME TypedInv, PassInv, Added
    PROVE  /\ pc = "entry" /\ entry \in Devices /\ entry \in given /\ entry \in ever
           /\ classNr \in DOMAIN Table
           /\ UNCHANGED <<env, classNr, pmus, failures, ret>>
           /\ \E cs \in CpuSets : Grows(cs)
<1>1. pc = "entry" /\ UNCHANGED <<env, classNr, pmus, failures, ret>>
    BY DEF Added, AddCpu, AddCoreInstance, AddUncoreInstance
<1>2. entry \in given /\ entry \in ever /\ entry \in Devices /\ classNr \in DOMAIN Table
    BY <1>1 DEF PassInv, TypedInv, InPass
<1>3. {} \in CpuSets
    BY DEF CpuSets
<1>4. \E cs \in CpuSets : Grows(cs)
    BY <1>2, <1>3, CpusAreNumbers DEF Grows, Added, AddCpu, AddCoreInstance, AddUncoreInstance, IsCoreInstance
<1>5. QED
    BY <1>1, <1>2, <1>4

LEMMA SetStep ==
    ASSUME TypedInv, PassInv, CpusSet
    PROVE  /\ pc \in {"cpus", "cpumask"} /\ pc' = "readdir" /\ entry \in Devices /\ entry \in given
           /\ UNCHANGED <<env, classNr, pass, pmus, failures, ret>>
           /\ heap' = Grown(entry)
           /\ \E cs \in CpuSets : Sets(cs)
<1>1. pc \in {"cpus", "cpumask"} /\ UNCHANGED <<env, classNr, pass, pmus, failures, ret>>
    BY DEF CpusSet, ReadCpus, ReadCpumask
<1>2. entry \in given /\ entry \in Devices
    BY <1>1 DEF PassInv, TypedInv
<1>3. \E cs \in CpuSets : SetCpus(cs)
    BY <1>2, CpusAreNumbers DEF CpusSet, ReadCpus, ReadCpumask
<1>4. QED
    BY <1>1, <1>2, <1>3 DEF SetCpus, Sets

\* The passes leave these alone, but for their pc.
Quiet ==
    \/ FindMap
    \/ OpenDir
    \/ ReadDir
    \/ EndOfDir
    \/ SkipEntry
    \/ Finish
    \/ ReadCpus /\ pc' = "cpumask"
    \/ UNCHANGED vars

LEMMA QuietStep ==
    ASSUME Quiet
    PROVE  UNCHANGED <<env, classNr, instances, pmus, failures>>
BY DEF Quiet, FindMap, OpenDir, ReadDir, EndOfDir, SkipEntry, Finish, ReadCpus, vars, env, SetCpus

LEMMA NextClassStep ==
    ASSUME TypedInv, NextClass
    PROVE  classNr' \in Nat \ {0} /\ classNr' = classNr + 1 /\ instances' = <<>> /\ pc' = "class"
           /\ instances' \in Seq(InstanceSet)
<1>1. <<>> \in Seq(InstanceSet)
    BY EmptySeq
<1>2. QED
    BY <1>1 DEF TypedInv, NextClass

LEMMA AddClassStep ==
    ASSUME TypedInv, PassInv, AddClass
    PROVE  /\ pmus' \in Seq(ClassSet) /\ Len(pmus) \in Nat
           /\ Len(pmus') = Len(pmus) + 1 /\ DOMAIN pmus = 1..Len(pmus)
           /\ DOMAIN pmus' = 1..(Len(pmus) + 1)
           /\ \A c \in 1..Len(pmus) : pmus'[c] = pmus[c]
           /\ pmus'[Len(pmus) + 1].class = classNr
           /\ pmus'[Len(pmus) + 1].instances = instances
           /\ classNr \in DOMAIN Table /\ instances # <<>>
<1> DEFINE class == [class |-> classNr, instances |-> instances]
<1>1. class \in ClassSet /\ class.class = classNr /\ class.instances = instances
    BY DEF AddClass, ClassSet, TypedInv, PassInv
<1>2. pmus' = Append(pmus, class)
    BY DEF AddClass
<1> HIDE DEF class
<1>3. pmus \in Seq(ClassSet)
    BY DEF TypedInv
<1>4. pmus' \in Seq(ClassSet) /\ Len(pmus) \in Nat /\ Len(pmus') = Len(pmus) + 1
    BY <1>1, <1>2, <1>3
<1>5. pmus'[Len(pmus) + 1] = class /\ \A c \in 1..Len(pmus) : pmus'[c] = pmus[c]
    BY <1>1, <1>2, <1>3
<1>6. DOMAIN pmus = 1..Len(pmus) /\ DOMAIN pmus' = 1..(Len(pmus) + 1)
    BY <1>3, <1>4
<1>7. QED
    BY <1>1, <1>4, <1>5, <1>6 DEF AddClass, PassInv

LEMMA Cases ==
    ASSUME [Next]_vars
    PROVE  Kernel \/ Quiet \/ Added \/ CpusSet \/ GivenUp \/ AddClass \/ AddClassFails \/ FreePmus
<1>1. ReadCpumask => CpusSet
    BY DEF ReadCpumask, SetCpus, CpusSet
<1>2. QED
    BY <1>1 DEF Next, Step, Quiet, Added, CpusSet, GivenUp

LEMMA TypedStep ==
    ASSUME TypedInv, PassInv, [Next]_vars
    PROVE  TypedInv'
<1> USE DEF TypedInv
<1>1. CASE Kernel
    BY <1>1 DEF Kernel, Vanish, Appear
<1>2. CASE Quiet
    <2>1. UNCHANGED <<env, classNr, instances, pmus, failures>>
        BY <1>2, QuietStep
    <2>2. unread' \subseteq ever /\ given' \subseteq ever
        BY <1>2 DEF Quiet, FindMap, OpenDir, ReadDir, EndOfDir, EndPass, SkipEntry, Finish, ReadCpus, vars,
                    pass
    <2>3. pc' \in {"map", "class", "readdir", "entry", "cpus", "cpumask", "store",
                   "returned", "freed", "crashed", "wild"} /\ ret' \in {Running, 0, Failed}
        BY <1>2 DEF Quiet, FindMap, OpenDir, ReadDir, EndOfDir, SkipEntry, Finish, ReadCpus, vars
    <2>4. QED
        BY <2>1, <2>2, <2>3 DEF env
<1>3. CASE Added
    <2>1. PICK cs \in CpuSets : Grows(cs)
        BY <1>3, AddStep
    <2>2. UNCHANGED <<env, classNr, pmus, failures, ret>> /\ entry \in Devices
        BY <1>3, AddStep
    <2>3. instances' \in Seq(InstanceSet)
        BY <2>1, <2>2, OneMore DEF Grows
    <2>4. unread' \subseteq ever /\ given' \subseteq ever
          /\ pc' \in {"store", "readdir", "cpus"}
        BY <1>3 DEF Added, AddCpu, AddCoreInstance, AddUncoreInstance, EndPass, pass
    <2>5. QED
        BY <2>2, <2>3, <2>4 DEF env
<1>4. CASE CpusSet
    <2>1. PICK cs \in CpuSets : Sets(cs)
        BY <1>4, SetStep
    <2>2. UNCHANGED <<env, classNr, pass, pmus, failures, ret>> /\ pc' = "readdir"
        BY <1>4, SetStep
    <2>3. CASE instances = <<>>
        <3>1. instances' = instances
            BY <2>1, <2>3 DEF Sets
        <3>2. QED
            BY <2>2, <3>1 DEF env, pass
    <2>4. CASE instances # <<>>
        <3>1. instances' \in Seq(InstanceSet)
            BY <2>1, <2>4, LastSet DEF Sets
        <3>2. QED
            BY <2>2, <3>1 DEF env, pass
    <2>5. QED
        BY <2>3, <2>4
<1>5. CASE GivenUp
    <2>1. NextClass
        BY <1>5 DEF GivenUp, OpenDirFails, GrowInstancesFails, DropClass
    <2>2. unread' \subseteq ever /\ given' \subseteq ever /\ UNCHANGED <<env, pmus, ret>>
        BY <1>5 DEF GivenUp, OpenDirFails, GrowInstancesFails, DropClass, EndPass, pass
    <2>3. failures' \in Nat
        BY <1>5 DEF GivenUp, OpenDirFails, GrowInstancesFails, DropClass
    <2>4. QED
        BY <2>1, <2>2, <2>3, NextClassStep DEF env
<1>6. CASE AddClass
    <2>1. pmus' \in Seq(ClassSet)
        BY <1>6, AddClassStep
    <2>2. NextClass /\ UNCHANGED <<env, pass, failures, ret>>
        BY <1>6 DEF AddClass
    <2>3. QED
        BY <2>1, <2>2, NextClassStep DEF env, pass
<1>7. CASE AddClassFails
    <2>1. instances' \in Seq(InstanceSet)
        BY <1>7, EmptySeq DEF AddClassFails
    <2>2. QED
        BY <1>7, <2>1 DEF AddClassFails, env, pass
<1>8. CASE FreePmus
    <2>1. pmus' \in Seq(ClassSet)
        BY <1>8, EmptySeq DEF FreePmus
    <2>2. QED
        BY <1>8, <2>1 DEF FreePmus, env, pass
<1>9. QED
    BY <1>1, <1>2, <1>3, <1>4, <1>5, <1>6, <1>7, <1>8, Cases

LEMMA PassStep ==
    ASSUME TypedInv, PassInv, [Next]_vars
    PROVE  PassInv'
<1>1. CASE Kernel
    <2>1. UNCHANGED <<pc, classNr, entry, instances, given, pmus>>
        BY <1>1 DEF Kernel, Vanish, Appear
    <2>2. unread' \cap given' = {} /\ (~ InPass => unread' = {})
        BY <1>1 DEF Kernel, Vanish, Appear, PassInv
    <2>3. QED
        BY <2>1, <2>2 DEF PassInv, InPass
<1>2. CASE Quiet
    <2>1. UNCHANGED <<classNr, instances, pmus>>
        BY <1>2, QuietStep DEF env
    <2>2. CASE FindMap \/ SkipEntry \/ (ReadCpus /\ pc' = "cpumask") \/ UNCHANGED vars
        BY <2>1, <2>2 DEF FindMap, SkipEntry, ReadCpus, vars, pass, PassInv, InPass
    <2>3. CASE OpenDir
        <3>1. classNr \in DOMAIN Table
            BY <2>3, TableAssumption DEF OpenDir, TypedInv
        <3>2. QED
            BY <2>1, <2>3, <3>1 DEF OpenDir, PassInv, InPass
    <2>4. CASE ReadDir
        BY <2>1, <2>4 DEF ReadDir, PassInv, InPass
    <2>5. CASE EndOfDir
        BY <2>1, <2>5 DEF EndOfDir, EndPass, PassInv, InPass
    <2>6. CASE Finish
        BY <2>1, <2>6 DEF Finish, pass, PassInv, InPass
    <2>7. QED
        BY <1>2, <2>2, <2>3, <2>4, <2>5, <2>6 DEF Quiet
<1>3. CASE Added
    BY <1>3 DEF Added, AddCpu, AddCoreInstance, AddUncoreInstance, EndPass, pass, PassInv, InPass
<1>4. CASE CpusSet
    BY <1>4, SetStep DEF PassInv, InPass, pass
<1>5. CASE GivenUp
    <2>1. NextClass /\ unread' = {} /\ given' = {}
        BY <1>5 DEF GivenUp, OpenDirFails, GrowInstancesFails, DropClass, EndPass, pass, PassInv, InPass
    <2>2. QED
        BY <2>1 DEF NextClass, PassInv, InPass
<1>6. CASE AddClass
    BY <1>6 DEF AddClass, NextClass, pass, PassInv, InPass
<1>7. CASE AddClassFails
    BY <1>7 DEF AddClassFails, pass, PassInv, InPass
<1>8. CASE FreePmus
    BY <1>8 DEF FreePmus, pass, PassInv, InPass
<1>9. QED
    BY <1>1, <1>2, <1>3, <1>4, <1>5, <1>6, <1>7, <1>8, Cases

\* What is genuine stays so.
LEMMA GenuineStep ==
    ASSUME TypedInv, [Next]_vars
    PROVE  /\ files' = files /\ ever \subseteq ever' /\ always' \subseteq always /\ online' = online
           /\ \A k, d : Genuine(k, d) => Genuine(k, d)'
<1>1. files' = files /\ ever \subseteq ever' /\ always' \subseteq always /\ online' = online
    BY DEF Next, Step, Kernel, Vanish, Appear, FindMap, OpenDir, OpenDirFails, ReadDir, EndOfDir,
           SkipEntry, AddCpu, AddCoreInstance, AddUncoreInstance, ReadCpus, ReadCpumask,
           GrowInstancesFails, DropClass, AddClass, AddClassFails, Finish, FreePmus, vars, env
<1>2. QED
    BY <1>1 DEF Genuine, HasCpusFile

\* A directory that is added is an instance of the class at hand.
LEMMA AddedGenuine ==
    ASSUME TypedInv, PassInv, Added
    PROVE  Genuine(classNr, entry)
<1>1. entry \in Devices /\ entry \in ever /\ classNr \in DOMAIN Table
    BY AddStep
<1>2. CASE AddCpu
    BY <1>1, <1>2 DEF AddCpu, IsCpu, Genuine, ClassName
<1>3. CASE AddCoreInstance
    BY <1>1, <1>3 DEF AddCoreInstance, IsCoreInstance, Genuine, ClassName, Readable, HasCpusFile
<1>4. CASE AddUncoreInstance
    <2>1. InstanceOf(entry, Table[classNr]) /\ Table[classNr] # DefaultCore
        BY <1>4 DEF AddUncoreInstance, IsUncoreInstance, ClassName
    <2>2. QED
        BY <1>1, <2>1, NameTest DEF Genuine
<1>5. QED
    BY <1>2, <1>3, <1>4 DEF Added

LEMMA InstancesStep ==
    ASSUME TypedInv, PassInv, InstancesInv, [Next]_vars
    PROVE  InstancesInv'
<1>1. \A k, insts : AllGenuine(k, insts) => AllGenuine(k, insts)'
    BY GenuineStep DEF AllGenuine
<1>2. CASE Kernel
    BY <1>1, <1>2 DEF Kernel, Vanish, Appear, InstancesInv, InPass, NamesDiffer
<1>3. CASE Quiet
    <2>1. UNCHANGED <<classNr, instances>>
        BY <1>3, QuietStep
    <2>2. NamesDiffer(instances)' /\ (classNr' \in DOMAIN Table => AllGenuine(classNr, instances)')
        BY <1>1, <2>1 DEF InstancesInv, NamesDiffer
    <2>3. CASE FindMap \/ SkipEntry \/ EndOfDir \/ Finish \/ UNCHANGED vars
        BY <2>1, <2>2, <2>3
        DEF FindMap, SkipEntry, EndOfDir, Finish, vars, pass, InstancesInv, InPass
    <2>4. CASE OpenDir
        <3>1. instances = <<>>
            BY <2>4 DEF OpenDir, PassInv
        <3>2. DOMAIN instances' = {}
            BY <2>1, <3>1
        <3>3. pc' = "readdir"
            BY <2>4 DEF OpenDir
        <3>4. QED
            BY <2>2, <3>2, <3>3 DEF InstancesInv
    <2>5. CASE ReadDir
        <3>1. PICK d \in unread : given' = given \cup {d} /\ entry' = d
            BY <2>5 DEF ReadDir
        <3>2. d \notin given
            BY <3>1 DEF PassInv
        <3>3. \A i \in DOMAIN instances : instances[i].name \in given
            BY <2>5 DEF ReadDir, InstancesInv, InPass
        <3>4. pc' = "entry"
            BY <2>5 DEF ReadDir
        <3>5. QED
            BY <2>1, <2>2, <3>1, <3>2, <3>3, <3>4 DEF InstancesInv
    <2>6. CASE ReadCpus /\ pc' = "cpumask"
        BY <2>1, <2>2, <2>6 DEF ReadCpus, pass, InstancesInv, InPass
    <2>7. QED
        BY <1>3, <2>3, <2>4, <2>5, <2>6 DEF Quiet
<1>4. CASE Added
    <2>1. PICK cs \in CpuSets : Grows(cs)
        BY <1>4, AddStep
    <2>2. entry \in Devices /\ entry \in given /\ pc = "entry" /\ classNr' = classNr
          /\ classNr \in DOMAIN Table
        BY <1>4, AddStep
    <2> DEFINE n == Len(instances)
    <2>3. /\ n \in Nat /\ DOMAIN instances = 1..n /\ DOMAIN instances' = 1..(n + 1)
          /\ Len(instances') = n + 1 /\ instances' # <<>>
          /\ \A i \in 1..n : instances'[i] = instances[i]
          /\ instances'[n + 1].name = entry
        BY <2>1, <2>2, OneMore DEF Grows, TypedInv
    <2>4. \A i \in 1..(n + 1) : i \in 1..n \/ i = n + 1
        BY <2>3
    <2>5. \A i \in 1..n : instances[i].name # entry /\ instances[i].name \in given
        BY <2>2, <2>3 DEF InstancesInv, InPass
    <2>6. NamesDiffer(instances')
        BY <2>3, <2>4, <2>5 DEF InstancesInv, NamesDiffer
    <2>7. AllGenuine(classNr, instances')
        BY <1>4, <2>2, <2>3, <2>4, AddedGenuine DEF InstancesInv, AllGenuine
    <2>8. \A i \in DOMAIN instances' : instances'[i].name \in given
        BY <2>2, <2>3, <2>4, <2>5
    <2>9. \/ pc' = "store"
          \/ pc' = "readdir" /\ given' = given
          \/ pc' = "cpus" /\ given' = given /\ entry' = entry /\ Table[classNr] # DefaultCore
        BY <1>4 DEF Added, AddCpu, AddCoreInstance, AddUncoreInstance, pass, IsUncoreInstance, ClassName
    <2>10. AllGenuine(classNr, instances)'
        BY <1>1, <2>2, <2>7
    <2>11. NamesDiffer(instances)'
        BY <2>6 DEF NamesDiffer
    <2> HIDE DEF n
    <2>12. QED
        BY <2>2, <2>3, <2>8, <2>9, <2>10, <2>11 DEF InstancesInv, InPass, n
<1>5. CASE CpusSet
    <2>1. PICK cs \in CpuSets : Sets(cs)
        BY <1>5, SetStep
    <2>2. /\ pc \in {"cpus", "cpumask"} /\ pc' = "readdir" /\ classNr' = classNr /\ given' = given
        BY <1>5, SetStep DEF pass
    <2>3. instances # <<>>
        BY <2>2 DEF InstancesInv
    <2>4. /\ DOMAIN instances' = DOMAIN instances
          /\ \A i \in DOMAIN instances : instances'[i].name = instances[i].name
        BY <2>1, <2>3, LastSet DEF Sets, TypedInv
    <2>5. NamesDiffer(instances)'
        BY <2>4 DEF InstancesInv, NamesDiffer
    <2>6. classNr \in DOMAIN Table => AllGenuine(classNr, instances')
        BY <2>4 DEF InstancesInv, AllGenuine
    <2>7. \A i \in DOMAIN instances' : instances'[i].name \in given'
        BY <2>2, <2>4 DEF InstancesInv, InPass
    <2>8. QED
        BY <1>1, <2>2, <2>5, <2>6, <2>7 DEF InstancesInv, InPass
<1>6. ASSUME instances' = <<>>, pc' \in {"class", "returned"}
      PROVE  InstancesInv'
    <2>1. DOMAIN instances' = {}
        BY <1>6
    <2>2. QED
        BY <1>6, <2>1 DEF InstancesInv, NamesDiffer, AllGenuine, InPass
<1>7. CASE GivenUp \/ AddClass
    BY <1>6, <1>7 DEF GivenUp, OpenDirFails, GrowInstancesFails, DropClass, AddClass, NextClass
<1>8. CASE AddClassFails
    <2>1. CASE pmus = <<>>
        BY <1>6, <1>8, <2>1 DEF AddClassFails
    <2>2. CASE pmus # <<>>
        BY <1>1, <1>8, <2>2 DEF AddClassFails, InstancesInv, NamesDiffer, InPass
    <2>3. QED
        BY <2>1, <2>2
<1>9. CASE FreePmus
    BY <1>1, <1>9 DEF FreePmus, InstancesInv, NamesDiffer, InPass
<1>10. QED
    BY <1>2, <1>3, <1>4, <1>5, <1>7, <1>8, <1>9, Cases

\* The result changes when a class is added, and when it is released.
LEMMA ResultKept ==
    ASSUME [Next]_vars
    PROVE  pmus' = pmus \/ AddClass \/ FreePmus
BY DEF Next, Step, Kernel, Vanish, Appear, FindMap, OpenDir, OpenDirFails, ReadDir, EndOfDir,
       SkipEntry, AddCpu, AddCoreInstance, AddUncoreInstance, ReadCpus, ReadCpumask,
       GrowInstancesFails, DropClass, AddClassFails, Finish, vars

LEMMA ResultStep ==
    ASSUME TypedInv, PassInv, InstancesInv, ResultInv, [Next]_vars
    PROVE  ResultInv'
<1>1. \A k, insts : AllGenuine(k, insts) => AllGenuine(k, insts)'
    BY GenuineStep DEF AllGenuine
<1>2. classNr' \in {classNr, classNr + 1} /\ classNr \in Nat
    BY DEF Next, Step, Kernel, Vanish, Appear, FindMap, OpenDir, OpenDirFails, ReadDir, EndOfDir,
           SkipEntry, AddCpu, AddCoreInstance, AddUncoreInstance, ReadCpus, ReadCpumask, SetCpus,
           GrowInstancesFails, DropClass, AddClass, AddClassFails, Finish, FreePmus, NextClass, vars,
           TypedInv
<1>3. \A c \in DOMAIN pmus : pmus[c].class \in Nat
    <2>1. \A c \in DOMAIN pmus : pmus[c] \in ClassSet
        BY DEF TypedInv
    <2>2. QED
        BY <2>1, TableAssumption DEF ClassSet
<1>4. CASE pmus' = pmus
    <2>1. \A c \in DOMAIN pmus : pmus[c].class < classNr'
        BY <1>2, <1>3 DEF ResultInv
    <2>2. QED
        BY <1>1, <1>4, <2>1 DEF ResultInv, NamesDiffer
<1>5. CASE AddClass
    <2> DEFINE n == Len(pmus)
    <2>1. /\ n \in Nat /\ DOMAIN pmus = 1..n /\ DOMAIN pmus' = 1..(n + 1)
          /\ \A c \in 1..n : pmus'[c] = pmus[c]
          /\ pmus'[n + 1].class = classNr
          /\ pmus'[n + 1].instances = instances
          /\ classNr \in DOMAIN Table /\ instances # <<>>
        BY <1>5, AddClassStep
    <2>2. \A c \in 1..(n + 1) : c \in 1..n \/ c = n + 1
        BY <2>1
    <2>3. classNr' = classNr + 1
        BY <1>5 DEF AddClass, NextClass
    <2> HIDE DEF n
    <2>4. \A c \in 1..n : pmus'[c].class < classNr /\ pmus'[c].class < classNr'
        BY <1>2, <1>3, <2>1, <2>3 DEF ResultInv
    <2>5. \A c \in 1..n : /\ pmus'[c].instances # <<>>
                          /\ NamesDiffer(pmus'[c].instances)
                          /\ AllGenuine(pmus[c].class, pmus[c].instances)
        BY <2>1 DEF ResultInv
    <2>6. NamesDiffer(instances) /\ AllGenuine(classNr, instances)
        BY <2>1 DEF InstancesInv
    <2>7. \A c \in 1..(n + 1) : NamesDiffer(pmus'[c].instances) /\ pmus'[c].instances # <<>>
        BY <2>1, <2>2, <2>5, <2>6
    <2>8. \A c \in 1..(n + 1) : AllGenuine(pmus'[c].class, pmus'[c].instances)
        BY <2>1, <2>2, <2>5, <2>6
    <2>9. \A c \in 1..(n + 1) : AllGenuine(pmus[c].class, pmus[c].instances)'
        BY <1>1, <2>8
    <2>10. \A b, c \in 1..(n + 1) : pmus'[b].class = pmus'[c].class => b = c
        <3>1. \A b, c \in 1..n : pmus'[b].class = pmus'[c].class => b = c
            BY <2>1 DEF ResultInv
        <3>2. \A c \in 1..n : pmus'[c].class # classNr
            BY <1>2, <1>3, <2>1, <2>4
        <3>3. QED
            BY <2>1, <2>2, <3>1, <3>2
    <2>11. \A c \in 1..(n + 1) : pmus'[c].class < classNr'
        BY <1>2, <2>1, <2>2, <2>3, <2>4
    <2>12. QED
        BY <2>1, <2>7, <2>9, <2>10, <2>11 DEF ResultInv, NamesDiffer
<1>6. CASE FreePmus
    <2>1. DOMAIN pmus' = {}
        BY <1>6 DEF FreePmus
    <2>2. QED
        BY <2>1 DEF ResultInv
<1>7. QED
    BY <1>4, <1>5, <1>6, ResultKept

\* What is published for a device does not change, and CPUs that are right stay so.
LEMMA PublishedStep ==
    ASSUME TypedInv, [Next]_vars
    PROVE  \A insts, n : CpusRight(insts, n) => CpusRight(insts, n)'
<1>1. files' = files /\ online' = online /\ always' \subseteq always
    BY GenuineStep
<1>2. AllCpus' = AllCpus
    BY <1>1 DEF AllCpus
<1>3. \A d : Published(d)' = Published(d)
    BY <1>1, <1>2 DEF Published, HasCpusFile
<1>4. QED
    BY <1>1, <1>3 DEF CpusRight

\* The CPUs that an uncore instance is given are those that are published.
LEMMA SetCpusRight ==
    ASSUME TypedInv, PassInv, CpusInv, CpusSet
    PROVE  \E cs \in CpuSets : Sets(cs) /\ (entry \in always => cs = Published(entry))
<1>1. entry \in Devices /\ always \subseteq present
    BY SetStep DEF TypedInv
<1>2. CASE ReadCpus
    <2>1. Readable("cpus", entry) /\ Sets(files[entry].cpus)
        BY <1>2 DEF ReadCpus, CpusSet, SetCpus, Sets
    <2>2. files[entry].cpus \in CpuSets
        BY <1>1, <2>1, CpusAreNumbers
    <2>3. Published(entry) = files[entry].cpus
        BY <2>1 DEF Published, HasCpusFile, Readable
    <2>4. QED
        BY <2>1, <2>2, <2>3
<1>3. CASE ReadCpumask
    <2>1. entry \in always => ~ HasCpusFile(entry) /\ entry \in present
        BY <1>1, <1>3 DEF ReadCpumask, CpusInv
    <2>2. CASE Readable("cpumask", entry)
        <3>1. Sets(files[entry].cpumask)
            BY <1>3, <2>2 DEF ReadCpumask, SetCpus, Sets
        <3>2. files[entry].cpumask \in CpuSets
            BY <1>1, <2>2, CpusAreNumbers
        <3>3. entry \in always => Published(entry) = files[entry].cpumask
            BY <2>1, <2>2 DEF Published, Readable
        <3>4. QED
            BY <3>1, <3>2, <3>3
    <2>3. CASE ~ Readable("cpumask", entry)
        <3>1. Sets(AllCpus)
            BY <1>3, <2>3 DEF ReadCpumask, SetCpus, Sets
        <3>2. AllCpus \in CpuSets
            BY CpusAreNumbers
        <3>3. entry \in always => Published(entry) = AllCpus
            BY <2>1, <2>3 DEF Published, Readable
        <3>4. QED
            BY <3>1, <3>2, <3>3
    <2>4. QED
        BY <2>2, <2>3
<1>4. QED
    BY <1>2, <1>3 DEF CpusSet

\* How many of the instances of the class at hand have been given their CPUs.
Settled == IF pc \in {"cpus", "cpumask"} THEN Len(instances) - 1 ELSE Len(instances)

LEMMA CpusStep ==
    ASSUME TypedInv, PassInv, InstancesInv, ResultInv, CpusInv, [Next]_vars
    PROVE  CpusInv'
<1>1. \A insts, n : CpusRight(insts, n) => CpusRight(insts, n)'
    BY PublishedStep
<1>2. \A c \in DOMAIN pmus' : Table[pmus'[c].class] # DefaultCore =>
          CpusRight(pmus[c].instances, Len(pmus[c].instances))'
    <2>1. CASE pmus' = pmus
        BY <1>1, <2>1 DEF CpusInv
    <2>2. CASE AddClass
        <3> DEFINE n == Len(pmus)
        <3>1. /\ n \in Nat /\ DOMAIN pmus = 1..n /\ DOMAIN pmus' = 1..(n + 1)
              /\ \A c \in 1..n : pmus'[c] = pmus[c]
              /\ pmus'[n + 1].class = classNr
              /\ pmus'[n + 1].instances = instances
              /\ classNr \in DOMAIN Table
            BY <2>2, AddClassStep
        <3>2. \A c \in 1..(n + 1) : c \in 1..n \/ c = n + 1
            BY <3>1
        <3>3. Table[classNr] # DefaultCore => CpusRight(instances, Len(instances))
            BY <2>2, <3>1 DEF AddClass, CpusInv
        <3> HIDE DEF n
        <3>4. \A c \in 1..(n + 1) : Table[pmus'[c].class] # DefaultCore =>
                  CpusRight(pmus'[c].instances, Len(pmus'[c].instances))
            BY <3>1, <3>2, <3>3 DEF CpusInv
        <3>5. QED
            BY <1>1, <3>1, <3>4
    <2>3. CASE FreePmus
        BY <2>3 DEF FreePmus
    <2>4. QED
        BY <2>1, <2>2, <2>3, ResultKept
<1>3. (pc = "cpumask" /\ entry \in always => ~ HasCpusFile(entry))'
    <2>1. always' \subseteq always /\ files' = files /\ always \subseteq present
        BY GenuineStep DEF TypedInv
    <2>2. CASE ReadCpus /\ pc' = "cpumask"
        <3>1. ~ Readable("cpus", entry) /\ entry' = entry
            BY <2>2 DEF ReadCpus, SetCpus, pass
        <3>2. QED
            BY <2>1, <3>1 DEF Readable, HasCpusFile
    <2>3. CASE UNCHANGED <<pc, entry>>
        BY <2>1, <2>3 DEF CpusInv, HasCpusFile
    <2>4. CASE pc' # "cpumask"
        BY <2>4
    <2>5. QED
        BY <2>2, <2>3, <2>4 DEF Next, Step, Kernel, Vanish, Appear, FindMap, OpenDir, OpenDirFails,
           ReadDir, EndOfDir, SkipEntry, AddCpu, AddCoreInstance, AddUncoreInstance, ReadCpumask,
           SetCpus, GrowInstancesFails, DropClass, AddClass, AddClassFails, Finish, FreePmus,
           NextClass, vars
<1>4. (classNr \in DOMAIN Table /\ Table[classNr] # DefaultCore => CpusRight(instances, Settled))'
    <2>1. classNr \in DOMAIN Table /\ Table[classNr] # DefaultCore => CpusRight(instances, Settled)
        BY DEF CpusInv, Settled
    <2>2. CASE UNCHANGED <<classNr, instances, pc>>
        BY <1>1, <2>1, <2>2 DEF Settled
    <2>3. CASE UNCHANGED <<classNr, instances>> /\ Settled' = Settled
        BY <1>1, <2>1, <2>3
    <2>4. CASE instances' = <<>>
        <3>1. ~ \E i \in 1..Len(instances') : TRUE
            BY <2>4
        <3>2. ~ \E i \in 1..(Len(instances') - 1) : TRUE
            BY <2>4
        <3>3. QED
            BY <3>1, <3>2 DEF CpusRight, Settled
    <2>5. CASE Kernel
        BY <2>2, <2>5 DEF Kernel, Vanish, Appear
    <2>6. CASE Quiet
        <3>1. UNCHANGED <<classNr, instances>>
            BY <2>6, QuietStep
        <3>2. Settled' = Settled
            BY <2>6, <3>1 DEF Quiet, FindMap, OpenDir, ReadDir, EndOfDir, SkipEntry, Finish, ReadCpus, vars,
               Settled
        <3>3. QED
            BY <2>3, <3>1, <3>2
    <2>7. CASE AddUncoreInstance
        <3>1. Added /\ pc' = "cpus" /\ pc = "entry" /\ classNr' = classNr
            BY <2>7 DEF Added, AddUncoreInstance
        <3>2. PICK cs \in CpuSets : Grows(cs)
            BY <3>1, AddStep
        <3>3. entry \in Devices
            BY <3>1, AddStep
        <3>4. /\ Len(instances) \in Nat /\ Len(instances') = Len(instances) + 1
              /\ \A i \in 1..Len(instances) : instances'[i] = instances[i]
            BY <3>2, <3>3, OneMore DEF Grows, TypedInv
        <3>5. Settled = Len(instances)
            BY <3>1 DEF Settled
        <3>6. Settled' = Len(instances)
            BY <3>1, <3>4 DEF Settled
        <3>7. classNr \in DOMAIN Table /\ Table[classNr] # DefaultCore =>
                  CpusRight(instances', Len(instances))
            BY <2>1, <3>4, <3>5 DEF CpusRight
        <3>8. QED
            BY <1>1, <3>1, <3>6, <3>7
    <2>8. CASE AddCpu \/ AddCoreInstance
        BY <2>8 DEF AddCpu, AddCoreInstance, IsCpu, IsCoreInstance, ClassName
    <2>9. CASE CpusSet
        <3>1. PICK cs \in CpuSets : Sets(cs) /\ (entry \in always => cs = Published(entry))
            BY <2>9, SetCpusRight
        <3>2. pc \in {"cpus", "cpumask"} /\ pc' = "readdir" /\ classNr' = classNr
            BY <2>9, SetStep
        <3>3. instances # <<>> /\ instances[Len(instances)].name = entry
            BY <3>2 DEF InstancesInv
        <3>4. /\ Len(instances) \in Nat \ {0} /\ Len(instances') = Len(instances)
              /\ DOMAIN instances = 1..Len(instances)
              /\ \A i \in DOMAIN instances : instances'[i].name = instances[i].name
              /\ \A i \in 1..(Len(instances) - 1) : instances'[i] = instances[i]
              /\ instances'[Len(instances)].cpus = cs
            BY <3>1, <3>3, LastSet DEF Sets, TypedInv
        <3>5. Settled = Len(instances) - 1
            BY <3>2 DEF Settled
        <3>6. Settled' = Len(instances)
            BY <3>2, <3>4 DEF Settled
        <3>7. \A i \in 1..Len(instances) : i \in 1..(Len(instances) - 1) \/ i = Len(instances)
            BY <3>4
        <3>8. instances'[Len(instances)].name = entry
            BY <3>3, <3>4
        <3>9. classNr \in DOMAIN Table /\ Table[classNr] # DefaultCore =>
                  CpusRight(instances', Len(instances))
            BY <2>1, <3>1, <3>4, <3>5, <3>7, <3>8 DEF CpusRight
        <3>10. QED
            BY <1>1, <3>2, <3>6, <3>9
    <2>10. CASE GivenUp \/ AddClass
        BY <2>4, <2>10 DEF GivenUp, OpenDirFails, GrowInstancesFails, DropClass, AddClass, NextClass
    <2>11. CASE AddClassFails
        <3>1. CASE pmus = <<>>
            BY <2>4, <2>11, <3>1 DEF AddClassFails
        <3>2. CASE pmus # <<>>
            BY <2>3, <2>11, <3>2 DEF AddClassFails, Settled
        <3>3. QED
            BY <3>1, <3>2
    <2>12. CASE FreePmus
        BY <2>3, <2>12 DEF FreePmus, Settled
    <2>13. QED
        BY <2>5, <2>6, <2>7, <2>8, <2>9, <2>10, <2>11, <2>12, Cases DEF Added
<1>5. QED
    BY <1>2, <1>3, <1>4 DEF CpusInv, Settled

-----------------------------------------------------------------------------
(* Lemmas about the heap. *)

LEMMA InClassObjects ==
    \A k, insts, x :
        x \in ClassObjects(k, insts) <=>
            \/ \E i \in DOMAIN insts : x \in InstanceObjects(k, insts[i].name)
            \/ insts # <<>> /\ x = InstanceArray(k)
<1> SUFFICES ASSUME NEW k, NEW insts, NEW x
             PROVE  x \in ClassObjects(k, insts) <=>
                        \/ \E i \in DOMAIN insts : x \in InstanceObjects(k, insts[i].name)
                        \/ insts # <<>> /\ x = InstanceArray(k)
    OBVIOUS
<1> DEFINE named == UNION {InstanceObjects(k, insts[i].name) : i \in DOMAIN insts}
<1>1. x \in named <=> \E i \in DOMAIN insts : x \in InstanceObjects(k, insts[i].name)
    BY Zenon
<1>2. x \in ClassObjects(k, insts) <=> x \in named \/ (insts # <<>> /\ x = InstanceArray(k))
    <2> HIDE DEF named
    <2>1. ClassObjects(k, insts) = named \cup (IF insts = <<>> THEN {} ELSE {InstanceArray(k)})
        BY Zenon DEF ClassObjects, named
    <2>2. QED
        BY <2>1
<1>3. QED
    BY <1>1, <1>2, Zenon

\* Reachable of one result or another
ReachableFrom(p) ==
    (UNION {ClassObjects(p[c].class, p[c].instances) : c \in DOMAIN p})
    \cup (IF p = <<>> THEN {} ELSE {Classes})

LEMMA InReachable ==
    /\ Reachable = ReachableFrom(pmus) /\ Reachable' = ReachableFrom(pmus')
    /\ \A p, x : x \in ReachableFrom(p) <=>
        \/ \E c \in DOMAIN p : x \in ClassObjects(p[c].class, p[c].instances)
        \/ p # <<>> /\ x = Classes
<1>1. ASSUME NEW p, NEW x
      PROVE  x \in ReachableFrom(p) <=>
                 \/ \E c \in DOMAIN p : x \in ClassObjects(p[c].class, p[c].instances)
                 \/ p # <<>> /\ x = Classes
    <2> DEFINE objects == UNION {ClassObjects(p[c].class, p[c].instances) : c \in DOMAIN p}
    <2>1. x \in objects <=> \E c \in DOMAIN p : x \in ClassObjects(p[c].class, p[c].instances)
        BY Zenon
    <2>2. x \in ReachableFrom(p) <=> x \in objects \/ (p # <<>> /\ x = Classes)
        <3> HIDE DEF objects
        <3>1. ReachableFrom(p) = objects \cup (IF p = <<>> THEN {} ELSE {Classes})
            BY Zenon DEF ReachableFrom, objects
        <3>2. QED
            BY <3>1
    <2>3. QED
        BY <2>1, <2>2, Zenon
<1>2. Reachable = ReachableFrom(pmus) /\ Reachable' = ReachableFrom(pmus')
    BY DEF Reachable, ReachableFrom
<1>3. QED
    BY <1>1, <1>2

\* The objects of a class are not those of another one, nor the directory
\* stream, nor the array of the classes.
LEMMA ObjectsOfClass ==
    \A k, insts : \A x \in ClassObjects(k, insts) :
        /\ x # Dir /\ x # Classes
        /\ \A l, others : x \in ClassObjects(l, others) => k = l
<1> SUFFICES ASSUME NEW k, NEW insts, NEW x \in ClassObjects(k, insts)
             PROVE  /\ x # Dir /\ x # Classes
                    /\ \A l, others : x \in ClassObjects(l, others) => k = l
    OBVIOUS
<1>1. \A l, others : x \in ClassObjects(l, others) =>
          x = <<"instances", l>> \/ \E d : x = <<"name", l, d>> \/ x = <<"cpus", l, d>>
    BY InClassObjects DEF InstanceArray, InstanceObjects
<1>2. x = <<"instances", k>> \/ \E d : x = <<"name", k, d>> \/ x = <<"cpus", k, d>>
    BY <1>1
<1>3. x # Dir /\ x # Classes
    BY <1>2 DEF Dir, Classes
<1>4. QED
    BY <1>1, <1>2, <1>3

LEMMA ReachableApart ==
    ASSUME TypedInv, ResultInv
    PROVE  /\ Dir \notin Reachable
           /\ Reachable \cap ClassObjects(classNr, instances) = {}
<1>1. \A x \in Reachable : x = Classes \/ \E c \in DOMAIN pmus :
                              x \in ClassObjects(pmus[c].class, pmus[c].instances)
    BY InReachable
<1>2. Dir # Classes
    BY DEF Dir, Classes
<1>3. Dir \notin Reachable
    BY <1>1, <1>2, ObjectsOfClass
<1>4. \A c \in DOMAIN pmus : pmus[c].class # classNr
    <2>1. \A c \in DOMAIN pmus : pmus[c] \in ClassSet
        BY DEF TypedInv
    <2>2. \A c \in DOMAIN pmus : pmus[c].class \in Nat
        BY <2>1, TableAssumption DEF ClassSet
    <2>3. QED
        BY <2>2 DEF ResultInv, TypedInv
<1>5. Reachable \cap ClassObjects(classNr, instances) = {}
    BY <1>1, <1>4, ObjectsOfClass
<1>6. QED
    BY <1>3, <1>5

LEMMA NoInstances ==
    \A k : ClassObjects(k, <<>>) = {}
BY DEF ClassObjects

\* What one more instance adds to the objects of its class.
LEMMA ObjectsGrow ==
    ASSUME TypedInv, NEW d \in Devices, NEW cs \in CpuSets,
           instances' = Append(instances, Instance(d, cs))
    PROVE  ClassObjects(classNr, instances') =
               ClassObjects(classNr, instances) \cup {InstanceArray(classNr)} \cup InstanceObjects(classNr, d)
<1> DEFINE n == Len(instances)
<1>1. /\ n \in Nat /\ DOMAIN instances = 1..n /\ DOMAIN instances' = 1..(n + 1) /\ instances' # <<>>
      /\ \A i \in 1..n : instances'[i] = instances[i]
      /\ instances'[n + 1].name = d
    BY OneMore DEF TypedInv
<1>2. \A i : i \in 1..(n + 1) <=> i \in 1..n \/ i = n + 1
    BY <1>1
<1> HIDE DEF n
<1>3. \A x : x \in ClassObjects(classNr, instances') <=>
          \/ \E i \in 1..n : x \in InstanceObjects(classNr, instances[i].name)
          \/ x \in InstanceObjects(classNr, d)
          \/ x = InstanceArray(classNr)
    <2> SUFFICES ASSUME NEW x
                 PROVE  x \in ClassObjects(classNr, instances') <=>
                            \/ \E i \in 1..n : x \in InstanceObjects(classNr, instances[i].name)
                            \/ x \in InstanceObjects(classNr, d)
                            \/ x = InstanceArray(classNr)
        OBVIOUS
    <2>1. x \in ClassObjects(classNr, instances') <=>
              \/ \E i \in 1..(n + 1) : x \in InstanceObjects(classNr, instances'[i].name)
              \/ x = InstanceArray(classNr)
        BY <1>1, InClassObjects
    <2>2. QED
        BY <1>1, <1>2, <2>1
<1>4. \A x : x \in ClassObjects(classNr, instances) =>
          x = InstanceArray(classNr) \/ \E i \in 1..n : x \in InstanceObjects(classNr, instances[i].name)
    BY <1>1, InClassObjects
<1>5. \A i \in 1..n : InstanceObjects(classNr, instances[i].name) \subseteq ClassObjects(classNr, instances)
    BY <1>1, InClassObjects
<1>6. QED
    BY <1>3, <1>4, <1>5

\* The objects of a class do not depend on the CPUs of its instances.
LEMMA ObjectsByName ==
    ASSUME NEW k, NEW s, NEW t, DOMAIN s = DOMAIN t, s # <<>>, t # <<>>,
           \A i \in DOMAIN s : s[i].name = t[i].name
    PROVE  ClassObjects(k, s) = ClassObjects(k, t)
<1> SUFFICES ASSUME NEW x
             PROVE  x \in ClassObjects(k, s) <=> x \in ClassObjects(k, t)
    OBVIOUS
<1>1. x \in ClassObjects(k, s) <=>
          (\E i \in DOMAIN s : x \in InstanceObjects(k, s[i].name)) \/ x = InstanceArray(k)
    BY InClassObjects
<1>2. x \in ClassObjects(k, t) <=>
          (\E i \in DOMAIN t : x \in InstanceObjects(k, t[i].name)) \/ x = InstanceArray(k)
    BY InClassObjects
<1>3. QED
    BY <1>1, <1>2

\* A class that is added is reached with all its objects.
LEMMA ReachableGrows ==
    ASSUME TypedInv, PassInv, AddClass
    PROVE  Reachable' = Reachable \cup ClassObjects(classNr, instances) \cup {Classes}
<1> DEFINE n == Len(pmus)
<1>1. /\ n \in Nat /\ DOMAIN pmus = 1..n /\ DOMAIN pmus' = 1..(n + 1)
      /\ \A c \in 1..n : pmus'[c] = pmus[c]
      /\ pmus'[n + 1].class = classNr
      /\ pmus'[n + 1].instances = instances
    BY AddClassStep
<1>2. \A i : i \in 1..(n + 1) <=> i \in 1..n \/ i = n + 1
    BY <1>1
<1>3. pmus' # <<>>
    <2>1. n + 1 \in DOMAIN pmus'
        BY <1>1
    <2>2. QED
        BY <2>1
<1> HIDE DEF n
<1>4. \A x : x \in Reachable' <=>
          \/ \E c \in DOMAIN pmus' : x \in ClassObjects(pmus'[c].class, pmus'[c].instances)
          \/ pmus' # <<>> /\ x = Classes
    BY InReachable
<1>5. \A x : x \in Reachable' <=>
          \/ \E c \in 1..n : x \in ClassObjects(pmus[c].class, pmus[c].instances)
          \/ x \in ClassObjects(classNr, instances)
          \/ x = Classes
    BY <1>1, <1>2, <1>3, <1>4
<1>6. \A x : x \in Reachable =>
          x = Classes \/ \E c \in 1..n : x \in ClassObjects(pmus[c].class, pmus[c].instances)
    BY <1>1, InReachable
<1>7. \A c \in 1..n : ClassObjects(pmus[c].class, pmus[c].instances) \subseteq Reachable
    BY <1>1, InReachable
<1>8. QED
    BY <1>5, <1>6, <1>7

LEMMA LiveStep ==
    ASSUME TypedInv, PassInv, InstancesInv, ResultInv, LiveInv, [Next]_vars
    PROVE  LiveInv'
<1> DEFINE Objects == ClassObjects(classNr, instances)
<1>1. Dir \notin Reachable /\ Dir \notin Objects /\ Reachable \cap Objects = {}
    BY ReachableApart, ObjectsOfClass
<1>2. pmus' = pmus => Reachable' = Reachable
    BY DEF Reachable
<1>3. UNCHANGED <<classNr, instances>> => Objects' = Objects
    OBVIOUS
<1>4. instances = <<>> => Objects = {}
    BY NoInstances
<1> HIDE DEF Objects
<1>5. CASE Kernel
    <2>1. UNCHANGED <<pc, classNr, entry, instances, pmus, heap, ret>>
        BY <1>5 DEF Kernel, Vanish, Appear
    <2>2. QED
        BY <1>2, <1>3, <2>1 DEF LiveInv, Objects
<1>6. CASE Quiet
    <2>1. UNCHANGED <<classNr, instances, pmus>> /\ Objects' = Objects /\ Reachable' = Reachable
        BY <1>2, <1>3, <1>6, QuietStep
    <2>2. CASE FindMap \/ SkipEntry \/ ReadDir
        BY <2>1, <2>2 DEF FindMap, SkipEntry, ReadDir, LiveInv, Objects
    <2>7. CASE ReadCpus /\ pc' = "cpumask"
        <3>1. pc = "cpus" /\ heap' = heap /\ entry' = entry
            BY <2>7 DEF ReadCpus, SetCpus, pass
        <3>2. QED
            BY <2>1, <2>7, <3>1 DEF LiveInv, Objects
    <2>8. CASE UNCHANGED vars
        BY <2>1, <2>8 DEF vars, LiveInv, Objects
    <2>3. CASE OpenDir
        <3>1. heap' = heap \cup {Dir} /\ pc' = "readdir" /\ pc = "class"
            BY <2>3 DEF OpenDir
        <3>2. Objects = {}
            BY <1>4, <3>1 DEF PassInv
        <3>3. QED
            BY <2>1, <3>1, <3>2 DEF LiveInv, Objects
    <2>4. CASE EndOfDir
        BY <1>1, <2>1, <2>4 DEF EndOfDir, LiveInv, Objects
    <2>5. CASE Finish
        BY <2>1, <2>5 DEF Finish, LiveInv, Failed
    <2>6. QED
        BY <1>6, <2>2, <2>3, <2>4, <2>5, <2>7, <2>8 DEF Quiet
<1>7. CASE Added
    <2>1. PICK cs \in CpuSets : Grows(cs)
        BY <1>7, AddStep
    <2>2. entry \in Devices /\ pc = "entry" /\ classNr' = classNr /\ pmus' = pmus
        BY <1>7, AddStep
    <2>3. Objects' = Objects \cup {InstanceArray(classNr)} \cup InstanceObjects(classNr, entry)
        BY <2>1, <2>2, ObjectsGrow DEF Grows, Objects
    <2>4. Grown(entry) = Reachable \cup Objects' \cup {Dir}
        BY <2>2, <2>3 DEF Grown, LiveInv, Objects
    <2>5. Dir \notin Objects'
        BY ObjectsOfClass DEF Objects
    <2>6. \/ pc' = "store" /\ heap' = Grown(entry) \ {Dir}
          \/ pc' = "readdir" /\ heap' = Grown(entry)
          \/ pc' = "cpus" /\ heap' = Grown(entry) \ {<<"cpus", classNr, entry>>} /\ entry' = entry
        BY <1>7 DEF Added, AddCpu, AddCoreInstance, AddUncoreInstance, pass
    <2>7. QED
        BY <1>1, <1>2, <2>2, <2>4, <2>5, <2>6 DEF LiveInv, Objects
<1>8. CASE CpusSet
    <2>1. PICK cs \in CpuSets : Sets(cs)
        BY <1>8, SetStep
    <2>2. /\ pc \in {"cpus", "cpumask"} /\ pc' = "readdir" /\ classNr' = classNr /\ pmus' = pmus
          /\ heap' = Grown(entry)
        BY <1>8, SetStep
    <2>3. instances # <<>> /\ instances[Len(instances)].name = entry
        BY <2>2 DEF InstancesInv
    <2>4. /\ Len(instances) \in DOMAIN instances
          /\ DOMAIN instances' = DOMAIN instances
          /\ \A i \in DOMAIN instances : instances'[i].name = instances[i].name
        BY <2>1, <2>3, LastSet DEF Sets, TypedInv
    <2>5. Objects' = Objects
        BY <2>2, <2>3, <2>4, ObjectsByName DEF Objects
    <2>6. InstanceArray(classNr) \in Objects /\ InstanceObjects(classNr, entry) \subseteq Objects
        BY <2>3, <2>4, InClassObjects DEF Objects
    <2>7. <<"cpus", classNr, entry>> \in InstanceObjects(classNr, entry)
        BY DEF InstanceObjects
    <2>8. Grown(entry) = Reachable \cup Objects \cup {Dir}
        BY <2>2, <2>6, <2>7 DEF Grown, LiveInv, Objects
    <2>9. QED
        BY <1>2, <2>2, <2>5, <2>8 DEF LiveInv, Objects
<1>9. CASE GivenUp
    <2>1. pc' = "class" /\ pmus' = pmus
        BY <1>9 DEF GivenUp, OpenDirFails, GrowInstancesFails, DropClass, NextClass
    <2>2. heap' = Reachable
        <3>1. CASE OpenDirFails
            BY <3>1 DEF OpenDirFails, LiveInv
        <3>2. CASE GrowInstancesFails
            BY <1>1, <3>2 DEF GrowInstancesFails, LiveInv, Objects
        <3>3. CASE DropClass
            BY <1>4, <3>3 DEF DropClass, LiveInv, Objects
        <3>4. QED
            BY <1>9, <3>1, <3>2, <3>3 DEF GivenUp
    <2>3. QED
        BY <1>2, <2>1, <2>2 DEF LiveInv
<1>10. CASE AddClass
    <2>1. heap' = heap \cup {Classes} /\ heap = Reachable \cup Objects /\ pc' = "class"
        BY <1>10 DEF AddClass, NextClass, LiveInv, Objects
    <2>2. Reachable' = Reachable \cup Objects \cup {Classes}
        BY <1>10, ReachableGrows DEF Objects
    <2>3. QED
        BY <2>1, <2>2 DEF LiveInv
<1>11. CASE AddClassFails
    <2>1. CASE pmus = <<>>
        <3>1. Reachable = {} /\ pmus' = pmus
            BY <1>11, <2>1 DEF Reachable, AddClassFails
        <3>2. heap' = {} /\ pc' = "returned"
            BY <1>11, <2>1, <3>1 DEF AddClassFails, LiveInv
        <3>3. QED
            BY <1>2, <2>1, <3>1, <3>2 DEF LiveInv
    <2>2. CASE pmus # <<>>
        BY <1>11, <2>2 DEF AddClassFails, LiveInv
    <2>3. QED
        BY <2>1, <2>2
<1>12. CASE FreePmus
    <2>1. Reachable' = {} /\ pmus' = <<>>
        BY <1>12 DEF FreePmus, Reachable
    <2>2. heap' = {} /\ pc' = "freed"
        BY <1>12 DEF FreePmus, LiveInv
    <2>3. QED
        BY <2>1, <2>2 DEF LiveInv
<1>13. QED
    BY <1>5, <1>6, <1>7, <1>8, <1>9, <1>10, <1>11, <1>12, Cases

-----------------------------------------------------------------------------
(* Lemmas about the places of a device in the result. *)

PlacesIn(p, k, d) ==
    {pl \in UNION {{c} \X DOMAIN p[c].instances : c \in DOMAIN p} :
        p[pl[1]].class = k /\ p[pl[1]].instances[pl[2]].name = d}

LEMMA InPlaces ==
    /\ \A k, d : PlacesOf(k, d) = PlacesIn(pmus, k, d)
    /\ \A k, d : PlacesOf(k, d)' = PlacesIn(pmus', k, d)
    /\ \A p, k, d, pl : pl \in PlacesIn(p, k, d) <=>
          \E c \in DOMAIN p : \E i \in DOMAIN p[c].instances :
              pl = <<c, i>> /\ p[c].class = k /\ p[c].instances[i].name = d
<1>1. ASSUME NEW p, NEW k, NEW d, NEW pl
      PROVE  pl \in PlacesIn(p, k, d) <=>
                 \E c \in DOMAIN p : \E i \in DOMAIN p[c].instances :
                     pl = <<c, i>> /\ p[c].class = k /\ p[c].instances[i].name = d
    <2> DEFINE all == UNION {{c} \X DOMAIN p[c].instances : c \in DOMAIN p}
    <2>1. pl \in all <=> \E c \in DOMAIN p : pl \in {c} \X DOMAIN p[c].instances
        BY Zenon
    <2>2. \A c \in DOMAIN p : pl \in {c} \X DOMAIN p[c].instances <=>
              \E i \in DOMAIN p[c].instances : pl = <<c, i>>
        OBVIOUS
    <2>3. pl \in PlacesIn(p, k, d) <=>
              pl \in all /\ p[pl[1]].class = k /\ p[pl[1]].instances[pl[2]].name = d
        BY Zenon DEF PlacesIn
    <2> HIDE DEF all
    <2>4. \A c, i : pl = <<c, i>> => pl[1] = c /\ pl[2] = i
        OBVIOUS
    <2>5. QED
        BY <2>1, <2>2, <2>3, <2>4
<1>2. (\A k, d : PlacesOf(k, d) = PlacesIn(pmus, k, d))
      /\ (\A k, d : PlacesOf(k, d)' = PlacesIn(pmus', k, d))
    BY DEF PlacesOf, PlacesIn
<1>3. QED
    BY <1>1, <1>2

\* A class stands once in the result, and so does a device under it.
LEMMA OnePlaceIn ==
    ASSUME NEW p, NEW k, NEW d, NEW c \in DOMAIN p, NEW i \in DOMAIN p[c].instances,
           p[c].class = k, p[c].instances[i].name = d,
           NamesDiffer(p[c].instances),
           \A b \in DOMAIN p : p[b].class = p[c].class => b = c
    PROVE  PlacesIn(p, k, d) = {<<c, i>>} /\ Cardinality(PlacesIn(p, k, d)) = 1
<1>1. \A b \in DOMAIN p : \A j \in DOMAIN p[b].instances :
          p[b].class = k /\ p[b].instances[j].name = d => b = c /\ j = i
    BY DEF NamesDiffer
<1>2. \A pl : pl \in PlacesIn(p, k, d) <=>
          \E b \in DOMAIN p : \E j \in DOMAIN p[b].instances :
              pl = <<b, j>> /\ p[b].class = k /\ p[b].instances[j].name = d
    BY InPlaces
<1>3. PlacesIn(p, k, d) = {<<c, i>>}
    BY <1>1, <1>2
<1>4. QED
    BY <1>3, FS_Singleton

LEMMA OnePlace ==
    ASSUME ResultInv, NEW k, NEW d, NEW c \in DOMAIN pmus, NEW i \in DOMAIN pmus[c].instances,
           pmus[c].class = k, pmus[c].instances[i].name = d
    PROVE  PlacesOf(k, d) = {<<c, i>>} /\ Cardinality(PlacesOf(k, d)) = 1
<1>1. \A b \in DOMAIN pmus : \A j \in DOMAIN pmus[b].instances :
          pmus[b].class = k /\ pmus[b].instances[j].name = d => b = c /\ j = i
    BY DEF ResultInv, NamesDiffer
<1>2. \A pl : pl \in PlacesOf(k, d) <=>
          \E b \in DOMAIN pmus : \E j \in DOMAIN pmus[b].instances :
              pl = <<b, j>> /\ pmus[b].class = k /\ pmus[b].instances[j].name = d
    BY InPlaces
<1>3. PlacesOf(k, d) = {<<c, i>>}
    BY <1>1, <1>2
<1>4. QED
    BY <1>3, FS_Singleton

\* An added class leaves the places of the devices of the other classes.
LEMMA OtherPlaces ==
    ASSUME TypedInv, PassInv, AddClass, NEW k, k # classNr, NEW d
    PROVE  PlacesOf(k, d)' = PlacesOf(k, d)
<1> DEFINE n == Len(pmus)
<1>1. /\ n \in Nat /\ DOMAIN pmus = 1..n /\ DOMAIN pmus' = 1..(n + 1)
      /\ \A c \in 1..n : pmus'[c] = pmus[c]
      /\ pmus'[n + 1].class = classNr
    BY AddClassStep
<1>2. \A i : i \in 1..(n + 1) <=> i \in 1..n \/ i = n + 1
    BY <1>1
<1> HIDE DEF n
<1>3. \A pl : pl \in PlacesOf(k, d) <=>
          \E b \in 1..n : \E j \in DOMAIN pmus[b].instances :
              pl = <<b, j>> /\ pmus[b].class = k /\ pmus[b].instances[j].name = d
    BY <1>1, InPlaces
<1>4. \A pl : pl \in PlacesOf(k, d)' <=>
          \E b \in 1..(n + 1) : \E j \in DOMAIN pmus'[b].instances :
              pl = <<b, j>> /\ pmus'[b].class = k /\ pmus'[b].instances[j].name = d
    BY <1>1, InPlaces
<1>5. \A pl : pl \in PlacesOf(k, d)' <=> pl \in PlacesOf(k, d)
    BY <1>1, <1>2, <1>3, <1>4
<1>6. QED
    BY <1>5

\* The front and the rest of a sequence put together of two.
LEMMA FrontAndRest ==
    ASSUME NEW S, NEW c \in Seq(S), NEW tail \in Seq(S), NEW e, e = c \o tail
    PROVE  IsPrefix(c, e) /\ SubSeq(e, Len(c) + 1, Len(e)) = tail
<1>1. e \in Seq(S) /\ Len(e) = Len(c) + Len(tail)
      /\ \A i \in 1..(Len(c) + Len(tail)) :
             e[i] = IF i <= Len(c) THEN c[i] ELSE tail[i - Len(c)]
    BY ConcatProperties
<1>2. Len(c) \in Nat /\ Len(tail) \in Nat
    OBVIOUS
<1> DEFINE front == SubSeq(e, 1, Len(c))
           rest == SubSeq(e, Len(c) + 1, Len(e))
<1>3. front = c
    <2>1. \A i \in 1..Len(c) : e[i] \in S
        BY <1>1, <1>2
    <2>2. front \in Seq(S) /\ Len(front) = Len(c) /\ \A i \in 1..Len(c) : front[i] = e[i]
        BY <1>1, <1>2
    <2>3. \A i \in 1..Len(c) : front[i] = c[i]
        BY <1>1, <1>2, <2>2
    <2>4. QED
        BY <2>2, <2>3, SeqEqual
<1>4. rest = tail
    <2>1. rest \in Seq(S) /\ Len(rest) = Len(tail)
          /\ \A i \in 1..Len(tail) : rest[i] = e[Len(c) + i]
        BY <1>1, <1>2
    <2>2. \A i \in 1..Len(tail) : rest[i] = tail[i]
        <3> SUFFICES ASSUME NEW i \in 1..Len(tail)
                     PROVE  rest[i] = tail[i]
            OBVIOUS
        <3>1. Len(c) + i \in 1..(Len(c) + Len(tail)) /\ ~ (Len(c) + i <= Len(c))
              /\ (Len(c) + i) - Len(c) = i
            BY <1>2
        <3>2. e[Len(c) + i] = tail[i]
            BY <1>1, <3>1
        <3>3. QED
            BY <2>1, <3>2
    <2>3. QED
        BY <2>1, <2>2, SeqEqual
<1>5. SubSeq(c, 1, Len(c)) = c
    BY SubSeqFull
<1>6. QED
    BY <1>1, <1>2, <1>3, <1>4, <1>5 DEF IsPrefix

LEMMA MoreTokens ==
    ASSUME NEW S, NEW t, NEW s \in Seq(S)
    PROVE  s \in Seq(S \cup {t})
OBVIOUS

LEMMA TwoTokens ==
    ASSUME NEW S, NEW a \in S, NEW b \in S
    PROVE  <<a, b>> \in Seq(S)
OBVIOUS

\* A device that belongs to the class at hand passes the tests of its pass.
LEMMA BelongsMatches ==
    ASSUME TypedInv, PassInv, pc = "entry", entry \in always, BelongsTo(classNr, entry)
    PROVE  IsCpu \/ IsCoreInstance \/ IsUncoreInstance
<1> DEFINE c == Table[classNr]
           Tokens == STRING \cup {"_"}
<1>1. entry \in present /\ entry \in Devices /\ classNr \in DOMAIN Table
    BY DEF TypedInv, PassInv, InPass
<1>2. c \in Seq(Tokens) /\ entry \in Seq(Tokens)
    <2>1. c \in Seq(STRING) /\ entry \in Seq(STRING)
        BY <1>1, TableAssumption, DevicesAssumption
    <2>2. \A s \in Seq(STRING) : s \in Seq(Tokens)
        BY MoreTokens
    <2>3. QED
        BY <2>1, <2>2
<1>3. Numerals \subseteq Tokens /\ "_" \in Tokens
    BY NumeralsAssumption
<1> HIDE DEF Tokens
<1>4. CASE c = DefaultCore
    BY <1>1, <1>4 DEF BelongsTo, IsCpu, IsCoreInstance, ClassName, HasCpusFile, Readable
<1>5. ASSUME c # DefaultCore, NEW tail \in Seq(Tokens), entry = c \o tail,
             tail \in {<<>>, <<"_">>} \cup {<<"_", n>> : n \in Numerals}
      PROVE  IsUncoreInstance
    <2> HIDE DEF c
    <2>1. IsPrefix(c, entry) /\ SubSeq(entry, Len(c) + 1, Len(entry)) = tail
        BY <1>2, <1>5, FrontAndRest
    <2>2. InstanceOf(entry, c)
        BY <1>5, <2>1 DEF InstanceOf
    <2>3. QED
        BY <1>5, <2>2 DEF IsUncoreInstance, ClassName, c
<1>6. CASE c # DefaultCore /\ entry = c
    <2>1. <<>> \in Seq(Tokens) /\ entry = c \o <<>>
        BY <1>2, <1>6, ConcatEmptySeq, EmptySeq
    <2>2. QED
        BY <1>5, <1>6, <2>1
<1>7. ASSUME c # DefaultCore, NEW n \in Numerals, entry = c \o <<"_", n>>
      PROVE  IsUncoreInstance
    <2>1. <<"_", n>> \in Seq(Tokens)
        BY <1>3, <1>7, TwoTokens
    <2>2. QED
        BY <1>5, <1>7, <2>1
<1>8. QED
    BY <1>4, <1>6, <1>7 DEF BelongsTo

\* What belongs to a class now did so before, and what was there all the time.
LEMMA BelongsStep ==
    ASSUME TypedInv, [Next]_vars
    PROVE  /\ always' \subseteq always
           /\ \A k, d : BelongsTo(k, d)' => BelongsTo(k, d)
<1>1. files' = files /\ ever \subseteq ever' /\ always' \subseteq always
    BY GenuineStep
<1>2. QED
    BY <1>1 DEF BelongsTo, HasCpusFile

\* The parts of FoundInv.
FoundInPass ==
    /\ InPass => \A d \in always : BelongsTo(classNr, d) =>
          d \in unread \/ (pc = "entry" /\ d = entry) \/ Listed(d)
    /\ pc = "store" => \A d \in always : BelongsTo(classNr, d) => Listed(d)
FewMissed == pc # "freed" => Cardinality(MissedClasses) <= failures
AllVisited == pc = "returned" /\ (failures = 0 \/ ret = 0) => classNr > Len(Table)

LEMMA FoundInPassStep ==
    ASSUME TypedInv, PassInv, InstancesInv, FoundInPass, [Next]_vars
    PROVE  FoundInPass'
<1>1. always' \subseteq always /\ always \subseteq present
      /\ \A k, d : BelongsTo(k, d)' => BelongsTo(k, d)
    BY BelongsStep DEF TypedInv
<1>2. ASSUME UNCHANGED <<pc, classNr, entry, instances>>,
             \A d \in always' : d \in unread => d \in unread'
      PROVE  FoundInPass'
    <2>1. \A d : Listed(d)' <=> Listed(d)
        BY <1>2 DEF Listed
    <2>2. QED
        BY <1>1, <1>2, <2>1 DEF FoundInPass, InPass
<1>3. CASE pc' \notin {"readdir", "entry", "cpus", "cpumask", "store"}
    BY <1>3 DEF FoundInPass, InPass
<1>4. CASE Kernel
    BY <1>2, <1>4 DEF Kernel, Vanish, Appear
<1>5. CASE Quiet
    <2>1. UNCHANGED <<classNr, instances>>
        BY <1>5, QuietStep
    <2>2. \A d : Listed(d)' <=> Listed(d)
        BY <2>1 DEF Listed
    <2>3. CASE FindMap \/ Finish
        BY <1>3, <2>3 DEF FindMap, Finish
    <2>4. CASE OpenDir
        BY <1>1, <2>4 DEF OpenDir, FoundInPass
    <2>5. CASE ReadDir
        <3>1. PICK e \in unread : unread' = unread \ {e} /\ entry' = e
            BY <2>5 DEF ReadDir
        <3>2. pc = "readdir" /\ pc' = "entry"
            BY <2>5 DEF ReadDir
        <3>3. \A d \in always' : BelongsTo(classNr, d) => d \in unread \/ Listed(d)
            BY <1>1, <3>2 DEF FoundInPass, InPass
        <3>4. QED
            BY <1>1, <2>1, <2>2, <3>1, <3>2, <3>3 DEF FoundInPass
    <2>6. CASE EndOfDir
        <3>1. pc = "readdir" /\ pc' = "store" /\ unread = {}
            BY <2>6 DEF EndOfDir
        <3>2. QED
            BY <1>1, <2>1, <2>2, <3>1 DEF FoundInPass, InPass
    <2>7. CASE SkipEntry
        <3>1. pc = "entry" /\ pc' = "readdir" /\ unread' = unread
            BY <2>7 DEF SkipEntry, pass
        <3>2. ~ (entry \in always /\ BelongsTo(classNr, entry))
            BY <2>7, BelongsMatches DEF SkipEntry
        <3>3. QED
            BY <1>1, <2>1, <2>2, <3>1, <3>2 DEF FoundInPass, InPass
    <2>8. CASE ReadCpus /\ pc' = "cpumask"
        <3>1. pc = "cpus" /\ unread' = unread
            BY <2>8 DEF ReadCpus, pass
        <3>2. QED
            BY <1>1, <2>1, <2>2, <2>8, <3>1 DEF FoundInPass, InPass
    <2>9. CASE UNCHANGED vars
        BY <1>2, <2>9 DEF vars
    <2>10. QED
        BY <1>5, <2>3, <2>4, <2>5, <2>6, <2>7, <2>8, <2>9 DEF Quiet
<1>6. CASE Added
    <2>1. PICK cs \in CpuSets : Grows(cs)
        BY <1>6, AddStep
    <2>2. /\ pc = "entry" /\ entry \in Devices /\ entry \in ever
          /\ classNr' = classNr /\ always' = always
        BY <1>6, AddStep DEF env
    <2> DEFINE n == Len(instances)
    <2>3. /\ n \in Nat /\ DOMAIN instances = 1..n /\ DOMAIN instances' = 1..(n + 1)
          /\ \A i \in 1..n : instances'[i] = instances[i]
          /\ instances'[n + 1].name = entry
        BY <2>1, <2>2, OneMore DEF Grows, TypedInv
    <2>4. \A i \in 1..n : i \in 1..(n + 1)
        BY <2>3
    <2>5. n + 1 \in 1..(n + 1)
        BY <2>3
    <2> HIDE DEF n
    <2>6. \A d : d = entry \/ Listed(d) => Listed(d)'
        <3>1. ASSUME NEW d, d = entry
              PROVE  Listed(d)'
            BY <2>3, <2>5, <3>1 DEF Listed
        <3>2. ASSUME NEW d, Listed(d)
              PROVE  Listed(d)'
            <4>1. PICK i \in 1..n : instances[i].name = d
                BY <2>3, <3>2 DEF Listed
            <4>2. i \in DOMAIN instances' /\ instances'[i].name = d
                BY <2>3, <2>4, <4>1
            <4>3. QED
                BY <4>2 DEF Listed
        <3>3. QED
            BY <3>1, <3>2
    <2>7. CASE AddCpu
        <3>1. Table[classNr] = DefaultCore /\ entry = CpuDevice /\ pc' = "store"
            BY <2>7 DEF AddCpu, IsCpu, ClassName
        <3>2. \A d \in always : BelongsTo(classNr, d) => d = entry
            BY <2>2, <3>1 DEF BelongsTo
        <3>3. QED
            BY <1>1, <2>2, <2>6, <3>1, <3>2 DEF FoundInPass, InPass
    <2>8. CASE AddCoreInstance \/ AddUncoreInstance
        <3>1. pc' \in {"readdir", "cpus"} /\ unread' = unread
            BY <2>8 DEF AddCoreInstance, AddUncoreInstance, pass
        <3>2. \A d \in always : BelongsTo(classNr, d) => d \in unread \/ d = entry \/ Listed(d)
            BY <2>2 DEF FoundInPass, InPass
        <3>3. \A d \in always' : BelongsTo(classNr, d)' => d \in unread' \/ Listed(d)'
            BY <1>1, <2>2, <2>6, <3>1, <3>2
        <3>4. QED
            BY <2>2, <3>1, <3>3 DEF FoundInPass
    <2>9. QED
        BY <1>6, <2>7, <2>8 DEF Added
<1>7. CASE CpusSet
    <2>1. PICK cs \in CpuSets : Sets(cs)
        BY <1>7, SetStep
    <2>2. /\ pc \in {"cpus", "cpumask"} /\ pc' = "readdir" /\ classNr' = classNr /\ unread' = unread
        BY <1>7, SetStep DEF pass
    <2>3. instances # <<>>
        BY <2>2 DEF InstancesInv
    <2>4. /\ DOMAIN instances' = DOMAIN instances
          /\ \A i \in DOMAIN instances : instances'[i].name = instances[i].name
        BY <2>1, <2>3, LastSet DEF Sets, TypedInv
    <2>5. \A d : Listed(d) => Listed(d)'
        BY <2>4 DEF Listed
    <2>6. QED
        BY <1>1, <2>2, <2>5 DEF FoundInPass, InPass
<1>8. CASE GivenUp \/ AddClass
    BY <1>3, <1>8 DEF GivenUp, OpenDirFails, GrowInstancesFails, DropClass, AddClass, NextClass
<1>9. CASE AddClassFails \/ FreePmus
    BY <1>3, <1>9 DEF AddClassFails, FreePmus
<1>10. QED
    BY <1>4, <1>5, <1>6, <1>7, <1>8, <1>9, Cases

LEMMA AllVisitedStep ==
    ASSUME TypedInv, AllVisited, [Next]_vars
    PROVE  AllVisited'
<1>1. CASE Finish
    BY <1>1 DEF Finish, AllVisited
<1>2. CASE AddClassFails
    <2>1. failures' # 0 /\ (pc' = "returned" => ret' # 0)
        BY <1>2 DEF AddClassFails, TypedInv, Failed
    <2>2. QED
        BY <2>1 DEF AllVisited
<1>3. CASE UNCHANGED vars
    BY <1>3 DEF vars, AllVisited
<1>4. CASE Kernel
    BY <1>4 DEF Kernel, Vanish, Appear, AllVisited, Active
<1>5. CASE pc' # "returned"
    BY <1>5 DEF AllVisited
<1>6. QED
    BY <1>1, <1>2, <1>3, <1>4, <1>5
    DEF Next, Step, FindMap, OpenDir, OpenDirFails, ReadDir, EndOfDir, SkipEntry, AddCpu,
        AddCoreInstance, AddUncoreInstance, ReadCpus, ReadCpumask, SetCpus, GrowInstancesFails,
        DropClass, AddClass, FreePmus, NextClass

\* A class that is not missed before a step is not missed behind it, where the
\* places of its devices are what they were.
LEMMA MissedStep ==
    ASSUME TypedInv, [Next]_vars
    PROVE  \A k : (\A d : PlacesOf(k, d)' = PlacesOf(k, d)) /\ Missed(k)' => Missed(k)
BY BelongsStep DEF Missed

LEMMA ClassesFinite ==
    /\ \A S : S \subseteq DOMAIN Table => IsFiniteSet(S) /\ Cardinality(S) \in Nat
    /\ \A S, T : S \subseteq T /\ T \subseteq DOMAIN Table => Cardinality(S) <= Cardinality(T)
    /\ \A S, T, k : S \subseteq T \cup {k} /\ T \subseteq DOMAIN Table /\ k \in DOMAIN Table =>
          Cardinality(S) <= Cardinality(T) + 1
<1>1. IsFiniteSet(DOMAIN Table)
    <2>1. Table \in Seq(Seq(STRING))
        BY TableAssumption
    <2>2. Len(Table) \in Nat /\ DOMAIN Table = 1..Len(Table)
        BY <2>1
    <2>3. QED
        BY <2>2, FS_Interval
<1>2. \A S : S \subseteq DOMAIN Table => IsFiniteSet(S) /\ Cardinality(S) \in Nat
    BY <1>1, FS_Subset, FS_CardinalityType
<1>3. \A S, T : S \subseteq T /\ T \subseteq DOMAIN Table => Cardinality(S) <= Cardinality(T)
    BY <1>2, FS_Subset
<1>4. ASSUME NEW S, NEW T, NEW k, S \subseteq T \cup {k}, T \subseteq DOMAIN Table, k \in DOMAIN Table
      PROVE  Cardinality(S) <= Cardinality(T) + 1
    <2>1. IsFiniteSet(T) /\ Cardinality(T) \in Nat
        BY <1>2, <1>4
    <2>2. Cardinality(T \cup {k}) \in {Cardinality(T), Cardinality(T) + 1}
        BY <2>1, FS_AddElement
    <2>3. T \cup {k} \subseteq DOMAIN Table
        BY <1>4
    <2>4. Cardinality(S) <= Cardinality(T \cup {k}) /\ Cardinality(S) \in Nat
        BY <1>2, <1>3, <1>4, <2>3
    <2>5. QED
        BY <2>1, <2>2, <2>4
<1>5. QED
    BY <1>2, <1>3, <1>4

\* Each class that is missed has cost a failure.
LEMMA FewMissedStep ==
    ASSUME TypedInv, PassInv, InstancesInv, ResultInv, ResultInv', FoundInPass, FewMissed, [Next]_vars
    PROVE  FewMissed'
<1>1. \A k : (\A d : PlacesOf(k, d)' = PlacesOf(k, d)) /\ Missed(k)' => Missed(k)
    BY MissedStep
<1>2. \A k \in MissedClasses' : k \in DOMAIN Table /\ k < classNr' /\ Missed(k)'
    BY DEF MissedClasses
<1>3. MissedClasses \subseteq DOMAIN Table /\ MissedClasses' \subseteq DOMAIN Table
      /\ Cardinality(MissedClasses) \in Nat /\ Cardinality(MissedClasses') \in Nat
    BY ClassesFinite DEF MissedClasses
<1>4. classNr \in Nat /\ failures \in Nat /\ \A k \in DOMAIN Table : k \in Nat
    BY TableAssumption DEF TypedInv
<1>5. ASSUME MissedClasses' \subseteq MissedClasses, failures' = failures \/ failures' = failures + 1,
             pc # "freed"
      PROVE  FewMissed'
    <2>1. Cardinality(MissedClasses') <= Cardinality(MissedClasses)
        BY <1>3, <1>5, ClassesFinite
    <2>2. Cardinality(MissedClasses) <= failures
        BY <1>5 DEF FewMissed
    <2>3. Cardinality(MissedClasses') <= failures'
        BY <1>3, <1>4, <1>5, <2>1, <2>2
    <2>4. QED
        BY <2>3 DEF FewMissed
<1>6. ASSUME pmus' = pmus
      PROVE  \A k : Missed(k)' => Missed(k)
    <2>1. \A k, d : PlacesOf(k, d)' = PlacesOf(k, d)
        BY <1>6, InPlaces
    <2>2. QED
        BY <1>1, <2>1
<1>7. CASE pc = "freed"
    BY <1>7 DEF Next, Step, Kernel, Vanish, Appear, Active, FindMap, OpenDir, OpenDirFails, ReadDir,
                EndOfDir, SkipEntry, AddCpu, AddCoreInstance, AddUncoreInstance, ReadCpus, ReadCpumask,
                GrowInstancesFails, DropClass, AddClass, AddClassFails, Finish, FreePmus, vars, FewMissed
<1>8. CASE pc # "freed" /\ pmus' = pmus /\ classNr' = classNr
           /\ (failures' = failures \/ failures' = failures + 1)
    <2>1. MissedClasses' \subseteq MissedClasses
        BY <1>6, <1>8 DEF MissedClasses
    <2>2. QED
        BY <1>5, <1>8, <2>1
<1>9. CASE OpenDirFails \/ GrowInstancesFails
    <2>1. pmus' = pmus /\ classNr' = classNr + 1 /\ failures' = failures + 1
          /\ pc # "freed"
        BY <1>9 DEF OpenDirFails, GrowInstancesFails, NextClass
    <2>2. classNr \in DOMAIN Table
        BY <1>9, TableAssumption DEF OpenDirFails, GrowInstancesFails, PassInv, InPass, TypedInv
    <2>3. \A k \in MissedClasses' : k \in MissedClasses \/ k = classNr
        <3>1. \A k \in MissedClasses' : k < classNr \/ k = classNr
            BY <1>2, <1>4, <2>1
        <3>2. QED
            BY <1>2, <1>6, <2>1, <3>1 DEF MissedClasses
    <2>4. Cardinality(MissedClasses') <= Cardinality(MissedClasses) + 1
        BY <1>3, <2>2, <2>3, ClassesFinite
    <2>5. Cardinality(MissedClasses) <= failures
        BY <2>1 DEF FewMissed
    <2>6. Cardinality(MissedClasses') <= failures'
        BY <1>3, <1>4, <2>1, <2>4, <2>5
    <2>7. QED
        BY <2>6 DEF FewMissed
<1>10. CASE DropClass
    <2>1. pmus' = pmus /\ classNr' = classNr + 1 /\ failures' = failures
          /\ pc = "store" /\ instances = <<>>
        BY <1>10 DEF DropClass, NextClass
    <2>2. \A d : ~ Listed(d)
        BY <2>1 DEF Listed
    <2>3. ~ Missed(classNr)
        BY <2>1, <2>2 DEF FoundInPass, Missed
    <2>4. MissedClasses' \subseteq MissedClasses
        <3>1. \A k \in MissedClasses' : Missed(k)
            BY <1>2, <1>6, <2>1
        <3>2. \A k \in MissedClasses' : k < classNr
            BY <1>2, <1>4, <2>1, <2>3, <3>1
        <3>3. QED
            BY <1>2, <3>1, <3>2 DEF MissedClasses
    <2>5. QED
        BY <1>5, <2>1, <2>4
<1>11. CASE AddClass
    <2>1. classNr' = classNr + 1 /\ failures' = failures /\ pc = "store"
        BY <1>11 DEF AddClass, NextClass
    <2> DEFINE n == Len(pmus)
    <2>2. /\ n \in Nat /\ DOMAIN pmus' = 1..(n + 1)
          /\ pmus'[n + 1].class = classNr
          /\ pmus'[n + 1].instances = instances
        BY <1>11, AddClassStep
    <2>3. n + 1 \in DOMAIN pmus'
        BY <2>2
    <2> HIDE DEF n
    <2>4. \A d : Listed(d) => Cardinality(PlacesIn(pmus', classNr, d)) = 1
        <3>1. ASSUME NEW d, NEW i \in DOMAIN instances, instances[i].name = d
              PROVE  Cardinality(PlacesIn(pmus', classNr, d)) = 1
            <4>1. i \in DOMAIN pmus'[n + 1].instances /\ pmus'[n + 1].instances[i].name = d
                BY <2>2, <3>1
            <4>2. NamesDiffer(pmus'[n + 1].instances)
                BY <2>3 DEF ResultInv, NamesDiffer
            <4>3. \A b \in DOMAIN pmus' : pmus'[b].class = pmus'[n + 1].class => b = n + 1
                BY <2>3 DEF ResultInv
            <4>4. QED
                BY <2>2, <2>3, <4>1, <4>2, <4>3, OnePlaceIn
        <3>2. QED
            BY <3>1 DEF Listed
    <2>5. \A k, d : k = classNr /\ d \in always' /\ BelongsTo(k, d)' => Listed(d)
        BY <2>1, BelongsStep DEF FoundInPass
    <2>6. ASSUME NEW k, k = classNr
          PROVE  ~ Missed(k)'
        <3>1. \A d \in always' : BelongsTo(k, d)' => Cardinality(PlacesIn(pmus', k, d)) = 1
            BY <2>4, <2>5, <2>6
        <3>2. \A d : PlacesOf(k, d)' = PlacesIn(pmus', k, d)
            BY InPlaces
        <3>3. QED
            BY <3>1, <3>2 DEF Missed
    <2>7. MissedClasses' \subseteq MissedClasses
        <3>1. \A k \in MissedClasses' : k < classNr /\ k # classNr
            BY <1>2, <1>4, <2>1, <2>6
        <3>2. \A k \in MissedClasses' : Missed(k)
            BY <1>1, <1>2, <1>11, <3>1, OtherPlaces
        <3>3. QED
            BY <1>2, <3>1, <3>2 DEF MissedClasses
    <2>8. QED
        BY <1>5, <2>1, <2>7
<1>12. CASE FreePmus
    BY <1>12 DEF FreePmus, FewMissed
<1>13. QED
    BY <1>7, <1>8, <1>9, <1>10, <1>11, <1>12
    DEF Next, Step, Kernel, Vanish, Appear, FindMap, OpenDir, ReadDir, EndOfDir, SkipEntry, AddCpu,
        AddCoreInstance, AddUncoreInstance, ReadCpus, ReadCpumask, AddClassFails, Finish, vars

LEMMA FoundStep ==
    ASSUME TypedInv, PassInv, InstancesInv, ResultInv, ResultInv', FoundInv, [Next]_vars
    PROVE  FoundInv'
<1>1. FoundInPass /\ FewMissed /\ AllVisited
    BY DEF FoundInv, FoundInPass, FewMissed, AllVisited
<1>2. FoundInPass' /\ FewMissed' /\ AllVisited'
    BY <1>1, FoundInPassStep, FewMissedStep, AllVisitedStep
<1>3. QED
    BY <1>2 DEF FoundInv, FoundInPass, FewMissed, AllVisited

-----------------------------------------------------------------------------
(* The invariant and its theorems. *)

LEMMA Start ==
    ASSUME Init
    PROVE  IInv
<1>1. /\ present \in SUBSET Devices /\ files \in FileSets /\ online \in Onlines
      /\ always = present /\ ever = present /\ pc = "map" /\ classNr = 1 /\ unread = {}
      /\ given = {} /\ instances = <<>> /\ pmus = <<>> /\ heap = {} /\ failures = 0
      /\ ret = Running
    BY DEF Init
<1>2. DOMAIN instances = {} /\ DOMAIN pmus = {} /\ instances \in Seq(InstanceSet) /\ pmus \in Seq(ClassSet)
    BY <1>1, EmptySeq
<1>3. TypedInv
    BY <1>1, <1>2 DEF TypedInv
<1>4. PassInv
    BY <1>1 DEF PassInv, InPass
<1>5. InstancesInv
    BY <1>1, <1>2 DEF InstancesInv, NamesDiffer, AllGenuine, InPass
<1>6. ResultInv
    BY <1>2 DEF ResultInv
<1>7. CpusInv
    <2>1. Len(instances) = 0
        BY <1>1
    <2>2. CpusRight(instances, Len(instances))
        BY <2>1 DEF CpusRight
    <2>3. QED
        BY <1>1, <1>2, <2>2 DEF CpusInv
<1>8. LiveInv
    BY <1>1, <1>2 DEF LiveInv, Reachable
<1>9. FoundInv
    <2>1. MissedClasses = {}
        <3>1. \A k \in DOMAIN Table : ~ (k < 1)
            BY TableAssumption
        <3>2. QED
            BY <1>1, <3>1 DEF MissedClasses
    <2>2. Cardinality(MissedClasses) = 0
        BY <2>1, FS_EmptySet
    <2>3. QED
        BY <1>1, <2>2 DEF FoundInv, InPass
<1>10. QED
    BY <1>3, <1>4, <1>5, <1>6, <1>7, <1>8, <1>9 DEF IInv

LEMMA Invariance == Spec => []IInv
<1>1. Init => IInv
    BY Start
<1>2. IInv /\ [Next]_vars => IInv'
    <2> SUFFICES ASSUME IInv, [Next]_vars
                 PROVE  IInv'
        OBVIOUS
    <2> USE DEF IInv
    <2>1. TypedInv' /\ PassInv'
        BY TypedStep, PassStep
    <2>2. InstancesInv' /\ ResultInv'
        BY InstancesStep, ResultStep
    <2>3. CpusInv' /\ LiveInv'
        BY CpusStep, LiveStep
    <2>4. FoundInv'
        BY <2>2, FoundStep
    <2>5. QED
        BY <2>1, <2>2, <2>3, <2>4
<1>3. QED
    BY <1>1, <1>2, PTL DEF Spec

(***************************************************************************)
(* Every instance get_pmus lists was a directory at some time of the call, *)
(* belongs to its class, directories beside "cpu" and a bare underscore    *)
(* left out, stands there once, and no class is listed without one.        *)
(***************************************************************************)
THEOREM InstancesAlwaysGenuine == Spec => []InstancesAreGenuine
<1>1. IInv => InstancesAreGenuine
    <2> SUFFICES ASSUME IInv
                 PROVE  InstancesAreGenuine
        OBVIOUS
    <2>1. \A c \in DOMAIN pmus : pmus[c].instances # <<>>
        BY DEF IInv, ResultInv
    <2>2. ASSUME NEW k \in DOMAIN Table, NEW d \in Devices, PlacesOf(k, d) # {}
          PROVE  /\ Cardinality(PlacesOf(k, d)) = 1
                 /\ d \in ever
                 /\ ~ BesideCpu(k, d) /\ d # Table[k] \o <<"_">> => BelongsTo(k, d)
        <3>1. PICK c \in DOMAIN pmus : \E i \in DOMAIN pmus[c].instances :
                  pmus[c].class = k /\ pmus[c].instances[i].name = d
            BY <2>2, InPlaces
        <3>2. PICK i \in DOMAIN pmus[c].instances :
                  pmus[c].class = k /\ pmus[c].instances[i].name = d
            BY <3>1
        <3>3. Cardinality(PlacesOf(k, d)) = 1
            BY <3>2, OnePlace DEF IInv
        <3>4. Genuine(k, d)
            BY <3>2 DEF IInv, ResultInv, AllGenuine
        <3>5. QED
            BY <3>3, <3>4 DEF Genuine, BelongsTo, BesideCpu
    <2>3. QED
        BY <2>1, <2>2 DEF InstancesAreGenuine
<1>2. QED
    BY <1>1, Invariance, PTL

(***************************************************************************)
(* The CPUs of an uncore instance whose device is there all the time are   *)
(* those of its cpus or cpumask file whenever one of them holds a list,    *)
(* and all CPUs if it has neither file and no CPU is offline.              *)
(***************************************************************************)
THEOREM CpusAlwaysAsPublished == Spec => []CpusAsPublished
<1>1. IInv => CpusAsPublished
    <2> SUFFICES ASSUME IInv, NEW k \in DOMAIN Table, NEW d \in always, NEW pl \in PlacesOf(k, d),
                        Table[k] # DefaultCore
                 PROVE  pmus[pl[1]].instances[pl[2]].cpus = Published(d)
        <3>1. \A d \in always : HasCpusFile(d) => Published(d) = files[d].cpus
            BY DEF Published
        <3>2. \A d \in always : ~ HasCpusFile(d) /\ files[d].cpumask \notin {NoFile, {}} =>
                  Published(d) = files[d].cpumask
            BY DEF Published
        <3>3. \A d \in always : HasNoFile(d) /\ online = 0..(Cardinality(online) - 1) =>
                  Published(d) = online
            BY DEF Published, HasNoFile, HasCpusFile, AllCpus
        <3>4. QED
            BY <3>1, <3>2, <3>3 DEF CpusAsPublished
    <2>1. PICK c \in DOMAIN pmus : \E i \in DOMAIN pmus[c].instances :
              pl = <<c, i>> /\ pmus[c].class = k /\ pmus[c].instances[i].name = d
        BY InPlaces
    <2>2. PICK i \in DOMAIN pmus[c].instances :
              pl = <<c, i>> /\ pmus[c].class = k /\ pmus[c].instances[i].name = d
        BY <2>1
    <2>3. CpusRight(pmus[c].instances, Len(pmus[c].instances))
        BY <2>2 DEF IInv, CpusInv
    <2>4. DOMAIN pmus[c].instances = 1..Len(pmus[c].instances)
        <3>1. pmus[c] \in ClassSet
            BY DEF IInv, TypedInv
        <3>2. pmus[c].instances \in Seq(InstanceSet)
            BY <3>1 DEF ClassSet
        <3>3. QED
            BY <3>2
    <2>5. pmus[c].instances[i].cpus = Published(d)
        BY <2>2, <2>3, <2>4 DEF CpusRight
    <2>6. QED
        BY <2>2, <2>5
<1>2. QED
    BY <1>1, Invariance, PTL

(***************************************************************************)
(* What is live when get_pmus has returned is what free_pmus reaches, and  *)
(* nothing is live after a failure or after free_pmus.                     *)
(***************************************************************************)
THEOREM HeapAlwaysReachable == Spec => []HeapIsReachable
<1>1. IInv => HeapIsReachable
    <2> SUFFICES ASSUME IInv, pc \in {"returned", "freed"}
                 PROVE  heap = Reachable /\ (ret = Failed => heap = {})
        BY DEF HeapIsReachable
    <2>1. heap = Reachable
        BY DEF IInv, LiveInv
    <2>2. pmus = <<>> => Reachable = {}
        BY DEF Reachable
    <2>3. ret = Failed => pmus = <<>>
        BY DEF IInv, LiveInv
    <2>4. QED
        BY <2>1, <2>2, <2>3
<1>2. QED
    BY <1>1, Invariance, PTL

(***************************************************************************)
(* A device that is there all through the call is found exactly once under *)
(* every class it belongs to, and a failing realloc or opendir costs a     *)
(* result reported as success at most one class.                           *)
(***************************************************************************)
THEOREM StableDevicesAlwaysFound == Spec => []StableDevicesFound
<1>1. IInv => StableDevicesFound
    <2> SUFFICES ASSUME IInv, pc = "returned", failures = 0 \/ ret = 0
                 PROVE  Cardinality({k \in DOMAIN Table :
                            \E d \in always : BelongsTo(k, d) /\ Cardinality(PlacesOf(k, d)) # 1})
                                <= failures
        BY DEF StableDevicesFound
    <2>1. classNr > Len(Table) /\ Cardinality(MissedClasses) <= failures
        BY DEF IInv, FoundInv
    <2>2. \A k \in DOMAIN Table : k < classNr
        BY <2>1, TableAssumption DEF IInv, TypedInv
    <2>3. MissedClasses = {k \in DOMAIN Table :
              \E d \in always : BelongsTo(k, d) /\ Cardinality(PlacesOf(k, d)) # 1}
        BY <2>2 DEF MissedClasses, Missed
    <2>4. QED
        BY <2>1, <2>3
<1>2. QED
    BY <1>1, Invariance, PTL
=============================================================================
