---------------------------- MODULE ReadEventProofs ----------------------------
(***************************************************************************)
(* Theorems about read_event, for every set of devices and tables, every   *)
(* order in which devices come and go, and any number of failing calls.    *)
(***************************************************************************)
EXTENDS ReadEvent, FiniteSetTheorems, SequenceTheorems, TLAPS

AllEntries == UNION {ToSet(Entries[d]) : d \in Devices}
EventsFound ==
    [device : Devices, entry : AllEntries, type : Types \cup {Absent}, fd : Nat]
Counters == [device : Devices, entry : AllEntries, stayed : BOOLEAN]

Counting == {"loop", "read", "leave"}

TypeOK ==
    /\ typeOf \in [Devices -> Types \cup {Absent}]
    /\ kept \subseteq Devices
    /\ pc \in {"pmus", "search", "attr", "open", "returned", "killed"} \cup Counting
    /\ pmus \in Seq(Devices)
    /\ n \in Nat \ {0} /\ x \in Nat \ {0}
    /\ evs \in Seq(EventsFound)
    /\ counters \in Seq(Counters)
    /\ heap \subseteq {"pmus", "evs"}
    /\ handler \in BOOLEAN /\ stop \in BOOLEAN

-----------------------------------------------------------------------------
\* Two devices that are there have different numbers.
TypesDistinct ==
    \A d, e \in Devices : typeOf[d] = typeOf[e] => d = e \/ typeOf[d] = Absent

\* evs holds one event, the right one, for each of the first m instances whose
\* table has it, and no other.
Searched(m) ==
    /\ \A i \in DOMAIN evs :
        /\ Offers(evs[i].device, ev)
        /\ evs[i].entry = FirstEntry(evs[i].device, ev)
        /\ \E p \in 1..m : pmus[p] = evs[i].device
    /\ \A p \in 1..m : Offers(pmus[p], ev) => \E i \in DOMAIN evs : evs[i].device = pmus[p]
    /\ \A i, j \in DOMAIN evs : evs[i].device = evs[j].device => i = j

SearchInv ==
    /\ pc = "pmus" => pmus = <<>> /\ evs = <<>> /\ n = 1 /\ x = 1
    /\ \A p, q \in DOMAIN pmus : pmus[p] = pmus[q] => p = q
    /\ pc = "search" =>
        /\ n <= Len(pmus) + 1
        /\ Searched(n - 1)
        /\ n <= Len(pmus) =>
            /\ x <= Len(Entries[pmus[n]]) + 1
            /\ \A k \in 1..(x - 1) : Entries[pmus[n]][k].name # ev
    /\ pc \in {"attr", "open"} \cup Counting => evs # <<>> /\ Searched(Len(pmus))

\* An attr has the number of its device as long as that has not gone away.
KeptInv ==
    \A i \in DOMAIN evs :
        evs[i].type # Absent /\ evs[i].device \in kept => typeOf[evs[i].device] = evs[i].type

TypedInv ==
    /\ pc = "search" => \A i \in DOMAIN evs : evs[i].type = Absent
    /\ pc = "attr" =>
        /\ n <= Len(evs) + 1
        /\ \A i \in DOMAIN evs : evs[i].type # Absent <=> i < n
    /\ pc \in {"open"} \cup Counting => AllTyped

CounterInv ==
    /\ pc \in {"pmus", "search", "attr"} => counters = <<>>
    /\ pc = "open" => n = Len(counters) + 1
    /\ pc \in Counting => Len(counters) = Len(evs)
    /\ Len(counters) <= Len(evs)
    /\ \A i \in DOMAIN counters :
        /\ evs[i].fd = i
        /\ Offers(evs[i].device, ev)
        /\ counters[i].entry = FirstEntry(evs[i].device, ev)
        /\ counters[i].stayed => counters[i].device = evs[i].device

HeapInv ==
    /\ pc = "pmus" => heap = {}
    /\ pc = "search" =>
        /\ "pmus" \in heap <=> pmus # <<>>
        /\ "evs" \in heap <=> evs # <<>>
    /\ handler => pc \in Counting \cup {"returned"}
    /\ pc \in Counting => handler
    /\ ReleasedOnExit

IInv ==
    /\ TypeOK
    /\ TypesDistinct
    /\ SearchInv
    /\ KeptInv
    /\ TypedInv
    /\ CounterInv
    /\ HeapInv

-----------------------------------------------------------------------------
\* The instances in any order are a sequence of devices, each of them once.
LEMMA OrdersOfPresent ==
    ASSUME NEW order \in SetToSeqs(Present)
    PROVE  /\ order \in Seq(Devices)
           /\ \A p, q \in DOMAIN order : order[p] = order[q] => p = q
<1>1. Present \in SUBSET Devices
    BY DEF Present
<1>2. Cardinality(Present) \in Nat
    BY <1>1, DevicesAssumption, FS_Subset, FS_CardinalityType
<1>3. order \in [1..Cardinality(Present) -> Present]
    BY DEF SetToSeqs
<1>4. order \in Seq(Devices)
    BY <1>1, <1>2, <1>3, SeqDef
<1>5. QED
    BY <1>3, <1>4 DEF SetToSeqs

\* The entry the search has reached is one of the tables.
LEMMA EntryRead ==
    ASSUME TypeOK, n <= Len(pmus), x <= Len(Entries[pmus[n]])
    PROVE  /\ pmus[n] \in Devices
           /\ Entry \in AllEntries
           /\ x \in DOMAIN Entries[pmus[n]]
<1>1. pmus[n] \in Devices
    BY DEF TypeOK
<1>2. x \in DOMAIN Entries[pmus[n]]
    BY <1>1, EntriesAssumption DEF TypeOK
<1>3. QED
    BY <1>1, <1>2 DEF Entry, AllEntries, ToSet

LEMMA TypeInit == Init => TypeOK
<1> SUFFICES ASSUME Init
             PROVE  TypeOK
    OBVIOUS
<1>1. typeOf \in [Devices -> Types \cup {Absent}]
    BY DEF Init
<1>2. pmus \in Seq(Devices) /\ evs \in Seq(EventsFound) /\ counters \in Seq(Counters)
    BY DEF Init
<1>3. handler \in BOOLEAN /\ stop \in BOOLEAN
    BY DEF Init
<1>5. heap \subseteq {"pmus", "evs"} /\ kept \subseteq Devices
    BY DEF Init
<1>4. QED
    BY <1>1, <1>2, <1>3, <1>5 DEF Init, TypeOK

(***************************************************************************)
(* Type correctness: in particular evs and counters are sequences of       *)
(* whole events, and what is allocated are pmus and evs.                   *)
(***************************************************************************)
THEOREM TypeCorrect == Spec => []TypeOK
<1>2. TypeOK /\ [Next]_vars => TypeOK'
    <2> SUFFICES ASSUME TypeOK, [Next]_vars
                 PROVE  TypeOK'
        OBVIOUS
    <2> USE DEF TypeOK, Counting, kernel, signals
    <2>1. CASE GetPmus
        <3>1. pmus' \in Seq(Devices)
            BY <2>1, OrdersOfPresent DEF GetPmus
        <3>2. QED
            BY <2>1, <3>1 DEF GetPmus
    <2>2. CASE DecodeOther
        BY <2>2 DEF DecodeOther
    <2>3. CASE DecodeFound
        <3>1. pmus[n] \in Devices /\ Entry \in AllEntries
            BY <2>3, EntryRead DEF DecodeFound
        <3>2. evs' \in Seq(EventsFound)
            BY <2>3, <3>1 DEF DecodeFound, Keep, EventsFound
        <3>3. QED
            BY <2>3, <3>2 DEF DecodeFound, Keep
    <2>4. CASE NotFound
        BY <2>4 DEF NotFound
    <2>5. CASE SearchEnds
        <3>1. pc' \in {"returned", "attr"} /\ heap' \subseteq {"pmus", "evs"}
            BY <2>5 DEF SearchEnds
        <3>2. QED
            BY <2>5, <3>1 DEF SearchEnds
    <2>6. CASE GenAttr
        <3>1. n \in 1..Len(evs) /\ evs[n] \in EventsFound /\ evs[n].device \in Devices
            BY <2>6 DEF GenAttr, Present
        <3>. DEFINE e == Cleared(evs[n], typeOf[evs[n].device])
        <3>3. e \in EventsFound
            BY <3>1 DEF Cleared, EventsFound
        <3>4. evs' = [evs EXCEPT ![n] = e]
            BY <2>6 DEF GenAttr
        <3>. HIDE DEF e
        <3>5. evs' \in Seq(EventsFound)
            BY <3>1, <3>3, <3>4, ExceptSeq
        <3>2. kept' \subseteq Devices
            BY <2>6 DEF GenAttr, Present
        <3>6. QED
            BY <2>6, <3>2, <3>5 DEF GenAttr
    <2>7. CASE GenAttrFails
        BY <2>7 DEF GenAttrFails
    <2>8. CASE AttrsMade
        BY <2>8 DEF AttrsMade
    <2>9. CASE Open
        <3>1. n \in 1..Len(evs) /\ evs[n] \in EventsFound /\ Len(counters) + 1 \in Nat
            BY <2>9 DEF Open
        <3>. DEFINE e == Opened(evs[n], Len(counters) + 1)
        <3>2. e \in EventsFound
            BY <3>1 DEF Opened, EventsFound
        <3>3. evs' = [evs EXCEPT ![n] = e]
            BY <2>9 DEF Open
        <3>. HIDE DEF e
        <3>4. evs' \in Seq(EventsFound)
            BY <3>1, <3>2, <3>3, ExceptSeq
        <3>5. PICK d \in Present :
                  counters' = Append(counters, Counter(evs[n], d))
            BY <2>9 DEF Open
        <3>6. Counter(evs[n], d) \in Counters
            BY <3>1, <3>5 DEF Counter, Counters, Present, EventsFound
        <3>7. counters' \in Seq(Counters)
            BY <3>5, <3>6, AppendProperties
        <3>8. QED
            BY <2>9, <3>4, <3>7 DEF Open
    <2>10. CASE OpenFails
        BY <2>10 DEF OpenFails
    <2>11. CASE StartReading
        BY <2>11 DEF StartReading
    <2>12. CASE TestStop
        BY <2>12 DEF TestStop
    <2>13. CASE ReadCounter
        BY <2>13 DEF ReadCounter
    <2>14. CASE Sleep
        BY <2>14 DEF Sleep
    <2>15. CASE Leave
        BY <2>15 DEF Leave
    <2>16. CASE Sigterm
        BY <2>16 DEF Sigterm
    <2>17. ASSUME NEW d \in Devices, Plug(d)
           PROVE  TypeOK'
        <3>1. typeOf' \in [Devices -> Types \cup {Absent}] /\ kept' \subseteq Devices
            BY <2>17 DEF Plug
        <3>2. QED
            BY <2>17, <3>1 DEF Plug
    <2>18. CASE UNCHANGED vars
        BY <2>18 DEF vars
    <2>19. QED
        BY <2>1, <2>2, <2>3, <2>4, <2>5, <2>6, <2>7, <2>8, <2>9, <2>10, <2>11, <2>12, <2>13,
           <2>14, <2>15, <2>16, <2>17, <2>18 DEF Next, Step
<1>3. QED
    BY <1>2, TypeInit, PTL DEF Spec

-----------------------------------------------------------------------------
\* Devices keep and get numbers that no other one has.
LEMMA DistinctStep ==
    ASSUME TypeOK, TypesDistinct, [Next]_vars
    PROVE  TypesDistinct'
<1>1. ASSUME NEW d \in Devices, Plug(d)
      PROVE  TypesDistinct'
    <2>1. PICK t : /\ typeOf' = [typeOf EXCEPT ![d] = t]
                   /\ t = Absent \/ t \notin {typeOf[e] : e \in Present}
        BY <1>1 DEF Plug
    <2>2. ASSUME NEW a \in Devices, NEW b \in Devices, typeOf'[a] = typeOf'[b], a # b
          PROVE  typeOf'[a] = Absent
        BY <2>1, <2>2 DEF TypeOK, TypesDistinct, Present
    <2>3. QED
        BY <2>2 DEF TypesDistinct
<1>2. CASE UNCHANGED typeOf
    BY <1>2 DEF TypesDistinct
<1>3. QED
    BY <1>1, <1>2 DEF Next, Step, vars, kernel, GetPmus, DecodeOther, DecodeFound, NotFound, SearchEnds,
       GenAttr, GenAttrFails, AttrsMade, Open, OpenFails, StartReading, TestStop, ReadCounter, Sleep,
       Leave, Sigterm

\* The least element of a set is its Min.
LEMMA MinIs ==
    ASSUME NEW S \in SUBSET Int, NEW m \in S, \A k \in S : m <= k
    PROVE  Min(S) = m
<1>1. \A k \in S : (\A j \in S : k <= j) => k = m
    OBVIOUS
<1>2. QED
    BY <1>1 DEF Min

\* The events keep what the search knows of them.
LEMMA SearchedKept ==
    ASSUME NEW m, Searched(m), UNCHANGED <<pmus, ev>>,
           DOMAIN evs' = DOMAIN evs,
           \A i \in DOMAIN evs :
               evs'[i].device = evs[i].device /\ evs'[i].entry = evs[i].entry
    PROVE  Searched(m)'
BY DEF Searched

\* Making an attr or opening a counter changes the event at hand and neither
\* its device nor its entry.
LEMMA SameEvents ==
    ASSUME TypeOK, TypeOK', GenAttr \/ Open
    PROVE  /\ evs' \in Seq(EventsFound)
           /\ DOMAIN evs' = DOMAIN evs /\ Len(evs') = Len(evs)
           /\ n \in DOMAIN evs
           /\ \A i \in DOMAIN evs :
                /\ evs'[i].device = evs[i].device /\ evs'[i].entry = evs[i].entry
                /\ i # n => evs'[i] = evs[i]
<1>1. n \in 1..Len(evs) /\ evs \in Seq(EventsFound) /\ evs' \in Seq(EventsFound)
    BY DEF GenAttr, Open, TypeOK
<1>2. ASSUME NEW e, evs' = [evs EXCEPT ![n] = e], e.device = evs[n].device, e.entry = evs[n].entry
      PROVE  /\ DOMAIN evs' = DOMAIN evs /\ Len(evs') = Len(evs)
             /\ \A i \in DOMAIN evs :
                  /\ evs'[i].device = evs[i].device /\ evs'[i].entry = evs[i].entry
                  /\ i # n => evs'[i] = evs[i]
    BY <1>1, <1>2
<1>3. CASE GenAttr
    BY <1>1, <1>2, <1>3 DEF GenAttr, Cleared
<1>4. CASE Open
    BY <1>1, <1>2, <1>4 DEF Open, Opened
<1>5. QED
    BY <1>1, <1>3, <1>4

\* The cursor set to the first entry of a table is within its bound, empty
\* tables included.
LEMMA CursorAtFirst ==
    ASSUME NEW devices \in Seq(Devices), NEW m \in Nat \ {0}, m <= Len(devices)
    PROVE  1 <= Len(Entries[devices[m]]) + 1
<1>1. m \in DOMAIN devices /\ devices[m] \in Devices
    OBVIOUS
<1>2. Entries[devices[m]] \in Seq(ToSet(Entries[devices[m]]))
    BY <1>1, EntriesAssumption
<1>3. Len(Entries[devices[m]]) \in Nat
    BY <1>2
<1>4. QED
    BY <1>3

LEMMA SearchStep ==
    ASSUME TypeOK, TypeOK', SearchInv, [Next]_vars
    PROVE  SearchInv'
<1> USE DEF TypeOK, Counting
<1>1. CASE GetPmus
    <2>1. pmus' \in Seq(Devices) /\ \A p, q \in DOMAIN pmus' : pmus'[p] = pmus'[q] => p = q
        BY <1>1, OrdersOfPresent DEF GetPmus
    <2>2. UNCHANGED <<n, x, evs, ev>> /\ n = 1 /\ x = 1 /\ evs = <<>> /\ pc' = "search"
        BY <1>1 DEF GetPmus, SearchInv
    <2>3. Searched(0)'
        BY <2>2 DEF Searched
    <2>4. Searched(n - 1)'
        BY <2>2, <2>3
    <2>5. ASSUME n' <= Len(pmus')
          PROVE  x' <= Len(Entries[pmus'[n']]) + 1
        <3>1. pmus' \in Seq(Devices) /\ n' \in Nat \ {0} /\ x' = 1
            BY <2>1, <2>2
        <3>. HIDE DEF TypeOK
        <3>2. QED
            BY <3>1, <2>5, CursorAtFirst
    <2>6. QED
        BY <2>1, <2>2, <2>4, <2>5 DEF SearchInv
<1>2. CASE DecodeOther
    <2>1. x \in DOMAIN Entries[pmus[n]] /\ Entries[pmus[n]] \in Seq(ToSet(Entries[pmus[n]]))
        BY <1>2, EntryRead, EntriesAssumption DEF DecodeOther
    <2>2. \A k \in 1..x : Entries[pmus[n]][k].name # ev
        BY <1>2 DEF DecodeOther, SearchInv, Entry
    <2>3. Searched(n - 1)'
        BY <1>2 DEF DecodeOther, SearchInv, Searched
    <2>4. QED
        BY <1>2, <2>1, <2>2, <2>3 DEF DecodeOther, SearchInv
<1>3. CASE DecodeFound
    <2>. DEFINE table == Entries[pmus[n]]
                found == {k \in DOMAIN table : table[k].name = ev}
    <2>1. /\ x \in DOMAIN table /\ table \in Seq(ToSet(table)) /\ table[x].name = ev
          /\ n \in DOMAIN pmus /\ n <= Len(pmus) /\ pmus[n] \in Devices
        BY <1>3, EntryRead, EntriesAssumption DEF DecodeFound, Entry
    <2>2. Min(found) = x
        <3>1. \A k \in found : x <= k
            BY <1>3, <2>1 DEF DecodeFound, SearchInv
        <3>2. x \in found /\ found \in SUBSET Int
            BY <2>1
        <3>3. QED
            BY <3>1, <3>2, MinIs
    <2>3. Offers(pmus[n], ev) /\ Entry = FirstEntry(pmus[n], ev)
        BY <2>1, <2>2 DEF Offers, FirstEntry, Entry
    <2>. DEFINE new == [device |-> pmus[n], entry |-> Entry, type |-> Absent, fd |-> 0]
    <2>4. evs' = Append(evs, new) /\ new.device = pmus[n] /\ new.entry = Entry
        BY <1>3 DEF DecodeFound, Keep
    <2>. HIDE DEF new
    <2>5. /\ DOMAIN evs' = 1..(Len(evs) + 1) /\ DOMAIN evs = 1..Len(evs)
          /\ evs'[Len(evs) + 1] = new
          /\ \A i \in DOMAIN evs : evs'[i] = evs[i]
        BY <2>4
    <2>6. UNCHANGED <<pmus, ev, pc>> /\ n' = n + 1 /\ x' = 1 /\ pc = "search"
        BY <1>3 DEF DecodeFound, Keep
    <2>7. Searched(n - 1)
        BY <2>6 DEF SearchInv
    <2>8. Searched(n - 1)'
        <3>0. /\ 1..(n - 1) \subseteq 1..n /\ 1..n \subseteq DOMAIN pmus
              /\ n \in 1..n /\ n \notin 1..(n - 1)
              /\ \A p \in 1..n : p = n \/ p \in 1..(n - 1)
              /\ \A i \in DOMAIN evs' : i \in DOMAIN evs \/ i = Len(evs) + 1
              /\ Len(evs) + 1 \in DOMAIN evs' /\ DOMAIN evs \subseteq DOMAIN evs'
            BY <2>1, <2>5
        <3>1. ASSUME NEW i \in DOMAIN evs'
              PROVE  /\ Offers(evs'[i].device, ev)
                     /\ evs'[i].entry = FirstEntry(evs'[i].device, ev)
                     /\ \E p \in 1..n : pmus[p] = evs'[i].device
            BY <2>3, <2>4, <2>5, <2>7, <3>0 DEF Searched
        <3>2. ASSUME NEW p \in 1..n, Offers(pmus[p], ev)
              PROVE  \E i \in DOMAIN evs' : evs'[i].device = pmus[p]
            <4>1. CASE p = n
                BY <2>4, <2>5, <3>0, <4>1
            <4>2. CASE p \in 1..(n - 1)
                BY <2>5, <2>7, <3>0, <3>2, <4>2 DEF Searched
            <4>3. QED
                BY <3>0, <4>1, <4>2
        <3>3. ASSUME NEW i \in DOMAIN evs', NEW j \in DOMAIN evs', evs'[i].device = evs'[j].device
              PROVE  i = j
            <4>1. \A k \in DOMAIN evs : evs[k].device # new.device
                BY <2>1, <2>4, <2>7, <3>0 DEF Searched, SearchInv
            <4>2. QED
                BY <2>5, <2>7, <3>0, <3>3, <4>1 DEF Searched
        <3>4. n' - 1 = n
            BY <2>6
        <3>5. QED
            BY <2>6, <3>1, <3>2, <3>3, <3>4 DEF Searched
    <2>10. ASSUME n' <= Len(pmus')
           PROVE  x' <= Len(Entries[pmus'[n']]) + 1
        <3>1. pmus' \in Seq(Devices) /\ n' \in Nat \ {0} /\ x' = 1
            BY <2>6
        <3>. HIDE DEF TypeOK
        <3>2. QED
            BY <3>1, <2>10, CursorAtFirst
    <2>11. QED
        BY <2>1, <2>6, <2>8, <2>10 DEF SearchInv
<1>4. CASE NotFound
    <2>1. UNCHANGED <<pmus, ev, pc, evs>> /\ n' = n + 1 /\ x' = 1 /\ pc = "search" /\ n <= Len(pmus)
        BY <1>4 DEF NotFound
    <2>2. Entries[pmus[n]] \in Seq(ToSet(Entries[pmus[n]])) /\ x = Len(Entries[pmus[n]]) + 1
        <3>1. n \in DOMAIN pmus /\ pmus[n] \in Devices
            BY <2>1
        <3>2. Entries[pmus[n]] \in Seq(ToSet(Entries[pmus[n]]))
            BY <3>1, EntriesAssumption
        <3>3. x <= Len(Entries[pmus[n]]) + 1 /\ x > Len(Entries[pmus[n]])
            BY <1>4, <2>1 DEF NotFound, SearchInv
        <3>4. Len(Entries[pmus[n]]) \in Nat /\ x \in Nat
            BY <3>2
        <3>5. x = Len(Entries[pmus[n]]) + 1
            <4>. DEFINE len == Len(Entries[pmus[n]])
            <4>1. len \in Nat /\ x \in Nat /\ x <= len + 1 /\ x > len
                BY <3>3, <3>4
            <4>. HIDE DEF len, TypeOK
            <4>2. x = len + 1
                BY <4>1
            <4>3. QED
                BY <4>2 DEF len
        <3>6. QED
            BY <3>2, <3>5
    <2>3. ~ Offers(pmus[n], ev)
        <3>1. \A k \in 1..Len(Entries[pmus[n]]) : Entries[pmus[n]][k].name # ev
            <4>1. \A k \in 1..(x - 1) : Entries[pmus[n]][k].name # ev
                BY <2>1 DEF SearchInv
            <4>. HIDE DEF TypeOK
            <4>2. Len(Entries[pmus[n]]) \in Nat
                BY <2>2
            <4>3. x - 1 = Len(Entries[pmus[n]])
                BY <2>2, <4>2
            <4>4. QED
                BY <4>1, <4>3
        <3>2. DOMAIN Entries[pmus[n]] = 1..Len(Entries[pmus[n]])
            BY <2>2
        <3>3. QED
            BY <3>1, <3>2 DEF Offers
    <2>4. Searched(n - 1)
        BY <2>1 DEF SearchInv
    <2>5. Searched(n - 1)'
        <3>1. n' - 1 = n /\ \A p \in 1..n : p = n \/ p \in 1..(n - 1)
            BY <2>1
        <3>2. ASSUME NEW p \in 1..n, Offers(pmus[p], ev)
              PROVE  \E i \in DOMAIN evs : evs[i].device = pmus[p]
            BY <2>3, <2>4, <3>1, <3>2 DEF Searched
        <3>3. \A p \in 1..(n - 1) : p \in 1..n
            OBVIOUS
        <3>4. Searched(n)
            BY <2>4, <3>2, <3>3 DEF Searched
        <3>5. QED
            BY <2>1, <3>1, <3>4 DEF Searched
    <2>6. ASSUME n' <= Len(pmus')
          PROVE  x' <= Len(Entries[pmus'[n']]) + 1
        <3>1. pmus' \in Seq(Devices) /\ n' \in Nat \ {0} /\ x' = 1
            BY <2>1
        <3>. HIDE DEF TypeOK
        <3>2. QED
            BY <3>1, <2>6, CursorAtFirst
    <2>7. QED
        BY <2>1, <2>5, <2>6 DEF SearchInv
<1>5. CASE SearchEnds
    <2>1. n - 1 = Len(pmus) /\ Searched(n - 1) /\ UNCHANGED <<pmus, ev, evs>>
        BY <1>5 DEF SearchEnds, SearchInv
    <2>2. Searched(Len(pmus))
        BY <2>1
    <2>3. Searched(Len(pmus))'
        BY <2>1, <2>2 DEF Searched
    <2>4. QED
        BY <1>5, <2>1, <2>3 DEF SearchEnds, SearchInv
<1>6. CASE GenAttr \/ Open
    <2>1. /\ UNCHANGED <<pmus, ev, pc>> /\ pc \in {"attr", "open"}
        BY <1>6 DEF GenAttr, Open
    <2>2. Searched(Len(pmus)) /\ evs # <<>>
        BY <2>1 DEF SearchInv
    <2>3. Searched(Len(pmus))'
        BY <1>6, <2>1, <2>2, SameEvents, SearchedKept
    <2>4. evs' # <<>>
        BY <1>6, <2>2, SameEvents
    <2>5. QED
        BY <2>1, <2>3, <2>4 DEF SearchInv
<1>7. CASE UNCHANGED <<pmus, ev, evs, n, x, pc>>
    BY <1>7 DEF SearchInv, Searched
<1>8. CASE /\ UNCHANGED <<pmus, ev, evs>>
           /\ pc' \in {"attr", "open"} \cup Counting => pc \in {"attr", "open"} \cup Counting
           /\ pc' \notin {"pmus", "search"}
    BY <1>8 DEF SearchInv, Searched
<1>9. QED
    BY <1>1, <1>2, <1>3, <1>4, <1>5, <1>6, <1>7, <1>8
    DEF Next, Step, vars, kernel, signals, GenAttrFails, AttrsMade, OpenFails, StartReading,
        TestStop, ReadCounter, Sleep, Leave, Sigterm, Plug

\* A device that goes away is no longer among those that stayed, and the event
\* whose attr is made is the only one of its device.
LEMMA KeptStep ==
    ASSUME TypeOK, TypeOK', SearchInv, KeptInv, TypedInv, [Next]_vars
    PROVE  KeptInv'
<1>1. CASE GetPmus
    BY <1>1 DEF GetPmus, SearchInv, KeptInv
<1>2. CASE DecodeFound
    <2>. DEFINE new == [device |-> pmus[n], entry |-> Entry, type |-> Absent, fd |-> 0]
    <2>1. evs' = Append(evs, new) /\ new.type = Absent /\ UNCHANGED <<kept, typeOf>>
        BY <1>2 DEF DecodeFound, Keep, kernel
    <2>. HIDE DEF new
    <2>2. \A i \in DOMAIN evs' : (i \in DOMAIN evs /\ evs'[i] = evs[i]) \/ evs'[i] = new
        BY <2>1 DEF TypeOK
    <2>3. QED
        BY <2>1, <2>2 DEF KeptInv
<1>3. CASE GenAttr
    <2>1. /\ evs' = [evs EXCEPT ![n] = Cleared(evs[n], typeOf[evs[n].device])]
          /\ kept' = kept \cup {evs[n].device} /\ UNCHANGED typeOf /\ pc = "attr"
        BY <1>3 DEF GenAttr
    <2>2. \A i \in DOMAIN evs : evs[i].device = evs[n].device => i = n
        BY <1>3, <2>1, SameEvents DEF SearchInv, Searched
    <2>3. evs'[n].type = typeOf[evs[n].device]
        BY <1>3, <2>1, SameEvents DEF Cleared, TypeOK
    <2>4. ASSUME NEW i \in DOMAIN evs', evs'[i].type # Absent, evs'[i].device \in kept'
          PROVE  typeOf[evs'[i].device] = evs'[i].type
        <3>1. CASE i = n
            BY <1>3, <2>3, <3>1, SameEvents
        <3>2. CASE i # n
            BY <1>3, <2>1, <2>2, <2>4, <3>2, SameEvents DEF KeptInv
        <3>3. QED
            BY <3>1, <3>2
    <2>5. QED
        BY <2>1, <2>4 DEF KeptInv
<1>4. CASE Open
    <2>1. /\ evs' = [evs EXCEPT ![n] = Opened(evs[n], Len(counters) + 1)]
          /\ UNCHANGED <<kept, typeOf>>
        BY <1>4 DEF Open, kernel
    <2>2. evs'[n].type = evs[n].type
        BY <1>4, <2>1, SameEvents DEF Opened, TypeOK
    <2>3. \A i \in DOMAIN evs' :
              i \in DOMAIN evs /\ evs'[i].type = evs[i].type /\ evs'[i].device = evs[i].device
        BY <1>4, <2>2, SameEvents
    <2>4. QED
        BY <2>1, <2>3 DEF KeptInv
<1>5. ASSUME NEW d \in Devices, Plug(d)
      PROVE  KeptInv'
    <2>1. PICK t : typeOf' = [typeOf EXCEPT ![d] = t] /\ kept' = kept \ {d} /\ UNCHANGED evs
        BY <1>5 DEF Plug
    <2>2. ASSUME NEW e \in kept'
          PROVE  e \in kept /\ typeOf'[e] = typeOf[e]
        BY <2>1 DEF TypeOK
    <2>3. QED
        BY <2>1, <2>2 DEF KeptInv
<1>6. CASE UNCHANGED <<kept, typeOf, evs>>
    BY <1>6 DEF KeptInv
<1>7. QED
    BY <1>1, <1>2, <1>3, <1>4, <1>5, <1>6
    DEF Next, Step, vars, kernel, DecodeOther, NotFound, SearchEnds, GenAttrFails, AttrsMade,
        OpenFails, StartReading, TestStop, ReadCounter, Sleep, Leave, Sigterm

\* The events get their attrs one after the other.
LEMMA TypedStep ==
    ASSUME TypeOK, TypeOK', SearchInv, TypedInv, [Next]_vars
    PROVE  TypedInv'
<1> USE DEF Counting
<1>1. CASE GetPmus
    BY <1>1 DEF GetPmus, SearchInv, TypedInv
<1>2. CASE DecodeFound
    <2>. DEFINE new == [device |-> pmus[n], entry |-> Entry, type |-> Absent, fd |-> 0]
    <2>1. evs' = Append(evs, new) /\ new.type = Absent /\ pc = "search" /\ UNCHANGED pc
        BY <1>2 DEF DecodeFound, Keep
    <2>. HIDE DEF new
    <2>2. \A i \in DOMAIN evs' : (i \in DOMAIN evs /\ evs'[i] = evs[i]) \/ evs'[i] = new
        BY <2>1 DEF TypeOK
    <2>3. QED
        BY <2>1, <2>2 DEF TypedInv
<1>3. CASE SearchEnds
    <2>1. UNCHANGED evs /\ n' = 1 /\ pc' \in {"attr", "returned"} /\ pc = "search" /\ Len(evs) \in Nat
        BY <1>3 DEF SearchEnds, TypeOK
    <2>2. \A i \in DOMAIN evs : ~ (i < 1)
        BY DEF TypeOK
    <2>3. QED
        BY <2>1, <2>2 DEF TypedInv
<1>4. CASE GenAttr
    <2>1. /\ evs' = [evs EXCEPT ![n] = Cleared(evs[n], typeOf[evs[n].device])]
          /\ evs[n].device \in Present /\ pc = "attr" /\ UNCHANGED pc /\ n' = n + 1
        BY <1>4 DEF GenAttr
    <2>2. evs'[n].type = typeOf[evs[n].device] /\ evs'[n].type # Absent
        BY <1>4, <2>1, SameEvents DEF Cleared, Present, TypeOK
    <2>3. ASSUME NEW i \in DOMAIN evs'
          PROVE  evs'[i].type # Absent <=> i < n'
        <3>1. i \in DOMAIN evs /\ i \in Nat /\ n \in Nat
            BY <1>4, SameEvents DEF TypeOK
        <3>2. CASE i = n
            BY <2>1, <2>2, <3>1, <3>2
        <3>3. CASE i # n
            <4>1. evs[i].type # Absent <=> i < n
                BY <2>1, <3>1 DEF TypedInv
            <4>2. evs'[i] = evs[i]
                BY <1>4, <3>1, <3>3, SameEvents
            <4>3. i < n <=> i < n'
                BY <2>1, <3>1, <3>3
            <4>4. QED
                BY <4>1, <4>2, <4>3
        <3>4. QED
            BY <3>2, <3>3
    <2>4. n' <= Len(evs') + 1
        BY <1>4, <2>1, SameEvents DEF GenAttr, TypeOK
    <2>5. QED
        BY <2>1, <2>3, <2>4 DEF TypedInv
<1>5. CASE AttrsMade
    <2>1. UNCHANGED evs /\ pc' = "open" /\ pc = "attr" /\ n > Len(evs)
        BY <1>5 DEF AttrsMade
    <2>2. \A i \in DOMAIN evs : i < n
        BY <2>1 DEF TypeOK
    <2>3. QED
        BY <2>1, <2>2 DEF TypedInv, AllTyped
<1>6. CASE Open
    <2>1. /\ evs' = [evs EXCEPT ![n] = Opened(evs[n], Len(counters) + 1)]
          /\ pc = "open" /\ UNCHANGED pc
        BY <1>6 DEF Open
    <2>2. evs'[n].type = evs[n].type
        BY <1>6, <2>1, SameEvents DEF Opened, TypeOK
    <2>3. \A i \in DOMAIN evs' : i \in DOMAIN evs /\ evs'[i].type = evs[i].type
        BY <1>6, <2>2, SameEvents
    <2>4. QED
        BY <2>1, <2>3 DEF TypedInv, AllTyped
<1>7. CASE /\ UNCHANGED evs
           /\ \/ pc' \in {"open"} \cup Counting /\ pc \in {"open"} \cup Counting
              \/ pc' \in {"killed", "returned"}
    BY <1>7 DEF TypedInv, AllTyped
<1>8. CASE UNCHANGED <<pc, evs>> /\ (pc = "attr" => UNCHANGED n)
    BY <1>8 DEF TypedInv, AllTyped
<1>9. QED
    BY <1>1, <1>2, <1>3, <1>4, <1>5, <1>6, <1>7, <1>8
    DEF Next, Step, vars, kernel, signals, DecodeOther, NotFound, GenAttrFails,
        OpenFails, StartReading, TestStop, ReadCounter, Sleep, Leave, Sigterm, Plug

\* The counter that is opened is on the device of the event, if that stayed:
\* no other one has its number.
LEMMA CounterStep ==
    ASSUME TypeOK, TypeOK', TypesDistinct, SearchInv, KeptInv, TypedInv, CounterInv, [Next]_vars
    PROVE  CounterInv'
<1> USE DEF Counting
<1>1. CASE counters = <<>> /\ UNCHANGED counters /\ pc' \notin {"open"} \cup Counting
    BY <1>1 DEF CounterInv, TypeOK
<1>2. CASE AttrsMade
    BY <1>2 DEF AttrsMade, CounterInv, TypeOK
<1>3. CASE Open
    <2>. DEFINE e == Opened(evs[n], Len(counters) + 1)
    <2>1. PICK d \in Present :
              typeOf[d] = evs[n].type /\ counters' = Append(counters, Counter(evs[n], d))
        BY <1>3 DEF Open
    <2>2. /\ evs' = [evs EXCEPT ![n] = e] /\ n' = n + 1 /\ UNCHANGED <<pc, ev>> /\ pc = "open"
          /\ n \in DOMAIN evs /\ n = Len(counters) + 1
        BY <1>3 DEF Open, CounterInv, TypeOK
    <2>3. e.fd = n /\ evs'[n] = e
        BY <2>2 DEF Opened, TypeOK
    <2>. DEFINE c == Counter(evs[n], d)
    <2>4. /\ c.device = d /\ c.entry = evs[n].entry
          /\ c.stayed <=> evs[n].device \in kept
        BY DEF Counter
    <2>. HIDE DEF e, c
    <2>5. evs[n].device \in kept => d = evs[n].device
        <3>1. evs[n].type # Absent
            BY <2>2 DEF TypedInv, AllTyped
        <3>2. evs[n].device \in kept => typeOf[evs[n].device] = evs[n].type
            BY <2>2, <3>1 DEF KeptInv
        <3>0. d \in Devices /\ evs[n] \in EventsFound
            BY <2>1, <2>2 DEF Present, TypeOK
        <3>3. evs[n].device \in Devices
            BY <3>0 DEF EventsFound
        <3>4. QED
            BY <2>1, <3>0, <3>1, <3>2, <3>3 DEF TypesDistinct
    <2>6. Offers(evs[n].device, ev) /\ evs[n].entry = FirstEntry(evs[n].device, ev)
        BY <2>2 DEF SearchInv, Searched
    <2>7. /\ counters' = Append(counters, c) /\ DOMAIN counters' = 1..n
          /\ Len(counters') = n /\ counters'[n] = c
          /\ \A i \in 1..n : i = n \/ (i \in DOMAIN counters /\ counters'[i] = counters[i])
        <3>1. counters' = Append(counters, c)
            BY <2>1 DEF c
        <3>2. counters \in Seq(Counters) /\ DOMAIN counters = 1..(n - 1) /\ Len(counters) = n - 1 /\ n \in Nat
            BY <2>2 DEF TypeOK
        <3>3. Len(counters') = n /\ DOMAIN counters' = 1..n /\ counters'[n] = c
            BY <3>1, <3>2
        <3>4. ASSUME NEW i \in 1..n
              PROVE  i = n \/ (i \in DOMAIN counters /\ counters'[i] = counters[i])
            <4>1. i = n \/ i \in 1..(n - 1)
                BY <3>2
            <4>2. QED
                BY <3>1, <3>2, <4>1
        <3>5. QED
            BY <3>1, <3>3, <3>4
    <2>8. /\ Len(counters') <= Len(evs') /\ n' = Len(counters') + 1
        BY <1>3, <2>2, <2>7, SameEvents DEF TypeOK
    <2>9. ASSUME NEW i \in 1..n
          PROVE  /\ evs'[i].fd = i
                 /\ Offers(evs'[i].device, ev)
                 /\ counters'[i].entry = FirstEntry(evs'[i].device, ev)
                 /\ counters'[i].stayed => counters'[i].device = evs'[i].device
        <3>1. CASE i = n
            <4>1. evs'[n].device = evs[n].device
                BY <1>3, SameEvents
            <4>2. QED
                BY <2>3, <2>4, <2>5, <2>6, <2>7, <3>1, <4>1
        <3>2. CASE i # n
            <4>1. i \in DOMAIN counters /\ counters'[i] = counters[i] /\ i \in DOMAIN evs
                BY <2>2, <2>7, <3>2 DEF TypeOK
            <4>2. evs'[i] = evs[i]
                BY <1>3, <3>2, <4>1, SameEvents
            <4>3. QED
                BY <4>1, <4>2 DEF CounterInv
        <3>3. QED
            BY <3>1, <3>2
    <2>10. QED
        BY <2>2, <2>7, <2>8, <2>9 DEF CounterInv
<1>4. CASE StartReading
    BY <1>4 DEF StartReading, CounterInv, TypeOK
<1>5. CASE /\ UNCHANGED <<counters, evs, ev>>
           /\ \/ pc' \in Counting /\ pc \in Counting
              \/ pc' \in {"killed", "returned"}
              \/ UNCHANGED <<pc, n>>
    BY <1>5 DEF CounterInv
<1>6. QED
    BY <1>1, <1>2, <1>3, <1>4, <1>5
    DEF Next, Step, vars, kernel, signals, GetPmus, DecodeOther, DecodeFound, NotFound, SearchEnds,
        GenAttr, GenAttrFails, OpenFails, TestStop, ReadCounter, Sleep, Leave, Sigterm, Plug, CounterInv

\* What is allocated goes with the place of the program.
LEMMA HeapStep ==
    ASSUME TypeOK, TypeOK', SearchInv, TypedInv, HeapInv, [Next]_vars
    PROVE  HeapInv'
<1> USE DEF Counting, ReleasedOnExit
<1>1. CASE GetPmus
    BY <1>1 DEF GetPmus, signals, HeapInv, SearchInv
<1>2. CASE DecodeFound
    <2>1. evs' # <<>>
        <3>. DEFINE new == [device |-> pmus[n], entry |-> Entry, type |-> Absent, fd |-> 0]
        <3>1. evs' = Append(evs, new)
            BY <1>2 DEF DecodeFound, Keep
        <3>. HIDE DEF new
        <3>2. QED
            BY <3>1 DEF TypeOK
    <2>2. heap' = heap \cup {"evs"} /\ pc = "search" /\ UNCHANGED <<pc, pmus, handler>>
        BY <1>2 DEF DecodeFound, Keep, signals
    <2>3. QED
        BY <2>1, <2>2 DEF HeapInv
<1>3. CASE SearchEnds
    <2>1. /\ pc = "search" /\ UNCHANGED <<pmus, evs, handler>>
          /\ \/ evs = <<>> /\ pc' = "returned" /\ heap' = heap \ {"pmus"}
             \/ evs # <<>> /\ pc' = "attr" /\ heap' = heap
        BY <1>3 DEF SearchEnds, signals
    <2>2. ~ handler /\ ("evs" \in heap <=> evs # <<>>) /\ ("pmus" \in heap <=> pmus # <<>>)
        BY <2>1 DEF HeapInv
    <2>3. CASE evs = <<>>
        <3>1. heap' = {}
            BY <2>1, <2>2, <2>3 DEF TypeOK
        <3>2. QED
            BY <2>1, <2>2, <2>3, <3>1 DEF HeapInv
    <2>4. CASE evs # <<>>
        <3>1. pmus # <<>>
            <4>1. Searched(n - 1) /\ n - 1 = Len(pmus)
                <5>1. n \in Nat /\ Len(pmus) \in Nat
                    BY DEF TypeOK
                <5>2. Searched(n - 1) /\ n <= Len(pmus) + 1 /\ n > Len(pmus)
                    BY <1>3 DEF SearchEnds, SearchInv
                <5>3. QED
                    BY <5>1, <5>2
            <4>2. 1 \in DOMAIN evs
                BY <2>4 DEF TypeOK
            <4>3. 1..(n - 1) # {}
                BY <4>1, <4>2 DEF Searched
            <4>4. QED
                BY <4>1, <4>3
        <3>2. heap' = {"pmus", "evs"}
            BY <2>1, <2>2, <2>4, <3>1 DEF TypeOK
        <3>3. QED
            BY <2>1, <2>2, <2>4, <3>2 DEF HeapInv
    <2>5. QED
        BY <2>3, <2>4
<1>4. CASE GenAttrFails
    <2>1. pc = "attr" /\ n \in DOMAIN evs /\ evs[n].type = Absent
        BY <1>4 DEF GenAttrFails, TypedInv, TypeOK
    <2>2. ~ AllTyped /\ UNCHANGED evs /\ UNCHANGED handler
        BY <1>4, <2>1 DEF GenAttrFails, AllTyped, signals
    <2>3. heap' = {} /\ pc' = "returned" /\ ~ handler
        BY <1>4, <2>1 DEF GenAttrFails, HeapInv
    <2>4. QED
        BY <2>2, <2>3 DEF HeapInv, AllTyped
<1>5. CASE OpenFails
    <2>1. pc = "open" /\ n \in DOMAIN evs /\ UNCHANGED <<evs, heap, handler>> /\ pc' = "returned"
        BY <1>5 DEF OpenFails, TypeOK, signals
    <2>2. AllTyped /\ evs # <<>> /\ heap = {"pmus", "evs"} /\ ~ handler
        BY <2>1 DEF TypedInv, HeapInv, TypeOK
    <2>3. QED
        BY <2>1, <2>2 DEF HeapInv, AllTyped
<1>6. CASE Leave
    BY <1>6 DEF Leave, HeapInv, signals
<1>7. CASE StartReading
    BY <1>7 DEF StartReading, HeapInv
<1>8. CASE /\ UNCHANGED <<heap, handler>>
           /\ \/ pc' = "open" /\ pc = "attr"
              \/ pc' \in {"attr", "open"} /\ UNCHANGED pc
              \/ pc' \in Counting /\ pc \in Counting
              \/ pc' = "killed" /\ ~ handler
              \/ UNCHANGED <<pc, pmus, evs>>
    BY <1>8 DEF HeapInv, AllTyped
<1>9. QED
    BY <1>1, <1>2, <1>3, <1>4, <1>5, <1>6, <1>7, <1>8
    DEF Next, Step, vars, kernel, signals, DecodeOther, NotFound, GenAttr, AttrsMade, Open,
        TestStop, ReadCounter, Sleep, Sigterm, Plug

-----------------------------------------------------------------------------
LEMMA Invariance == Spec => []IInv
<1>1. Init => IInv
    <2> SUFFICES ASSUME Init
                 PROVE  IInv
        OBVIOUS
    <2>1. TypeOK
        BY TypeInit
    <2>2. TypesDistinct /\ KeptInv
        BY DEF Init, TypesDistinct, KeptInv
    <2>3. SearchInv /\ TypedInv
        BY DEF Init, SearchInv, TypedInv, Counting
    <2>4. CounterInv
        BY DEF Init, CounterInv, Counting
    <2>5. HeapInv
        BY DEF Init, HeapInv, ReleasedOnExit, Counting
    <2>6. QED
        BY <2>1, <2>2, <2>3, <2>4, <2>5 DEF IInv
<1>2. IInv /\ TypeOK' /\ [Next]_vars => IInv'
    BY DistinctStep, SearchStep, KeptStep, TypedStep, CounterStep, HeapStep DEF IInv
<1>3. QED
    BY <1>1, <1>2, TypeCorrect, PTL DEF Spec

(***************************************************************************)
(* What is allocated on every way out of read_event, and that pmus is      *)
(* there as long as the events hold pointers into it.                      *)
(***************************************************************************)
THEOREM ReleasedOnEveryExit == Spec => []ReleasedOnExit
<1>1. IInv => ReleasedOnExit
    BY DEF IInv, HeapInv
<1>2. QED
    BY <1>1, Invariance, PTL

(***************************************************************************)
(* Every instance found that has the event is counted once, by the first   *)
(* entry of that name, and on that device as long as it stayed, however    *)
(* devices come and go and hand on their numbers.                          *)
(***************************************************************************)
THEOREM CountersAlwaysAsAsked == Spec => []CountersAsAsked
<1>1. IInv => CountersAsAsked
    <2> SUFFICES ASSUME IInv
                 PROVE  CountersAsAsked
        OBVIOUS
    <2>1. ASSUME pc \in Counting, NEW d \in ToSet(pmus)
          PROVE  Cardinality({i \in DOMAIN evs : evs[i].device = d}) = IF Offers(d, ev) THEN 1 ELSE 0
        <3>1. Searched(Len(pmus))
            BY <2>1 DEF IInv, SearchInv
        <3>2. PICK p \in 1..Len(pmus) : d = pmus[p]
            BY DEF ToSet, IInv, TypeOK
        <3>3. CASE Offers(d, ev)
            <4>1. PICK i \in DOMAIN evs : evs[i].device = d
                BY <3>1, <3>2, <3>3 DEF Searched
            <4>2. {j \in DOMAIN evs : evs[j].device = d} = {i}
                BY <3>1, <4>1 DEF Searched
            <4>3. QED
                BY <3>3, <4>2, FS_Singleton
        <3>4. CASE ~ Offers(d, ev)
            <4>1. {j \in DOMAIN evs : evs[j].device = d} = {}
                BY <3>1, <3>4 DEF Searched
            <4>2. QED
                BY <3>4, <4>1, FS_EmptySet
        <3>5. QED
            BY <3>3, <3>4
    <2>2. QED
        BY <2>1 DEF IInv, CounterInv, CountersAsAsked, Counting
<1>2. QED
    BY <1>1, Invariance, PTL
=============================================================================
