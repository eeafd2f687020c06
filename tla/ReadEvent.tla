------------------------------ MODULE ReadEvent ------------------------------
(***************************************************************************)
(* The way of an event through the library, as read_event of               *)
(* src/examples/main.c goes it: get_pmus, get_event_by_name in every       *)
(* instance, gen_attr_for_event for every event found, perf_event_open,    *)
(* and then a read of every counter each second until SIGTERM.             *)
(*                                                                         *)
(* get_pmus and gen_attr_for_event are steps here; their insides are       *)
(* PmuDiscovery and EventAttr.  What interferes is the kernel: a device    *)
(* goes away between two calls, and the number of its type can be given to *)
(* another one; and the signal, which comes whenever it likes.             *)
(***************************************************************************)
EXTENDS Integers, SequencesExt

CONSTANTS
    Devices,   \* PMU instances
    Entries,   \* the event table of each: a sequence of records with a name
    Names,     \* arguments of the command
    Types,     \* numbers the kernel hands out as perf_event_attr.type
    Absent,    \* the device has none: it is not there
    NoEvent,   \* nothing decoded yet
    MaxPlugs,  \* bound on how often a device goes away or comes
    MaxFailures  \* bound on calls that fail for other reasons

ASSUME TypesAssumption == Absent \notin Types /\ Cardinality(Types) >= Cardinality(Devices)
ASSUME DevicesAssumption == IsFiniteSet(Devices)
ASSUME EntriesAssumption == \A d \in Devices : Entries[d] \in Seq(ToSet(Entries[d]))

VARIABLES
    typeOf,     \* [device]/type
    plugs,      \* how often a device has come or gone
    kept,       \* history: the devices that stayed since their attr was made
    ev,         \* the event name asked for
    pc,         \* where read_event is
    pmus,       \* the instances get_pmus has found
    n,          \* the instance, or the event, the loop at hand has reached
    x,          \* the entry get_event_by_name has reached
    pmuEv,      \* pmu_ev: what decompress_event wrote last
    evs,        \* the events found, with their instance, attr.type and fd
    counters,   \* the kernel's counters, by file descriptor
    failures,
    heap,       \* what is allocated
    handler,    \* SIGTERM is handled
    stop        \* the handler has run

kernel == <<typeOf, plugs, kept>>
signals == <<handler, stop>>
vars == <<typeOf, plugs, kept, ev, pc, pmus, n, x, pmuEv, evs, counters, failures, heap,
          handler, stop>>

Present == {d \in Devices : typeOf[d] # Absent}
Ended == pc \in {"returned", "killed"}

Init ==
    /\ typeOf \in {f \in [Devices -> Types \cup {Absent}] :
                    \A d, e \in Devices : f[d] = f[e] => d = e \/ f[d] = Absent}
    /\ plugs = 0
    /\ kept = {}
    /\ ev \in Names
    /\ pc = "pmus"
    /\ pmus = <<>>
    /\ n = 1 /\ x = 1
    /\ pmuEv = NoEvent
    /\ evs = <<>>
    /\ counters = <<>>
    /\ failures = 0
    /\ heap = {}
    /\ handler = FALSE /\ stop = FALSE

-----------------------------------------------------------------------------
\* A device goes away, or comes under a number no device present has.
Plug(d) ==
    /\ ~ Ended
    /\ plugs < MaxPlugs
    /\ plugs' = plugs + 1
    /\ \E t \in IF typeOf[d] = Absent THEN Types \ {typeOf[e] : e \in Present} ELSE {Absent} :
        typeOf' = [typeOf EXCEPT ![d] = t]
    /\ kept' = kept \ {d}
    /\ UNCHANGED <<ev, pc, pmus, n, x, pmuEv, evs, counters, failures, heap, signals>>

\* Without the handler SIGTERM ends the process.
Sigterm ==
    /\ ~ Ended
    /\ ~ stop
    /\ IF handler THEN stop' = TRUE /\ UNCHANGED pc ELSE pc' = "killed" /\ UNCHANGED stop
    /\ UNCHANGED <<kernel, ev, pmus, n, x, pmuEv, evs, counters, failures, heap, handler>>

-----------------------------------------------------------------------------
\* The result of get_pmus is not looked at: what it failed to find is not there.
GetPmus ==
    /\ pc = "pmus"
    /\ pmus' \in SetToSeqs(Present)
    /\ heap' = IF pmus' = <<>> THEN {} ELSE {"pmus"}
    /\ pc' = "search"
    /\ UNCHANGED <<kernel, ev, n, x, pmuEv, evs, counters, failures, signals>>

Entry == Entries[pmus[n]][x]

\* get_event_by_name decodes an entry of another name.
DecodeOther ==
    /\ pc = "search"
    /\ n <= Len(pmus)
    /\ x <= Len(Entries[pmus[n]])
    /\ Entry.name # ev
    /\ pmuEv' = Entry
    /\ x' = x + 1
    /\ UNCHANGED <<kernel, ev, pc, pmus, n, evs, counters, failures, heap, signals>>

Keep(entry) ==
    /\ evs' = Append(evs, [device |-> pmus[n], entry |-> entry, type |-> Absent, fd |-> 0])
    /\ heap' = heap \cup {"evs"}
    /\ n' = n + 1
    /\ x' = 1

DecodeFound ==
    /\ pc = "search"
    /\ n <= Len(pmus)
    /\ x <= Len(Entries[pmus[n]])
    /\ Entry.name = ev
    /\ pmuEv' = Entry
    /\ Keep(Entry)
    /\ UNCHANGED <<kernel, ev, pc, pmus, counters, failures, signals>>

\* Mutant: what is in the struct is used, whatever get_event_by_name returned.
NotFound_Kept ==
    /\ pc = "search"
    /\ n <= Len(pmus)
    /\ x > Len(Entries[pmus[n]])
    /\ Keep(pmuEv)
    /\ UNCHANGED <<kernel, ev, pc, pmus, pmuEv, counters, failures, signals>>

\* get_event_by_name returns -1 and leaves the last event it decoded.
NotFound ==
    /\ pc = "search"
    /\ n <= Len(pmus)
    /\ x > Len(Entries[pmus[n]])
    /\ n' = n + 1
    /\ x' = 1
    /\ UNCHANGED <<kernel, ev, pc, pmus, pmuEv, evs, counters, failures, heap, signals>>

SearchEnds ==
    /\ pc = "search"
    /\ n > Len(pmus)
    /\ n' = 1
    /\ IF evs = <<>>
       THEN pc' = "returned" /\ heap' = heap \ {"pmus"}
       ELSE pc' = "attr" /\ UNCHANGED heap
    /\ UNCHANGED <<kernel, ev, pmus, x, pmuEv, evs, counters, failures, signals>>

-----------------------------------------------------------------------------
(***************************************************************************)
(* The memset that follows the assignment of attr.size begins at that      *)
(* member: it clears the size, all members behind it, and the fd behind    *)
(* the attr.  The type is left to gen_attr_for_event.  Of what is cleared  *)
(* the fd alone is kept here.                                              *)
(***************************************************************************)
Cleared(e, type) ==
    [device |-> e.device, entry |-> e.entry, type |-> type, fd |-> 0]

GenAttr ==
    /\ pc = "attr"
    /\ n <= Len(evs)
    /\ evs[n].device \in Present
    /\ evs' = [evs EXCEPT ![n] = Cleared(evs[n], typeOf[evs[n].device])]
    /\ kept' = kept \cup {evs[n].device}
    /\ n' = n + 1
    /\ UNCHANGED <<typeOf, plugs, ev, pc, pmus, x, pmuEv, counters, failures, heap, signals>>

\* Mutant: the events are not released.
GenAttrFails_EvsKept ==
    /\ pc = "attr"
    /\ n <= Len(evs)
    /\ \/ evs[n].device \notin Present /\ UNCHANGED failures
       \/ failures < MaxFailures /\ failures' = failures + 1
    /\ heap' = heap \ {"pmus"}
    /\ pc' = "returned"
    /\ UNCHANGED <<kernel, ev, pmus, n, x, pmuEv, evs, counters, signals>>

\* The device is not there, or its format directory or the heap does not serve.
GenAttrFails ==
    /\ pc = "attr"
    /\ n <= Len(evs)
    /\ \/ evs[n].device \notin Present /\ UNCHANGED failures
       \/ failures < MaxFailures /\ failures' = failures + 1
    /\ heap' = heap \ {"pmus", "evs"}
    /\ pc' = "returned"
    /\ UNCHANGED <<kernel, ev, pmus, n, x, pmuEv, evs, counters, signals>>

AttrsMade ==
    /\ pc = "attr"
    /\ n > Len(evs)
    /\ n' = 1
    /\ pc' = "open"
    /\ UNCHANGED <<kernel, ev, pmus, x, pmuEv, evs, counters, failures, heap, signals>>

Counter(e, d) ==
    [device |-> d, entry |-> e.entry, stayed |-> e.device \in kept]
Opened(e, fd) ==
    [device |-> e.device, entry |-> e.entry, type |-> e.type, fd |-> fd]

\* perf_event_open: the kernel looks the type up.
Open ==
    /\ pc = "open"
    /\ n <= Len(evs)
    /\ \E d \in Present :
        /\ typeOf[d] = evs[n].type
        /\ counters' = Append(counters, Counter(evs[n], d))
    /\ evs' = [evs EXCEPT ![n] = Opened(evs[n], Len(counters) + 1)]
    /\ n' = n + 1
    /\ UNCHANGED <<kernel, ev, pc, pmus, x, pmuEv, failures, heap, signals>>

\* No device of that type, or no counter to be had: nothing is released.
OpenFails ==
    /\ pc = "open"
    /\ n <= Len(evs)
    /\ \/ evs[n].type \notin {typeOf[d] : d \in Present} /\ UNCHANGED failures
       \/ failures < MaxFailures /\ failures' = failures + 1
    /\ pc' = "returned"
    /\ UNCHANGED <<kernel, ev, pmus, n, x, pmuEv, evs, counters, heap, signals>>

\* signal, and into the loop
StartReading ==
    /\ pc = "open"
    /\ n > Len(evs)
    /\ handler' = TRUE
    /\ pc' = "loop"
    /\ UNCHANGED <<kernel, ev, pmus, n, x, pmuEv, evs, counters, failures, heap, stop>>

\* Mutant: the flag is kept in a register.
TestStop_Hoisted ==
    /\ pc = "loop"
    /\ n' = 1
    /\ pc' = "read"
    /\ UNCHANGED <<kernel, ev, pmus, x, pmuEv, evs, counters, failures, heap, signals>>

TestStop ==
    /\ pc = "loop"
    /\ n' = 1
    /\ pc' = IF stop THEN "leave" ELSE "read"
    /\ UNCHANGED <<kernel, ev, pmus, x, pmuEv, evs, counters, failures, heap, signals>>

\* A read that fails is reported and the loop goes on.
ReadCounter ==
    /\ pc = "read"
    /\ n <= Len(evs)
    /\ n' = n + 1
    /\ UNCHANGED <<kernel, ev, pc, pmus, x, pmuEv, evs, counters, failures, heap, signals>>

\* sleep, which a signal cuts short
Sleep ==
    /\ pc = "read"
    /\ n > Len(evs)
    /\ pc' = "loop"
    /\ UNCHANGED <<kernel, ev, pmus, n, x, pmuEv, evs, counters, failures, heap, signals>>

Leave ==
    /\ pc = "leave"
    /\ heap' = heap \ {"pmus"}
    /\ pc' = "returned"
    /\ UNCHANGED <<kernel, ev, pmus, n, x, pmuEv, evs, counters, failures, signals>>

Step ==
    \/ GetPmus
    \/ DecodeOther
    \/ DecodeFound
    \/ NotFound
    \/ SearchEnds
    \/ GenAttr
    \/ GenAttrFails
    \/ AttrsMade
    \/ Open
    \/ OpenFails
    \/ StartReading
    \/ TestStop
    \/ ReadCounter
    \/ Sleep
    \/ Leave

Next == Step \/ Sigterm \/ \E d \in Devices : Plug(d)

Spec == Init /\ [][Next]_vars

\* The process is scheduled; nothing is asked of the kernel or of the user.
FairSpec == Spec /\ WF_vars(Step)

-----------------------------------------------------------------------------
\* The first entry of that name in the table of the device.
FirstEntry(d, name) ==
    Entries[d][Min({k \in DOMAIN Entries[d] : Entries[d][k].name = name})]
Offers(d, name) == \E k \in DOMAIN Entries[d] : Entries[d][k].name = name

(***************************************************************************)
(* What is read is what was asked for: once the loop has begun there is    *)
(* one counter for each instance found whose table holds the name, and it  *)
(* counts the first entry of that name, on that device, unless the device  *)
(* went away between the calls and another one has got its number.  The    *)
(* descriptor kept for an event is that of its own counter, though the     *)
(* memset runs into the member behind the attr.                            *)
(***************************************************************************)
CountersAsAsked ==
    /\ pc \in {"loop", "read", "leave"} =>
        /\ Len(counters) = Len(evs)
        /\ \A d \in ToSet(pmus) :
            Cardinality({i \in DOMAIN evs : evs[i].device = d}) = IF Offers(d, ev) THEN 1 ELSE 0
    /\ \A i \in DOMAIN counters :
        /\ evs[i].fd = i
        /\ Offers(evs[i].device, ev)
        /\ counters[i].entry = FirstEntry(evs[i].device, ev)
        /\ counters[i].stayed => counters[i].device = evs[i].device

\* Every event found has got its attr.
AllTyped == \A i \in DOMAIN evs : evs[i].type # Absent

(***************************************************************************)
(* evs holds pointers into pmus, and so pmus is there as long as they are  *)
(* used.  The ways out differ in what they release: all of it if no event  *)
(* matches or an attr cannot be made, only pmus at the end, and nothing if *)
(* a counter cannot be opened.                                             *)
(***************************************************************************)
ReleasedOnExit ==
    /\ pc \in {"attr", "open", "loop", "read", "leave"} => heap = {"pmus", "evs"}
    /\ pc = "returned" =>
        heap = IF handler THEN {"evs"}
               ELSE IF evs # <<>> /\ AllTyped THEN {"pmus", "evs"}
               ELSE {}

(***************************************************************************)
(* After SIGTERM the program ends, at whatever step the signal finds it:   *)
(* before the handler is set it is killed, afterwards the loop is left.    *)
(***************************************************************************)
StopsAfterSigterm == stop ~> pc = "returned"
=============================================================================
