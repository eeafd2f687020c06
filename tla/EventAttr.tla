------------------------------ MODULE EventAttr ------------------------------
(***************************************************************************)
(* gen_attr_for_event (src/src/pmu-events.c): turn an event string of the  *)
(* form "event=0x40,umask=1" into a perf_event_attr for one PMU instance.  *)
(* The type comes from [pmu]/type, and for every assignment the file       *)
(* [pmu]/format/[key] says into which bits of which member the value goes. *)
(*                                                                         *)
(* The library is sequential, but the files it reads are the kernel's: the *)
(* device directory can go away between any two reads (module unload, hot  *)
(* unplug) and come back with another type number.                         *)
(***************************************************************************)
EXTENDS BitField

CONSTANTS
    Keys,        \* keys of assignments other than "period"
    Period,      \* the key "period"
    Types,       \* perf_event_attr.type numbers the kernel hands out
    NotANumber,  \* a type file that does not hold a decimal number
    Malformed,   \* a term, or a format file, that does not parse
    Absent,      \* no such format file
    Formats,     \* what the format directory of a device may hold
    Events,      \* event strings, as sequences of terms
    Attrs,       \* the caller's perf_event_attr before the call
    MaxPlugs     \* bound on how often the device goes away or comes back

Members == {"config", "config1", "config2"}
AllKeys == Keys \cup {Period}

ConfigDefs == [member : Members, ranges : Seq(Ranges)]
Assignments == [key : AllKeys, value : Words]

ASSUME KeysAssumption == Period \notin Keys

ASSUME TypesAssumption == Types \subseteq Nat /\ NotANumber \notin Types

ASSUME FormatsAssumption ==
    \A f \in Formats :
        /\ f \in [Keys -> ConfigDefs \cup {Absent, Malformed}]
        /\ \A k \in Keys : f[k] \in ConfigDefs => ShiftsDefined(f[k].ranges)

ASSUME EventsAssumption ==
    \A e \in Events : e \in Seq(Assignments \cup {Malformed}) /\ Len(e) > 0

ASSUME AttrsAssumption == \A a \in Attrs : DOMAIN a = Members \cup {"type"}

Failed == -1
Running == 1

VARIABLES
    present,   \* the device has its directory in sysfs
    type,      \* content of [pmu]/type
    format,    \* content of the files in [pmu]/format
    plugs,     \* how often "present" has changed since the call began
    event,     \* ev->event, one element per comma separated term
    attr0,     \* *attr when the call began
    attr,      \* *attr
    pc,        \* "type", "parse", "apply" or "returned"
    asnList,   \* asn_list: the assignments parsed so far
    asnNr,     \* asn_nr: how many of them have been handled
    heap,      \* what the call has allocated or opened and not released
    badFree,   \* something was released that was not live
    noMemory,  \* a realloc has failed
    ret        \* the value returned, Running before

sysfs == <<present, type, format, plugs>>
args == <<format, event, attr0>>
vars == <<present, type, format, plugs, event, attr0, attr, pc, asnList, asnNr,
          heap, badFree, noMemory, ret>>

\* The objects of the ledger: the array of assignments, the copy of the event
\* string, the keys, and what read_perf_type opens and allocates.
Array == <<"array", 0>>
Copy == <<"copy", 0>>
Key(i) == <<"key", i>>
TypeFd == <<"fd", 0>>
TypeContent == <<"content", 0>>

Init ==
    /\ present \in BOOLEAN
    /\ type \in Types \cup {NotANumber}
    /\ format \in Formats
    /\ plugs = 0
    /\ event \in Events
    /\ attr0 \in Attrs
    /\ attr = attr0
    /\ pc = "type"
    /\ asnList = <<>>
    /\ asnNr = 0
    /\ heap = {}
    /\ badFree = FALSE
    /\ noMemory = FALSE
    /\ ret = Running

-----------------------------------------------------------------------------
Release(objects) ==
    /\ heap' = heap \ objects
    /\ badFree' = (badFree \/ ~ (objects \subseteq heap))

Return(value) ==
    /\ pc' = "returned"
    /\ ret' = value

\* *attr after an assignment to one of its members
With(member, value) == [attr EXCEPT ![member] = value]

\* free_assignment_list: every key, then the array
AssignmentListObjects == {Key(i) : i \in 1..Len(asnList)} \cup {Array}

-----------------------------------------------------------------------------
(***************************************************************************)
(* The kernel: the device goes away, or comes back and is registered under *)
(* a type number of its own.  Its driver, and so its formats, stay.        *)
(***************************************************************************)
DeviceChanges ==
    /\ pc # "returned"
    /\ plugs < MaxPlugs
    /\ plugs' = plugs + 1
    /\ present' = ~ present
    /\ \/ type' = type
       \/ ~ present /\ type' \in Types
    /\ UNCHANGED <<args, attr, pc, asnList, asnNr, heap, badFree, noMemory, ret>>

\* read_perf_type opens [pmu]/type and reads a number out of it.
ReadPerfType ==
    /\ pc = "type"
    /\ \/ /\ present
          /\ type \in Types
          /\ attr' = With("type", type)
          /\ pc' = "parse"
          /\ UNCHANGED <<heap, ret>>
       \/ /\ ~ present
          /\ attr' = With("type", Failed)
          /\ Return(Failed)
          /\ UNCHANGED heap
       \/ /\ present
          /\ type = NotANumber
          /\ attr' = With("type", Failed)
          /\ heap' = heap \cup {TypeFd, TypeContent}  \* returns without releasing them
          /\ Return(Failed)
    /\ UNCHANGED <<sysfs, event, attr0, asnList, asnNr, badFree, noMemory>>

(***************************************************************************)
(* One iteration of the loop of parse_assignment_list.  The array grows by *)
(* one element before the term is parsed; when either step fails the array *)
(* and the copy are released, the keys of the earlier terms are not.       *)
(***************************************************************************)
ParsedHeap ==
    heap \cup {Array, Copy, Key(Len(asnList) + 1)}

ParseTerm ==
    /\ pc = "parse"
    /\ LET term == event[Len(asnList) + 1]
       IN  /\ term # Malformed
           /\ asnList' = Append(asnList, term)
    /\ IF Len(asnList) + 1 = Len(event)
       THEN pc' = "apply" /\ heap' = ParsedHeap \ {Copy}
       ELSE pc' = "parse" /\ heap' = ParsedHeap
    /\ UNCHANGED <<sysfs, event, attr0, attr, asnNr, badFree, noMemory, ret>>

ParseFails ==
    /\ pc = "parse"
    /\ \/ event[Len(asnList) + 1] = Malformed /\ UNCHANGED noMemory
       \/ noMemory' = TRUE
    /\ heap' = heap \ {Array, Copy}
    /\ Return(Failed)
    /\ UNCHANGED <<sysfs, event, attr0, attr, asnList, asnNr, badFree>>

-----------------------------------------------------------------------------
\* parse_config_def on the format file of the key succeeds.
Resolves(key) == present /\ format[key] \notin {Absent, Malformed}

\* Mutant: every range takes the lowest bits of the value.
ApplyRangeList_Unshifted(config, value, ranges) ==
    LET Dealing[n \in 0..Len(ranges)] ==
            IF n = 0 THEN config ELSE ApplyRange(Dealing[n - 1], value, ranges[n])
    IN  Dealing[Len(ranges)]

\* apply_range_list_to_val, see ApplyRanges: *config and to_apply after n ranges
ApplyRangeList(config, value, ranges) ==
    LET Dealing[n \in 0..Len(ranges)] ==
            IF n = 0
            THEN [config |-> config, toApply |-> value]
            ELSE [config |-> ApplyRange(Dealing[n - 1].config, Dealing[n - 1].toApply, ranges[n]),
                  toApply |-> ShiftRight(Dealing[n - 1].toApply, RangeLen(ranges[n]))]
    IN  Dealing[Len(ranges)].config

NextAssignment == asnList[asnNr + 1]

SkipPeriod ==
    /\ pc = "apply"
    /\ asnNr < Len(asnList)
    /\ NextAssignment.key = Period
    /\ asnNr' = asnNr + 1
    /\ UNCHANGED <<sysfs, event, attr0, attr, pc, asnList, heap, badFree, noMemory, ret>>

\* Mutant: the word is built from zero instead of from the member's content.
ApplyAssignment_FromZero ==
    /\ pc = "apply"
    /\ asnNr < Len(asnList)
    /\ NextAssignment.key # Period
    /\ Resolves(NextAssignment.key)
    /\ LET def == format[NextAssignment.key]
       IN  attr' = With(def.member, ApplyRangeList({}, NextAssignment.value, def.ranges))
    /\ asnNr' = asnNr + 1
    /\ UNCHANGED <<sysfs, event, attr0, pc, asnList, heap, badFree, noMemory, ret>>

\* The format file resolves; the value goes into the member it names.
ApplyAssignment ==
    /\ pc = "apply"
    /\ asnNr < Len(asnList)
    /\ NextAssignment.key # Period
    /\ Resolves(NextAssignment.key)
    /\ LET def == format[NextAssignment.key]
       IN  attr' = With(def.member, ApplyRangeList(attr[def.member], NextAssignment.value,
                                                   def.ranges))
    /\ asnNr' = asnNr + 1
    /\ UNCHANGED <<sysfs, event, attr0, pc, asnList, heap, badFree, noMemory, ret>>

\* Mutant: an assignment that cannot be looked up is left out.
LookupFails_Skipped ==
    /\ pc = "apply"
    /\ asnNr < Len(asnList)
    /\ NextAssignment.key # Period
    /\ ~ Resolves(NextAssignment.key)
    /\ asnNr' = asnNr + 1
    /\ UNCHANGED <<sysfs, event, attr0, attr, pc, asnList, heap, badFree, noMemory, ret>>

\* Mutant: only the array of the assignments is released.
LookupFails_KeysKept ==
    /\ pc = "apply"
    /\ asnNr < Len(asnList)
    /\ NextAssignment.key # Period
    /\ ~ Resolves(NextAssignment.key)
    /\ Release({Array})
    /\ Return(Failed)
    /\ UNCHANGED <<sysfs, event, attr0, attr, asnList, asnNr, noMemory>>

\* The format file is missing, gone with its device, or does not parse, or
\* memory runs out while its ranges are parsed.
LookupFails ==
    /\ pc = "apply"
    /\ asnNr < Len(asnList)
    /\ NextAssignment.key # Period
    /\ \/ ~ Resolves(NextAssignment.key) /\ UNCHANGED noMemory
       \/ noMemory' = TRUE
    /\ Release(AssignmentListObjects)
    /\ Return(Failed)
    /\ UNCHANGED <<sysfs, event, attr0, attr, asnList, asnNr>>

Finish ==
    /\ pc = "apply"
    /\ asnNr = Len(asnList)
    /\ Release(AssignmentListObjects)
    /\ Return(0)
    /\ UNCHANGED <<sysfs, event, attr0, attr, asnList, asnNr, noMemory>>

Next ==
    \/ DeviceChanges
    \/ ReadPerfType
    \/ ParseTerm
    \/ ParseFails
    \/ SkipPeriod
    \/ ApplyAssignment
    \/ LookupFails
    \/ Finish

Spec == Init /\ [][Next]_vars

-----------------------------------------------------------------------------
\* Assignment i is one that writes bits, and these are the ranges it writes.
Writes(i) == asnList[i].key # Period
RangesOf(i) == format[asnList[i].key].ranges
MemberOf(i) == format[asnList[i].key].member
WritesBit(i, m, p) ==
    /\ Writes(i)
    /\ MemberOf(i) = m
    /\ p \in Covered(RangesOf(i), Len(RangesOf(i)))

\* The bit that assignment i leaves at a position it writes.
WrittenBit(i, p) ==
    \E r \in 1..Len(RangesOf(i)) :
        /\ Decides(RangesOf(i), Len(RangesOf(i)), r, p)
        /\ SourceBit(RangesOf(i), r, p) \in asnList[i].value

(***************************************************************************)
(* At every moment, also when the call fails half way, each bit of each    *)
(* config member is the one the last assignment handled so far that covers *)
(* it has put there, and the caller's own bit where there is none.         *)
(***************************************************************************)
AttrMatchesPrefix ==
    \A m \in Members : \A p \in Bits :
        LET writers == {i \in 1..asnNr : WritesBit(i, m, p)}
        IN  p \in attr[m] <=>
                IF writers = {}
                THEN p \in attr0[m]
                ELSE \E i \in writers : /\ \A j \in writers : j <= i
                                       /\ WrittenBit(i, p)

\* No position of a member is written by two ranges of the event's assignments.
FormatsDisjoint ==
    \A i, j \in {k \in 1..Len(asnList) : Writes(k)} :
        \A r \in 1..Len(RangesOf(i)), s \in 1..Len(RangesOf(j)) :
            /\ MemberOf(i) = MemberOf(j)
            /\ RangeBits(RangesOf(i)[r]) \cap RangeBits(RangesOf(j)[s]) # {}
            => i = j /\ r = s

\* What the driver reads back: the bits of its field, collected in order.
FieldValue(i) ==
    LET ranges == RangesOf(i)
    IN  {SourceBit(ranges, pr[1], pr[2]) :
            pr \in {q \in Dealt(ranges, Len(ranges)) : q[2] \in attr[MemberOf(i)]}}

(***************************************************************************)
(* After success the kernel's driver, which decodes the attr with the same *)
(* format files, finds in every field the value the event string assigns,  *)
(* cut to the width of the field: no assignment disturbs another, in       *)
(* whatever order they come and whatever member they go to.                *)
(***************************************************************************)
DriverReadsBack ==
    ret = 0 /\ FormatsDisjoint =>
        \A i \in 1..Len(asnList) :
            Writes(i) =>
                FieldValue(i) = {b \in asnList[i].value :
                                    b < Cardinality(Dealt(RangesOf(i), Len(RangesOf(i))))}

(***************************************************************************)
(* On a device that stays, with memory to be had, the call succeeds        *)
(* exactly when the type is a number, every term parses and every key but  *)
(* "period" has a format file that parses: the first bad term or file      *)
(* fails the call, wherever in the string it stands, and nothing else does.*)
(***************************************************************************)
ZeroIffResolvable ==
    pc = "returned" /\ plugs = 0 /\ ~ noMemory =>
        (ret = 0 <=>
            /\ present
            /\ type # NotANumber
            /\ \A i \in 1..Len(event) :
                /\ event[i] # Malformed
                /\ event[i].key # Period => Resolves(event[i].key))

(***************************************************************************)
(* What each way out of the call leaves behind, to the last block, and no  *)
(* path releases an object that is not live.  Once the event string has    *)
(* been parsed nothing is left, though a format file is missing or the     *)
(* device goes away half way.  Two ways out leave something, and no more   *)
(* than this: a type file that holds no number its file descriptor and its *)
(* content; a term that does not parse, or a failed realloc before it, the *)
(* keys of all terms before it.                                            *)
(***************************************************************************)
HeapBalanced ==
    /\ ~ badFree
    /\ pc = "returned" =>
        IF attr.type = Failed
        THEN heap \in {{}, {TypeFd, TypeContent}} /\ (type \in Types => heap = {})
        ELSE heap = IF Len(asnList) = Len(event) THEN {} ELSE {Key(i) : i \in DOMAIN asnList}
=============================================================================
