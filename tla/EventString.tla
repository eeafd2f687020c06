----------------------------- MODULE EventString -----------------------------
(***************************************************************************)
(* The two ends of an event string: JsonEvent.__init__ (src/jevents.py)    *)
(* writes "event=0xc0,umask=1" out of an entry of a json file, and         *)
(* parse_assignment_list (src/src/pmu-events.c) reads it back.  Python     *)
(* writes numbers in the base it finds them in, C reads all of them in     *)
(* base 16.                                                                *)
(*                                                                         *)
(* A numeral is a number and the base it is written in, base 16 with its   *)
(* 0x.                                                                     *)
(***************************************************************************)
EXTENDS Integers, SequencesExt

CONSTANTS
    MaxNumber,   \* bound on the numbers of an entry
    Codes,       \* EventCode: numerals
    ExtSels,     \* ExtSel: numbers
    FieldKeys,   \* keys of event_fields, in their order
    Fields,      \* the values of those fields an entry may have
    Filters,     \* Filter: terms that are taken over as they are
    Msrs,        \* MSRIndex with MSRValue: a term, Missing, or Malformed
    ConfigCodes, \* ConfigCode: a numeral, or Missing
    IdCodes,     \* EventidCode: a numeral, or Missing
    StdEvent,    \* the event string of the architecture standard event
    FixedEvent,  \* the string that real_event has for a well known name
    Missing,     \* the key is not in the entry
    Malformed    \* a text that int() or the table of msrs does not accept

Numerals == [base : {10, 16}, n : 0..MaxNumber]

\* The terms of event strings that jevents takes over as they are.
Terms == [key : STRING, text : Numerals]

ASSUME CodesAssumption ==
    /\ MaxNumber \in Nat
    /\ Codes \subseteq Numerals /\ ExtSels \subseteq Nat
    /\ ConfigCodes \cup IdCodes \subseteq Numerals \cup {Missing}
ASSUME FieldsAssumption ==
    /\ FieldKeys \in Seq(STRING)
    /\ Fields \subseteq [1..Len(FieldKeys) -> Numerals \cup {Missing, Malformed}]
ASSUME TermsAssumption ==
    /\ Filters \subseteq Seq(Terms)
    /\ Msrs \subseteq Terms \cup {Missing, Malformed}
    /\ {StdEvent, FixedEvent} \subseteq Seq(Terms)

VARIABLES
    entry,    \* jd, the dictionary of one json event
    pc,       \* "head", "fields", "resolve", "parse", "done", "raised"
    fieldNr,  \* how many of event_fields have been visited
    event,    \* the event string: a sequence of keys with their texts
    parsed    \* the assignments read back by the C code

vars == <<entry, pc, fieldNr, event, parsed>>

Term(key, text) == [key |-> key, text |-> text]

-----------------------------------------------------------------------------
\* llx: below 10 the digit alone, else hexadecimal with its 0x
llx(x) == [base |-> IF x < 10 THEN 10 ELSE 16, n |-> x]

\* Hexadecimal texts are normalised, decimal ones stay decimal.
canonicalize_value(val) == IF val.base = 16 THEN llx(val.n) ELSE val

\* What decimal digits are in base 16.
DigitsReadAsHex[n \in Nat] ==
    IF n < 10 THEN n ELSE 16 * DigitsReadAsHex[n \div 10] + (n % 10)

\* strtoull(text, &endptr, 16): the prefix is optional.
parse_value(text) == IF text.base = 16 THEN text.n ELSE DigitsReadAsHex[text.n]

-----------------------------------------------------------------------------
Entries ==
    [code : Codes, ext : ExtSels, config : ConfigCodes, id : IdCodes,
     fields : Fields, filter : Filters, msr : Msrs,
     std : {"none", "known", "unknown"}, fixed : BOOLEAN]

Init ==
    /\ entry \in Entries
    /\ pc = "head"
    /\ fieldNr = 0
    /\ event = <<>>
    /\ parsed = <<>>

\* ExtSel << 8, with the byte cut down to the scale of MaxNumber
EventCode(code, ext) == code + ext * (MaxNumber + 1)

\* ConfigCode before EventidCode before EventCode with ExtSel
HeadKey ==
    IF entry.config # Missing THEN "config" ELSE IF entry.id # Missing THEN "eventid" ELSE "event"

HeadNumber ==
    CASE HeadKey = "config"  -> entry.config.n
      [] HeadKey = "eventid" -> entry.id.n
      [] HeadKey = "event"   -> EventCode(entry.code.n, entry.ext)

\* lookup_msr: a register outside its table raises KeyError.
MsrRaises ==
    /\ pc = "head"
    /\ entry.msr = Malformed
    /\ pc' = "raised"
    /\ UNCHANGED <<entry, fieldNr, event, parsed>>

WriteHead ==
    /\ pc = "head"
    /\ entry.msr # Malformed
    /\ event' = <<Term(HeadKey, llx(HeadNumber))>>
    /\ pc' = "fields"
    /\ UNCHANGED <<entry, fieldNr, parsed>>

NextField == entry.fields[fieldNr + 1]

\* "key in jd and not is_zero(jd[key])", for a text that int() accepts
Omitted(field) == IF field = Missing THEN TRUE ELSE field.n = 0

\* A field that is absent or zero is left out.
SkipField ==
    /\ pc = "fields"
    /\ fieldNr < Len(FieldKeys)
    /\ NextField # Malformed
    /\ Omitted(NextField)
    /\ fieldNr' = fieldNr + 1
    /\ UNCHANGED <<entry, pc, event, parsed>>

WriteField ==
    /\ pc = "fields"
    /\ fieldNr < Len(FieldKeys)
    /\ NextField # Malformed
    /\ ~ Omitted(NextField)
    /\ event' = Append(event, Term(FieldKeys[fieldNr + 1], canonicalize_value(NextField)))
    /\ fieldNr' = fieldNr + 1
    /\ UNCHANGED <<entry, pc, parsed>>

\* is_zero: int() raises, and the handler "except e" raises NameError in turn.
FieldRaises ==
    /\ pc = "fields"
    /\ fieldNr < Len(FieldKeys)
    /\ NextField = Malformed
    /\ pc' = "raised"
    /\ UNCHANGED <<entry, fieldNr, event, parsed>>

\* The filter and the msr term are appended as they stand in the entry.
WriteTail ==
    /\ pc = "fields"
    /\ fieldNr = Len(FieldKeys)
    /\ event' = event \o entry.filter \o (IF entry.msr = Missing THEN <<>> ELSE <<entry.msr>>)
    /\ pc' = "resolve"
    /\ UNCHANGED <<entry, fieldNr, parsed>>

\* Mutant: the string of the standard event is appended to the entry's own.
Resolve_Append ==
    /\ pc = "resolve"
    /\ entry.std # "unknown"
    /\ event' = IF entry.fixed THEN FixedEvent
                ELSE IF entry.std = "known" THEN event \o StdEvent ELSE event
    /\ pc' = "parse"
    /\ UNCHANGED <<entry, fieldNr, parsed>>

\* ArchStdEvent replaces the string, and a well known name replaces both.
Resolve ==
    /\ pc = "resolve"
    /\ entry.std # "unknown"
    /\ event' = IF entry.fixed THEN FixedEvent
                ELSE IF entry.std = "known" THEN StdEvent ELSE event
    /\ pc' = "parse"
    /\ UNCHANGED <<entry, fieldNr, parsed>>

\* Cannot find arch std event
ResolveRaises ==
    /\ pc = "resolve"
    /\ entry.std = "unknown"
    /\ pc' = "raised"
    /\ UNCHANGED <<entry, fieldNr, event, parsed>>

Assignment(term) == [key |-> term.key, value |-> parse_value(term.text)]

\* One term read by parse_assignment and put at the end of the list.
ParseAssignment ==
    /\ pc = "parse"
    /\ Len(parsed) < Len(event)
    /\ parsed' = Append(parsed, Assignment(event[Len(parsed) + 1]))
    /\ UNCHANGED <<entry, pc, fieldNr, event>>

ParseEnds ==
    /\ pc = "parse"
    /\ Len(parsed) = Len(event)
    /\ pc' = "done"
    /\ UNCHANGED <<entry, fieldNr, event, parsed>>

Next ==
    \/ MsrRaises
    \/ WriteHead
    \/ SkipField
    \/ WriteField
    \/ FieldRaises
    \/ WriteTail
    \/ Resolve
    \/ ResolveRaises
    \/ ParseAssignment
    \/ ParseEnds

Spec == Init /\ [][Next]_vars

-----------------------------------------------------------------------------
\* The assignments an entry asks for, as numbers: what its keys say.
Meant(term) == [key |-> term.key, value |-> term.text.n]

OwnAssignments ==
    {[key |-> HeadKey, value |-> HeadNumber]}
    \cup {[key |-> FieldKeys[f], value |-> entry.fields[f].n] :
            f \in {g \in DOMAIN FieldKeys :
                    ~ Omitted(entry.fields[g])}}
    \cup {Meant(entry.filter[t]) : t \in DOMAIN entry.filter}
    \cup (IF entry.msr = Missing THEN {} ELSE {Meant(entry.msr)})

Assignments ==
    IF entry.fixed THEN {Meant(FixedEvent[t]) : t \in DOMAIN FixedEvent}
    ELSE IF entry.std = "known" THEN {Meant(StdEvent[t]) : t \in DOMAIN StdEvent}
    ELSE OwnAssignments

\* Decimal numbers that do not read the same in base 16.
HasLongDecimal == \E t \in DOMAIN event : event[t].text.base = 10 /\ event[t].text.n > 9

(***************************************************************************)
(* The assignments the C code reads are those the entry asks for, with     *)
(* their values, as long as no number of the string is written in decimal  *)
(* with more than one digit: zero fields are left out, hexadecimal and     *)
(* one-digit numbers survive, and a standard event or a well known name    *)
(* takes the place of the entry's own fields.                              *)
(***************************************************************************)
AssignmentsSurvive ==
    pc = "done" /\ ~ HasLongDecimal =>
        {parsed[t] : t \in DOMAIN parsed} = Assignments

(***************************************************************************)
(* README.md: the library offers "1:1 compatability with perf event names",*)
(* so an event means what its json entry says, whatever base its numbers   *)
(* are written in.                                                         *)
(***************************************************************************)
EveryValueSurvives ==
    pc = "done" => {parsed[t] : t \in DOMAIN parsed} = Assignments
=============================================================================
