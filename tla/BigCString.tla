------------------------------ MODULE BigCString ------------------------------
(***************************************************************************)
(* BigCString of src/jevents.py: all strings of the generated tables in    *)
(* one C string, and the offset of each.  A string that another one ends   *)
(* with is not written but found at the end of the other one.              *)
(*                                                                         *)
(* Strings are what Python holds: the characters of the source of a C      *)
(* string literal, escapes included.  Folding looks at these characters;   *)
(* the offsets count those the C compiler makes of them.                   *)
(***************************************************************************)
EXTENDS Integers, FiniteSets, SequencesExt

CONSTANT Chars   \* the characters, in their order

Backslash == "\\"
NulEscape == <<Backslash, "0", "0", "0">>

ASSUME CharsAssumption ==
    /\ Chars \in Seq(Range(Chars))
    /\ {Backslash, "0", "1", "_"} \subseteq Range(Chars)

\* What Python and the json files call a string
Texts == Seq(Range(Chars))

VARIABLES
    pc,      \* "add", "fold", "emit", "offsets", "done"
    strings, \* the strings in the order they were added: insert_point
    metrics, \* those that were added for a metric first
    sorted,  \* the reversed strings, sorted
    pos,     \* how many of sorted have been folded
    folded,  \* folded_strings
    big,     \* big_string
    bigOffset,
    offsets

bcsVars == <<strings, metrics, sorted, pos, folded, big, bigOffset, offsets>>

-----------------------------------------------------------------------------
\* utf.count: occurrences that do not overlap, from the left
CountOf(pattern, s) ==
    LET inLast[n \in 0..Len(s)] ==   \* in the last n characters
            LET i == Len(s) - n + 1
            IN  IF n < Len(pattern) THEN 0
                ELSE IF SubSeq(s, i, i + Len(pattern) - 1) = pattern THEN 1 + inLast[n - Len(pattern)]
                ELSE inLast[n - 1]
    IN  inLast[Len(s)]

\* Mutant: the digits of \000 are counted.
c_len_NulDigits(s) ==
    Len(s) - CountOf(<<Backslash>>, s) + CountOf(<<Backslash, Backslash>>, s)

c_len(s) ==
    Len(s) - CountOf(<<Backslash>>, s) + CountOf(<<Backslash, Backslash>>, s)
    - 2 * CountOf(NulEscape, s)

\* What the C compiler makes of the source s, character by character: \000 is one, and
\* so is a backslash with the character behind it.  A character is what its source is.
SourceLen(s, i) ==
    IF s[i] # Backslash \/ i = Len(s) THEN 1
    ELSE IF i + 3 <= Len(s) /\ SubSeq(s, i, i + 3) = NulEscape THEN 4
    ELSE 2
Compiled(s) ==
    LET last[n \in 0..Len(s)] ==     \* the last n characters
            LET i == Len(s) - n + 1
            IN  IF n = 0 THEN <<>>
                ELSE <<SubSeq(s, i, i + SourceLen(s, i) - 1)>> \o last[n - SourceLen(s, i)]
    IN  last[Len(s)]

Rank(char) == CHOOSE i \in DOMAIN Chars : Chars[i] = char

\* The order of Python's strings
Less(s, t) ==
    \/ IsStrictPrefix(s, t)
    \/ \E i \in DOMAIN s \cap DOMAIN t :
          /\ SubSeq(s, 1, i - 1) = SubSeq(t, 1, i - 1)
          /\ Rank(s[i]) < Rank(t[i])

\* sorted(): the elements of S in the order of the pairs R
Ordered(S, R) ==
    [k \in 1..Cardinality(S) |-> CHOOSE x \in S : Cardinality({y \in S : <<y, x>> \in R}) = k - 1]

Extended(f, x, y) == [z \in DOMAIN f \cup {x} |-> IF z = x THEN y ELSE f[z]]

-----------------------------------------------------------------------------
BcsInit ==
    /\ strings = <<>>
    /\ metrics = {}
    /\ sorted = <<>>
    /\ pos = 0
    /\ folded = <<>>
    /\ big = <<>>
    /\ bigOffset = 0
    /\ offsets = <<>>

\* add(s, metric=False) for each of forEvent, then add(s, metric=True) for each
\* of forMetric.  A string that is there already keeps its place and its kind.
Added(new) ==
    LET list[n \in 0..Len(new)] ==
            IF n = 0 THEN strings
            ELSE IF Contains(list[n - 1], new[n]) THEN list[n - 1] ELSE Append(list[n - 1], new[n])
    IN  list[Len(new)]
AddAll(forEvent, forMetric) ==
    /\ strings' = Added(forEvent \o forMetric)
    /\ metrics' = metrics \cup (Range(forMetric) \ (Range(strings) \cup Range(forEvent)))
    /\ UNCHANGED <<sorted, pos, folded, big, bigOffset, offsets>>

\* compute()
Compute ==
    /\ pc = "add"
    /\ LET reversed == {Reverse(s) : s \in Range(strings)}
       IN  sorted' = Ordered(reversed, {p \in reversed \X reversed : Less(p[1], p[2])})
    /\ pc' = "fold"
    /\ UNCHANGED <<strings, metrics, pos, folded, big, bigOffset, offsets>>

\* Mutant: the scan never looks at the last string.
BestPos_Short(p) ==
    IF p >= Len(sorted) - 1 THEN p
    ELSE CHOOSE best \in p..(Len(sorted) - 1) :
            /\ \A q \in p..best : IsPrefix(sorted[p], sorted[q])
            /\ best < Len(sorted) - 1 => ~ IsPrefix(sorted[p], sorted[best + 1])

\* The last of the strings behind p that all start with the string at p
BestPos(p) ==
    CHOOSE best \in p..Len(sorted) :
        /\ \A q \in p..best : IsPrefix(sorted[p], sorted[q])
        /\ best < Len(sorted) => ~ IsPrefix(sorted[p], sorted[best + 1])

FoldString ==
    /\ pc = "fold"
    /\ pos < Len(sorted)
    /\ LET s == Reverse(sorted[pos + 1])
           best == BestPos(pos + 1)
       IN  folded' = IF best = pos + 1 THEN folded
                     ELSE Extended(folded, s, Reverse(sorted[best]))
    /\ pos' = pos + 1
    /\ UNCHANGED <<pc, strings, metrics, sorted, big, bigOffset, offsets>>

FoldEnds ==
    /\ pc = "fold"
    /\ pos = Len(sorted)
    /\ pc' = "emit"
    /\ UNCHANGED <<strings, metrics, sorted, pos, folded, big, bigOffset, offsets>>

\* Strings that are not folded, events before metrics, in the order of their
\* insertion
ToEmit == Range(strings) \ (DOMAIN folded \cup DOMAIN offsets)
InsertPoint(s) == CHOOSE i \in DOMAIN strings : strings[i] = s
EmittedBefore(s, t) ==
    IF (s \in metrics) = (t \in metrics) THEN InsertPoint(s) < InsertPoint(t) ELSE t \in metrics

EmitString ==
    /\ pc = "emit"
    /\ \E s \in ToEmit :
          /\ \A t \in ToEmit \ {s} : EmittedBefore(s, t)
          /\ offsets' = Extended(offsets, s, bigOffset)
          /\ big' = big \o s
          /\ bigOffset' = bigOffset + c_len(s)
    /\ UNCHANGED <<pc, strings, metrics, sorted, pos, folded>>

EmitEnds ==
    /\ pc = "emit"
    /\ ToEmit = {}
    /\ pc' = "offsets"
    /\ UNCHANGED <<strings, metrics, sorted, pos, folded, big, bigOffset, offsets>>

\* One folded string; a missing offset of its target raises KeyError.
PlaceFolded ==
    /\ pc = "offsets"
    /\ \E s \in DOMAIN folded \ DOMAIN offsets :
          /\ folded[s] \in DOMAIN offsets
          /\ offsets' = Extended(offsets, s, offsets[folded[s]] + c_len(folded[s]) - c_len(s))
    /\ UNCHANGED <<pc, strings, metrics, sorted, pos, folded, big, bigOffset>>

PlaceEnds ==
    /\ pc = "offsets"
    /\ DOMAIN folded \subseteq DOMAIN offsets
    /\ pc' = "done"
    /\ UNCHANGED <<strings, metrics, sorted, pos, folded, big, bigOffset, offsets>>

BcsStep ==
    \/ Compute
    \/ FoldString
    \/ FoldEnds
    \/ EmitString
    \/ EmitEnds
    \/ PlaceFolded
    \/ PlaceEnds

-----------------------------------------------------------------------------
ReadsBack(memory, s) ==
    LET text == Compiled(s)
    IN  /\ offsets[s] + Len(text) <= Len(memory)
        /\ SubSeq(memory, offsets[s] + 1, offsets[s] + Len(text)) = text

\* The end of t that has the characters of s begins in the middle of an escape.
SplitsEscape(s, t) == IsSuffix(s, t) /\ ~ IsSuffix(Compiled(s), Compiled(t))
\* A backslash character with the digits 000 behind it is not the escape \000.
LooksLikeNul(s) == CountOf(NulEscape, s) # CountOf(<<NulEscape>>, Compiled(s))
PlainEscapes ==
    \A s \in Range(strings) :
        ~ LooksLikeNul(s) /\ \A t \in Range(strings) : ~ SplitsEscape(s, t)

(***************************************************************************)
(* At its offset in the compiled string every string that was added is     *)
(* found, whatever was folded into what, when no string is the end of      *)
(* another one in the middle of an escape.                                 *)
(***************************************************************************)
OffsetsReadBack ==
    pc = "done" /\ PlainEscapes =>
        LET memory == Compiled(big) IN \A s \in Range(strings) : ReadsBack(memory, s)

(***************************************************************************)
(* All strings that can be saved are, and each of them at an offset that   *)
(* can be computed: a string is folded if and only if it is the end of     *)
(* another one that was added, and then into one it is the end of and that *)
(* is written itself, so folding makes no chains.                          *)
(***************************************************************************)
FoldedIntoWritten ==
    pc \notin {"add", "fold"} =>
        /\ DOMAIN folded = {s \in Range(strings) : \E t \in Range(strings) \ {s} : IsSuffix(s, t)}
        /\ \A s \in DOMAIN folded :
              folded[s] \in Range(strings) \ DOMAIN folded /\ IsSuffix(s, folded[s])
=============================================================================
