----------------------------- MODULE RangeLists -----------------------------
(***************************************************************************)
(* The way from a sysfs file to a list of ranges (src/src/pmu-events.c):   *)
(* get_file_content, then parse_range_list for a list of CPUs, or          *)
(* parse_config_def for a format file, which begins with the member of     *)
(* perf_event_attr that the ranges are bits of.                            *)
(*                                                                         *)
(* Texts are sequences of characters; a digit is its value, and the member *)
(* with its colon is one character.  The buffer of get_file_content is as  *)
(* long as lseek says, which is a page for a sysfs file, and what lies     *)
(* behind the bytes read is not initialised: it is chosen from Leftovers.  The  *)
(* blanks and the plus that strtoull also takes are not among the          *)
(* characters.                                                             *)
(***************************************************************************)
EXTENDS Integers, SequencesExt

CONSTANTS
    Dash, Comma, Newline,  \* the characters the parsers look for
    Chars,      \* the characters of the texts
    Members,    \* "config:", "config1:", "config2:"
    Files,      \* what the file may hold
    Leftovers,  \* what the buffer may hold behind it
    NoText,     \* NULL
    NoFile,     \* the file is not there
    Largest     \* the largest uint64_t

ASSUME LargestAssumption == Largest \in Nat
ASSUME CharsAssumption == Dash \notin 0..9 /\ Comma \notin 0..9 /\ Comma # Dash
ASSUME TextsAssumption == Files \subseteq Seq(Chars) /\ Leftovers \subseteq Seq(Chars)

Failed == -1
Running == 1

VARIABLES
    file,      \* content of the file
    asFormat,  \* parse_config_def, or else parse_range_list
    content,   \* the string get_file_content returns
    cur,       \* cur_range: the text from the term at hand on
    member,    \* def->var
    ranges,    \* list->ranges
    parsePc,   \* "read", "member", "term" or "returned"
    noMemory,  \* a realloc has failed
    heap,      \* what is allocated
    ret        \* the value returned, Running before

parseVars == <<file, asFormat, content, cur, member, ranges, parsePc, noMemory, heap, ret>>

ParseInit ==
    /\ file \in Files \cup {NoFile}
    /\ asFormat \in BOOLEAN
    /\ content = NoText
    /\ cur = <<>>
    /\ member = NoText
    /\ ranges = <<>>
    /\ parsePc = "read"
    /\ noMemory = FALSE
    /\ heap = {}
    /\ ret = Running

-----------------------------------------------------------------------------
\* strchr: the text before the first c, or all of it, and the text behind it.
At(s, c) == SelectInSeq(s, LAMBDA d : d = c)
Before(s, c) == IF At(s, c) = 0 THEN s ELSE SubSeq(s, 1, At(s, c) - 1)
Behind(s, c) == SubSeq(s, At(s, c) + 1, Len(s))

\* strtoull in base 10: an optional minus, which negates modulo Largest + 1, and digits;
\* without digits nothing is read, and a number that does not fit is read as the
\* largest one whatever its sign.  [value, rest]
Value(digits) ==
    LET value[n \in 0..Len(digits)] == IF n = 0 THEN 0 ELSE 10 * value[n - 1] + digits[n]
    IN  value[Len(digits)]
strtoull(s) ==
    LET sign == IF s # <<>> /\ Head(s) = Dash THEN 1 ELSE 0
        last == Max({k \in sign..Len(s) : \A j \in (sign + 1)..k : s[j] \in 0..9} \cup {0})
        value == Value(SubSeq(s, sign + 1, last))
    IN  IF last <= sign
        THEN [value |-> 0, rest |-> s]
        ELSE [value |-> IF value > Largest THEN Largest
                        ELSE IF sign = 1 THEN (Largest + 1 - value) % (Largest + 1) ELSE value,
              rest |-> SubSeq(s, last + 1, Len(s))]

Range_(a, b) == [start |-> a, end |-> b]

\* Mutant: what follows the second number is not looked at.
ParseRange_Unchecked(term) ==
    LET single == At(term, Dash) = 0
        first == strtoull(term)
        second == IF single THEN first ELSE strtoull(Behind(term, Dash))
    IN  IF \/ term = <<>>
           \/ single /\ first.rest # <<>>
           \/ ~ single /\ (first.rest = <<>> \/ Head(first.rest) # Dash
                           \/ Behind(term, Dash) = <<>>)
        THEN {}
        ELSE {Range_(first.value, second.value)}

\* parse_range: the range, or none if the term is no good.
ParseRange(term) ==
    LET single == At(term, Dash) = 0
        first == strtoull(term)
        second == IF single THEN first ELSE strtoull(Behind(term, Dash))
    IN  IF \/ term = <<>>
           \/ second.rest # <<>>
           \/ ~ single /\ (first.rest = <<>> \/ Head(first.rest) # Dash
                           \/ Behind(term, Dash) = <<>>)
        THEN {}
        ELSE {Range_(first.value, second.value)}

-----------------------------------------------------------------------------
Return(value) ==
    /\ ret' = value
    /\ parsePc' = "returned"

\* open, lseek or read fails; open always does when the file is not there.
ReadFails ==
    /\ parsePc = "read"
    /\ Return(Failed)
    /\ UNCHANGED <<file, asFormat, content, cur, member, ranges, noMemory, heap>>

\* Mutant: the text is not cut at the newline.
ReadContent_Uncut ==
    /\ parsePc = "read"
    /\ file # NoFile
    /\ \E rest \in Leftovers : content' = file \o rest
    /\ heap' = {"content"}
    /\ parsePc' = IF asFormat THEN "member" ELSE "term"
    /\ cur' = content'
    /\ UNCHANGED <<file, asFormat, member, ranges, noMemory, ret>>

\* get_file_content: the text up to the newline, if there is one.
ReadContent ==
    /\ parsePc = "read"
    /\ file # NoFile
    /\ \E rest \in Leftovers : content' = Before(file \o rest, Newline)
    /\ heap' = {"content"}
    /\ parsePc' = IF asFormat THEN "member" ELSE "term"
    /\ cur' = content'
    /\ UNCHANGED <<file, asFormat, member, ranges, noMemory, ret>>

ParseMember ==
    /\ parsePc = "member"
    /\ IF cur # <<>> /\ Head(cur) \in Members
       THEN /\ member' = Head(cur)
            /\ cur' = Tail(cur)
            /\ parsePc' = "term"
            /\ UNCHANGED <<heap, ret>>
       ELSE /\ heap' = heap \ {"content"}
            /\ Return(Failed)
            /\ UNCHANGED <<member, cur>>
    /\ UNCHANGED <<file, asFormat, content, ranges, noMemory>>

\* One turn of the loop.  The array grows before the term is parsed; with the
\* last term the copy of the text, and then the caller's content, is released.
ParseTerm ==
    /\ parsePc = "term"
    /\ ParseRange(Before(cur, Comma)) # {}
    /\ \E r \in ParseRange(Before(cur, Comma)) : ranges' = Append(ranges, r)
    /\ IF At(cur, Comma) = 0
       THEN /\ heap' = (heap \cup {"ranges"}) \ {"copy", "content"}
            /\ Return(0)
            /\ UNCHANGED cur
       ELSE /\ cur' = Behind(cur, Comma)
            /\ heap' = heap \cup {"copy", "ranges"}
            /\ UNCHANGED <<parsePc, ret>>
    /\ UNCHANGED <<file, asFormat, content, member, noMemory>>

\* Mutant: a term that fails does not release the ranges before it.
TermFails_RangesKept ==
    /\ parsePc = "term"
    /\ \/ ParseRange(Before(cur, Comma)) = {} /\ UNCHANGED noMemory
       \/ noMemory' = TRUE
    /\ heap' = heap \ {"copy", "content"}
    /\ Return(Failed)
    /\ UNCHANGED <<file, asFormat, content, cur, member, ranges>>

\* The list->ranges of the caller keeps the address of what was released.
TermFails ==
    /\ parsePc = "term"
    /\ \/ ParseRange(Before(cur, Comma)) = {} /\ UNCHANGED noMemory
       \/ noMemory' = TRUE
    /\ heap' = heap \ {"ranges", "copy", "content"}
    /\ Return(Failed)
    /\ UNCHANGED <<file, asFormat, content, cur, member, ranges>>

ParseNext ==
    \/ ReadFails
    \/ ReadContent
    \/ ParseMember
    \/ ParseTerm
    \/ TermFails

ParseSpec == ParseInit /\ [][ParseNext]_parseVars

-----------------------------------------------------------------------------
\* The comma separated terms of a text, as the intervals of their positions.
Separators(s) == {k \in DOMAIN s : s[k] = Comma} \cup {0, Len(s) + 1}
TermsOf(s) ==
    {t \in Separators(s) \X Separators(s) :
        t[1] < t[2] /\ \A k \in Separators(s) : k <= t[1] \/ k >= t[2]}
TermText(s, t) == SubSeq(s, t[1] + 1, t[2] - 1)

\* "5" and "4-7", the terms of the comment above parse_range.
IsNumber(s) == s # <<>> /\ \A k \in DOMAIN s : s[k] \in 0..9
IsPair(s, k) == s[k] = Dash /\ IsNumber(SubSeq(s, 1, k - 1)) /\ IsNumber(SubSeq(s, k + 1, Len(s)))
WellFormed(s) == IsNumber(s) \/ \E k \in DOMAIN s : IsPair(s, k)
Number(s) == Min({Value(s), Largest})
Meaning(s) ==
    IF IsNumber(s)
    THEN Range_(Number(s), Number(s))
    ELSE LET k == CHOOSE k \in DOMAIN s : IsPair(s, k)
         IN  Range_(Number(SubSeq(s, 1, k - 1)), Number(SubSeq(s, k + 1, Len(s))))

\* strtoull takes a sign in the second number, and none before the dash.
DoubleDash(s) ==
    \E k \in DOMAIN s : /\ s[k] = Dash /\ k < Len(s) /\ s[k + 1] = Dash
                       /\ (k = 1 \/ IsNumber(SubSeq(s, 1, k - 1)))
                       /\ IsNumber(SubSeq(s, k + 2, Len(s)))

\* The list behind the member, if there has to be one.
ListText == IF asFormat THEN Tail(content) ELSE content
TermTexts == {TermText(ListText, t) : t \in TermsOf(ListText)}

(***************************************************************************)
(* parse_range_list takes the lists of terms "5" and "4-7" with a comma    *)
(* between any two, and gives one range for each, in their order, with the *)
(* numbers that are written there (the largest one for what does not fit). *)
(* Of other texts it takes those in which the second number of a pair has  *)
(* a sign of its own, and no more.                                         *)
(***************************************************************************)
TakesWhatIsWellFormed ==
    parsePc = "returned" /\ content # NoText =>
        /\ ret = 0 =>
            /\ asFormat => content # <<>> /\ Head(content) = member
            /\ \A s \in TermTexts : WellFormed(s) \/ DoubleDash(s)
            /\ Len(ranges) = Cardinality(TermsOf(ListText))
            /\ \A t \in TermsOf(ListText) :
                WellFormed(TermText(ListText, t)) =>
                    ranges[Cardinality({k \in Separators(ListText) : k < t[2]})]
                        = Meaning(TermText(ListText, t))
        /\ ret = Failed =>
            \/ noMemory
            \/ asFormat /\ (content = <<>> \/ Head(content) \notin Members)
            \/ \E s \in TermTexts : ~ WellFormed(s) /\ ~ DoubleDash(s)

(***************************************************************************)
(* Of a file with a newline, what is parsed is its first line, whatever    *)
(* the buffer holds behind the bytes that were read.                       *)
(***************************************************************************)
FirstLineParsed ==
    content # NoText /\ Contains(file, Newline) =>
        IsPrefix(Append(content, Newline), file) /\ ~ Contains(content, Newline)

(***************************************************************************)
(* When the call has returned, the ranges are live if and only if it has   *)
(* succeeded, and nothing else is.                                         *)
(***************************************************************************)
RangesLiveOnSuccess == parsePc = "returned" => heap = (IF ret = 0 THEN {"ranges"} ELSE {})
=============================================================================
