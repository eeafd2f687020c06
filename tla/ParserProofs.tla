---------------------------- MODULE ParserProofs ----------------------------
(***************************************************************************)
(* Theorems about the parsers of the C library: of lists of ranges         *)
(* (RangeLists) and of event strings (EventString), for texts of any       *)
(* length over any characters.                                             *)
(***************************************************************************)
EXTENDS RangeLists, EventString, TLAPS, FiniteSetTheorems, SequenceTheorems, WellFoundedInduction

-----------------------------------------------------------------------------
(* Lemmas about numbers and sequences. *)

\* A set of natural numbers has a least one, and a bounded one a greatest.
LEMMA LeastNumber ==
    ASSUME NEW S, S \subseteq Nat, S # {}
    PROVE  \E n \in S : \A m \in S : n <= m
<1>1. \E n \in S : \A m \in S : ~ (<<m, n>> \in OpToRel(<, Nat))
    BY WFMin, NatLessThanWellFounded
<1>2. PICK n \in S : \A m \in S : ~ (<<m, n>> \in OpToRel(<, Nat))
    BY <1>1
<1>3. \A m \in S : m < n => <<m, n>> \in OpToRel(<, Nat)
    BY DEF OpToRel
<1>4. ASSUME NEW m \in S
      PROVE  n <= m
    <2>1. n \in Nat /\ m \in Nat /\ ~ (m < n)
        BY <1>2, <1>3
    <2>2. QED
        BY <2>1
<1>5. QED
    BY <1>4

LEMMA GreatestNumber ==
    ASSUME NEW b \in Nat, NEW S, S \subseteq 0..b, S # {}
    PROVE  Max(S) \in S /\ \A m \in S : Max(S) >= m
<1> DEFINE D == {d \in Nat : b - d \in S}
<1>1. PICK m \in S : TRUE
    OBVIOUS
<1>2. b - m \in D
    OBVIOUS
<1>3. PICK d \in D : \A e \in D : d <= e
    BY <1>2, LeastNumber
<1>4. \A n \in S : b - n \in D
    OBVIOUS
<1>5. b - d \in S /\ \A n \in S : b - d >= n
    BY <1>3, <1>4
<1>6. QED
    BY <1>5 DEF Max

\* strchr: the first place of c in s, or 0.
LEMMA FirstPlace ==
    ASSUME NEW S, NEW s \in Seq(S), NEW c
    PROVE  /\ At(s, c) \in 0..Len(s)
           /\ At(s, c) = 0 => \A k \in 1..Len(s) : s[k] # c
           /\ At(s, c) # 0 => s[At(s, c)] = c /\ \A k \in 1..Len(s) : k < At(s, c) => s[k] # c
<1> DEFINE I == {k \in 1..Len(s) : s[k] = c}
<1>1. At(s, c) = IF I # {} THEN Min(I) ELSE 0
    BY DEF At, SelectInSeq
<1>2. Len(s) \in Nat
    OBVIOUS
<1>3. CASE I = {}
    BY <1>1, <1>2, <1>3
<1>4. CASE I # {}
    <2>1. I \subseteq Nat
        BY <1>2
    <2>2. \E n \in I : \A m \in I : n <= m
        <3> HIDE DEF I
        <3>1. QED
            BY <1>4, <2>1, LeastNumber
    <2>3. Min(I) \in I /\ \A m \in I : Min(I) <= m
        BY <2>2 DEF Min
    <2>4. At(s, c) = Min(I)
        BY <1>1, <1>4
    <2>5. \A k \in 1..Len(s) : k < Min(I) => s[k] # c
        <3> SUFFICES ASSUME NEW k \in 1..Len(s), k < Min(I), s[k] = c
                     PROVE  FALSE
            OBVIOUS
        <3>1. Min(I) <= k /\ Min(I) \in Nat
            BY <2>1, <2>3
        <3>2. QED
            BY <1>2, <3>1
    <2> HIDE DEF I
    <2>6. QED
        BY <1>2, <2>3, <2>4, <2>5 DEF I
<1>5. QED
    BY <1>3, <1>4

\* The part of a sequence between two of its places.
LEMMA PartOf ==
    ASSUME NEW S, NEW s \in Seq(S), NEW m \in 1..(Len(s) + 1), NEW n \in 0..Len(s), m <= n + 1
    PROVE  /\ SubSeq(s, m, n) \in Seq(S)
           /\ Len(SubSeq(s, m, n)) = n - m + 1
           /\ \A k \in 1..(n - m + 1) : SubSeq(s, m, n)[k] = s[m + k - 1]
<1>1. Len(s) \in Nat /\ \A k \in 1..Len(s) : s[k] \in S
    OBVIOUS
<1>2. \A k \in m..n : s[k] \in S
    BY <1>1
<1>3. QED
    BY <1>1, <1>2, SubSeqProperties

\* The text before the first c is all there is, or ends there.
LEMMA BeforeIs ==
    ASSUME NEW S, NEW s \in Seq(S), NEW c
    PROVE  /\ Before(s, c) \in Seq(S)
           /\ Len(Before(s, c)) = IF At(s, c) = 0 THEN Len(s) ELSE At(s, c) - 1
           /\ \A k \in 1..Len(Before(s, c)) : Before(s, c)[k] = s[k] /\ s[k] # c
<1>1. Len(s) \in Nat
    OBVIOUS
<1>2. CASE At(s, c) = 0
    BY <1>1, <1>2, FirstPlace DEF Before
<1>3. CASE At(s, c) # 0
    <2> DEFINE n == At(s, c) - 1
    <2>1. n \in 0..Len(s) /\ n + 1 <= Len(s) /\ n - 1 + 1 = n
        BY <1>1, <1>3, FirstPlace
    <2>2. Before(s, c) = SubSeq(s, 1, n)
        BY <1>3 DEF Before
    <2>3. SubSeq(s, 1, n) \in Seq(S) /\ Len(SubSeq(s, 1, n)) = n
          /\ \A k \in 1..n : SubSeq(s, 1, n)[k] = s[k]
        BY <1>1, <2>1, PartOf
    <2>4. \A k \in 1..n : s[k] # c
        BY <1>1, <1>3, <2>1, FirstPlace
    <2>5. QED
        BY <1>3, <2>2, <2>3, <2>4
<1>4. QED
    BY <1>2, <1>3

\* The text behind the first c, and all of it where there is none.
LEMMA BehindIs ==
    ASSUME NEW S, NEW s \in Seq(S), NEW c
    PROVE  /\ Behind(s, c) \in Seq(S)
           /\ Len(Behind(s, c)) = Len(s) - At(s, c)
           /\ \A k \in 1..(Len(s) - At(s, c)) : Behind(s, c)[k] = s[At(s, c) + k]
<1>1. Len(s) \in Nat /\ At(s, c) \in 0..Len(s)
    BY FirstPlace
<1> DEFINE n == At(s, c)
<1> HIDE DEF n
<1>2. n \in 0..Len(s) /\ Behind(s, c) = SubSeq(s, n + 1, Len(s))
    BY <1>1 DEF Behind, n
<1>3. n + 1 \in 1..(Len(s) + 1) /\ Len(s) \in 0..Len(s) /\ n + 1 <= Len(s) + 1
      /\ Len(s) - (n + 1) + 1 = Len(s) - n
    BY <1>1, <1>2
<1>4. \A k \in 1..(Len(s) - n) : SubSeq(s, n + 1, Len(s))[k] = s[n + 1 + k - 1] /\ n + 1 + k - 1 = n + k
    BY <1>1, <1>2, <1>3, PartOf
<1>5. SubSeq(s, n + 1, Len(s)) \in Seq(S) /\ Len(SubSeq(s, n + 1, Len(s))) = Len(s) - n
    BY <1>1, <1>2, <1>3, PartOf
<1>6. QED
    BY <1>2, <1>4, <1>5 DEF n

-----------------------------------------------------------------------------
(* What a file holds and what is parsed of it. *)

\* Mutations of the file do not happen, and the text is the first line of it.
LineInv ==
    /\ file \in Files \cup {NoFile}
    /\ parsePc = "read" => content = NoText
    /\ FirstLineParsed

\* The buffer cut at its first newline is the line of the file before it.
LEMMA LineCut ==
    ASSUME NEW f \in Seq(Chars), NEW rest \in Seq(Chars), Contains(f, Newline)
    PROVE  LET line == Before(f \o rest, Newline)
           IN  IsPrefix(Append(line, Newline), f) /\ ~ Contains(line, Newline)
<1> DEFINE u == f \o rest
           line == Before(u, Newline)
           n == At(u, Newline)
           whole == Append(line, Newline)
<1>1. u \in Seq(Chars) /\ Len(f) \in Nat /\ Len(rest) \in Nat /\ Len(u) = Len(f) + Len(rest)
      /\ \A k \in 1..Len(f) : u[k] = f[k]
    <2>1. \A k \in 1..Len(f) : k \in 1..(Len(f) + Len(rest)) /\ k <= Len(f)
        OBVIOUS
    <2>2. QED
        BY <2>1, ConcatProperties
<1> HIDE DEF u
<1>2. PICK k \in 1..Len(f) : f[k] = Newline
    BY DEF Contains
<1>3. n \in 1..Len(f) /\ u[n] = Newline
    <2>1. k \in 1..Len(u) /\ u[k] = Newline
        BY <1>1, <1>2
    <2>2. /\ n \in 0..Len(u)
          /\ n = 0 => \A j \in 1..Len(u) : u[j] # Newline
          /\ n # 0 => u[n] = Newline /\ \A j \in 1..Len(u) : j < n => u[j] # Newline
        BY <1>1, FirstPlace
    <2> HIDE DEF n
    <2>3. n # 0
        BY <2>1, <2>2
    <2>4. ~ (k < n)
        BY <2>1, <2>2, <2>3
    <2>5. QED
        BY <1>1, <2>2, <2>3, <2>4
<1>4. line \in Seq(Chars) /\ Len(line) = n - 1
      /\ \A j \in 1..Len(line) : line[j] = u[j] /\ u[j] # Newline
    <2>1. n # 0
        BY <1>1, <1>3
    <2>2. QED
        BY <1>1, <2>1, BeforeIs
<1> HIDE DEF line, n
<1>5. ~ Contains(line, Newline)
    BY <1>4 DEF Contains
<1>6. f[n] = Newline /\ f[n] \in Chars
    BY <1>1, <1>3
<1>7. whole \in Seq(Chars) /\ Len(whole) = n
      /\ \A j \in 1..n : whole[j] = f[j]
    <2>1. Newline \in Chars
        BY <1>6
    <2>2. whole \in Seq(Chars) /\ Len(whole) = n
        BY <1>1, <1>3, <1>4, <2>1
    <2>3. ASSUME NEW j \in 1..n
          PROVE  whole[j] = f[j]
        <3>1. CASE j = n
            BY <1>1, <1>3, <1>4, <1>6, <3>1
        <3>2. CASE j # n
            <4>1. j \in 1..Len(line) /\ j \in 1..Len(f)
                BY <1>1, <1>3, <1>4, <3>2
            <4>2. whole[j] = line[j]
                BY <1>4, <2>1, <4>1
            <4>3. QED
                BY <1>1, <1>4, <4>1, <4>2
        <3>3. QED
            BY <3>1, <3>2
    <2>4. QED
        BY <2>2, <2>3
<1> HIDE DEF whole
<1>8. SubSeq(whole, 1, n) = SubSeq(f, 1, n)
    <2>1. \A j \in 1..n : whole[j] = f[j] /\ f[j] \in Chars
        BY <1>1, <1>3, <1>7
    <2>2. SubSeq(whole, 1, n) = [j \in 1..n |-> whole[j]] /\ SubSeq(f, 1, n) = [j \in 1..n |-> f[j]]
        BY <1>1, <1>3, <1>7
    <2>3. QED
        BY <2>1, <2>2
<1>9. IsPrefix(whole, f)
    BY <1>1, <1>3, <1>7, <1>8 DEF IsPrefix
<1>10. QED
    BY <1>5, <1>9 DEF whole, line, u

LEMMA LineInvInit == ParseInit => LineInv
    BY DEF ParseInit, LineInv, FirstLineParsed

LEMMA LineInvStep == LineInv /\ [ParseNext]_parseVars => LineInv'
<1> SUFFICES ASSUME LineInv, [ParseNext]_parseVars
             PROVE  LineInv'
    OBVIOUS
<1>1. ASSUME UNCHANGED <<file, content>>, parsePc' # "read" \/ UNCHANGED parsePc
      PROVE  LineInv'
    BY <1>1 DEF LineInv, FirstLineParsed
<1>2. CASE ReadContent
    <2>1. file \in Seq(Chars) /\ file' = file /\ file \in Files /\ parsePc' # "read"
        BY <1>2, TextsAssumption DEF ReadContent, LineInv
    <2>2. PICK rest \in Leftovers : content' = Before(file \o rest, Newline)
        BY <1>2 DEF ReadContent
    <2>3. rest \in Seq(Chars)
        BY TextsAssumption
    <2>4. Contains(file, Newline) =>
            IsPrefix(Append(content', Newline), file) /\ ~ Contains(content', Newline)
        BY <2>1, <2>2, <2>3, LineCut
    <2>5. QED
        BY <2>1, <2>4 DEF LineInv, FirstLineParsed
<1>3. CASE ReadFails
    BY <1>1, <1>3 DEF ReadFails, Return
<1>4. CASE ParseMember
    BY <1>1, <1>4 DEF ParseMember, Return
<1>5. CASE ParseTerm
    BY <1>1, <1>5 DEF ParseTerm, Return
<1>6. CASE TermFails
    BY <1>1, <1>6 DEF TermFails, Return
<1>7. CASE UNCHANGED parseVars
    BY <1>1, <1>7 DEF parseVars
<1>8. QED
    BY <1>2, <1>3, <1>4, <1>5, <1>6, <1>7 DEF ParseNext

\* FirstLineParsed: of a file with a newline, what is parsed is its first line,
\* whatever get_file_content has in its buffer behind the bytes that were read.
THEOREM AlwaysFirstLine == ParseSpec => []FirstLineParsed
<1>1. LineInv => FirstLineParsed
    BY DEF LineInv
<1>2. QED
    BY <1>1, LineInvInit, LineInvStep, PTL DEF ParseSpec

-----------------------------------------------------------------------------
(* What is allocated. *)

\* How far the call is decides what it holds.
HeapInv ==
    /\ parsePc \in {"read", "member", "term", "returned"}
    /\ parsePc = "read" => heap = {}
    /\ parsePc = "member" => heap = {"content"}
    /\ parsePc = "term" => "content" \in heap /\ heap \subseteq {"content", "copy", "ranges"}
    /\ RangesLiveOnSuccess

LEMMA HeapInvStep == HeapInv /\ [ParseNext]_parseVars => HeapInv'
<1> SUFFICES ASSUME HeapInv, [ParseNext]_parseVars
             PROVE  HeapInv'
    OBVIOUS
<1> USE DEF HeapInv, RangesLiveOnSuccess, Return, Failed
<1>1. CASE ReadFails
    BY <1>1 DEF ReadFails
<1>2. CASE ReadContent
    BY <1>2 DEF ReadContent
<1>3. CASE ParseMember
    <2>1. CASE cur # <<>> /\ Head(cur) \in Members
        BY <1>3, <2>1 DEF ParseMember
    <2>2. CASE ~ (cur # <<>> /\ Head(cur) \in Members)
        BY <1>3, <2>2 DEF ParseMember
    <2>3. QED
        BY <2>1, <2>2
<1>4. CASE ParseTerm
    <2>1. CASE At(cur, Comma) = 0
        BY <1>4, <2>1 DEF ParseTerm
    <2>2. CASE At(cur, Comma) # 0
        BY <1>4, <2>2 DEF ParseTerm
    <2>3. QED
        BY <2>1, <2>2
<1>5. CASE TermFails
    BY <1>5 DEF TermFails
<1>6. CASE UNCHANGED parseVars
    BY <1>6 DEF parseVars
<1>7. QED
    BY <1>1, <1>2, <1>3, <1>4, <1>5, <1>6 DEF ParseNext

\* RangesLiveOnSuccess: parse_range_list and parse_config_def leave the array of
\* ranges to the caller when they succeed, and release everything when they fail.
THEOREM OnlyResultsLive == ParseSpec => []RangesLiveOnSuccess
<1>1. ParseInit => HeapInv
    BY DEF ParseInit, HeapInv, RangesLiveOnSuccess
<1>2. HeapInv => RangesLiveOnSuccess
    BY DEF HeapInv
<1>3. QED
    BY <1>1, <1>2, HeapInvStep, PTL DEF ParseSpec

-----------------------------------------------------------------------------
(* strtoull and the terms of a list. *)

\* A text of digits has a value, which is a natural number.
LEMMA ValueIsNat ==
    ASSUME NEW S, NEW s \in Seq(S), \A k \in 1..Len(s) : s[k] \in 0..9
    PROVE  Value(s) \in Nat
<1> DEFINE n == Len(s)
           Good(m, f) == f = [i \in 0..m |-> IF i = 0 THEN 0 ELSE 10 * f[i - 1] + s[i]]
           Bad == {m \in 0..n : ~ \E f \in [0..m -> Nat] : Good(m, f)}
<1>0. n \in Nat
    OBVIOUS
<1>1. ASSUME NEW m \in Bad, \A k \in Bad : m <= k
      PROVE  FALSE
    <2>1. CASE m = 0
        <3> DEFINE f == [i \in 0..0 |-> 0]
        <3>1. f \in [0..0 -> Nat] /\ Good(0, f)
            OBVIOUS
        <3>2. QED
            BY <1>1, <2>1, <3>1
    <2>2. CASE m # 0
        <3>1. m \in 0..n
            OBVIOUS
        <3>2. m \in 1..n /\ m - 1 \in 0..n /\ ~ (m <= m - 1)
            BY <1>0, <2>2, <3>1
        <3>3. m - 1 \notin Bad
            BY <1>1, <3>2
        <3>4. PICK f \in [0..(m - 1) -> Nat] : Good(m - 1, f)
            BY <3>2, <3>3
        <3> DEFINE g == [i \in 0..m |-> IF i = m THEN 10 * f[m - 1] + s[m] ELSE f[i]]
        <3>5. s[m] \in Nat /\ f[m - 1] \in Nat
            <4>1. m - 1 \in 0..(m - 1)
                BY <1>0, <3>2
            <4>2. s[m] \in 0..9
                BY <3>2
            <4>3. QED
                BY <3>4, <4>1, <4>2
        <3>6. \A i \in 0..m : i # m => i \in 0..(m - 1)
            BY <1>0, <3>2
        <3>7. g \in [0..m -> Nat]
            BY <3>5, <3>6
        <3>8. \A i \in 0..(m - 1) : f[i] = IF i = 0 THEN 0 ELSE 10 * f[i - 1] + s[i]
            BY <3>4
        <3>9. \A i \in 0..m : i # 0 => i - 1 \in 0..(m - 1) /\ i - 1 \in 0..m /\ i - 1 # m
            BY <1>0, <3>2
        <3>10. \A i \in 0..m : g[i] = IF i = 0 THEN 0 ELSE 10 * g[i - 1] + s[i]
            BY <2>2, <3>6, <3>8, <3>9
        <3> HIDE DEF g
        <3>11. Good(m, g)
            BY <3>7, <3>10
        <3>12. QED
            BY <1>1, <3>7, <3>11
    <2>3. QED
        BY <2>1, <2>2
<1>2. Bad = {}
    <2>1. Bad \subseteq Nat
        BY <1>0
    <2> HIDE DEF Bad
    <2>2. QED
        BY <1>1, <2>1, LeastNumber
<1> DEFINE value == CHOOSE f : Good(n, f)
<1>3. \E f : Good(n, f)
    <2>1. n \in 0..n
        BY <1>0
    <2>2. n \notin Bad
        <3> HIDE DEF Bad
        <3>1. QED
            BY <1>2
    <2>3. QED
        BY <2>1, <2>2
<1>4. Good(n, value)
    BY <1>3
<1>5. Value(s) = value[n]
    BY DEF Value
<1> HIDE DEF value
<1>6. value[0] = 0 /\ \A i \in 1..n : value[i] = 10 * value[i - 1] + s[i]
    BY <1>0, <1>4
<1>7. \A i \in 0..n : value[i] \in Nat
    <2> DEFINE Wrong == {i \in 0..n : value[i] \notin Nat}
    <2>1. ASSUME NEW i \in Wrong, \A k \in Wrong : i <= k
          PROVE  FALSE
        <3>1. i # 0
            BY <1>6
        <3>2. i \in 1..n /\ i - 1 \in 0..n /\ i - 1 \notin Wrong
            BY <1>0, <2>1, <3>1
        <3>3. value[i] = 10 * value[i - 1] + s[i]
            BY <1>6, <3>2
        <3>4. s[i] \in Nat /\ value[i - 1] \in Nat
            BY <3>2
        <3>5. QED
            BY <3>3, <3>4
    <2>2. Wrong \subseteq Nat
        BY <1>0
    <2>3. Wrong = {}
        <3> HIDE DEF Wrong
        <3>1. QED
            BY <2>1, <2>2, LeastNumber
    <2>4. QED
        BY <2>3
<1>8. QED
    BY <1>0, <1>5, <1>7

\* The sign a number begins with.
Signs(s) == IF s # <<>> /\ Head(s) = Dash THEN 1 ELSE 0

\* strtoull reads the sign and the digits up to the first other character.
LEMMA NumberRead ==
    ASSUME NEW S, NEW s \in Seq(S)
    PROVE  /\ Signs(s) \in 0..Len(s)
           /\ \E last \in Signs(s)..Len(s) :
                /\ \A k \in (Signs(s) + 1)..last : s[k] \in 0..9
                /\ last < Len(s) => s[last + 1] \notin 0..9
                /\ last = Signs(s) => strtoull(s).rest = s
                /\ last > Signs(s) => strtoull(s).rest = SubSeq(s, last + 1, Len(s))
                /\ last > 0 /\ Signs(s) = 0 =>
                    strtoull(s).value = LET value == Value(SubSeq(s, 1, last))
                                        IN  IF value > Largest THEN Largest ELSE value
<1> DEFINE sign == Signs(s)
           Ends == {k \in sign..Len(s) : \A j \in (sign + 1)..k : s[j] \in 0..9}
           last == Max(Ends \cup {0})
           value == Value(SubSeq(s, sign + 1, last))
<1>1. Len(s) \in Nat /\ sign \in 0..Len(s) /\ sign \in {0, 1}
    BY DEF Signs
<1>2. strtoull(s) = IF last <= sign
                    THEN [value |-> 0, rest |-> s]
                    ELSE [value |-> IF value > Largest THEN Largest
                                    ELSE IF sign = 1 THEN (Largest + 1 - value) % (Largest + 1) ELSE value,
                          rest |-> SubSeq(s, last + 1, Len(s))]
    BY DEF strtoull, Signs
<1> HIDE DEF sign
<1>3. sign \in Ends
    BY <1>1
<1>4. Ends \cup {0} \subseteq 0..Len(s) /\ Ends \cup {0} # {}
    BY <1>1
<1>5. last \in Ends \cup {0} /\ \A k \in Ends \cup {0} : last >= k
    <2> HIDE DEF Ends
    <2>1. QED
        BY <1>1, <1>4, GreatestNumber
<1> HIDE DEF last
<1>6. last \in sign..Len(s) /\ last \in Ends
    BY <1>1, <1>3, <1>5
<1>7. \A k \in (sign + 1)..last : s[k] \in 0..9
    BY <1>6
<1>8. last < Len(s) => s[last + 1] \notin 0..9
    <2> SUFFICES ASSUME last < Len(s), s[last + 1] \in 0..9
                 PROVE  FALSE
        OBVIOUS
    <2>1. last + 1 \in sign..Len(s)
        BY <1>1, <1>6
    <2>2. \A j \in (sign + 1)..(last + 1) : s[j] \in 0..9
        BY <1>1, <1>6, <1>7
    <2>3. last + 1 \in Ends
        BY <2>1, <2>2
    <2>4. QED
        BY <1>1, <1>5, <1>6, <2>3
<1>9. last = sign => strtoull(s).rest = s
    BY <1>1, <1>2
<1>10. last > sign => strtoull(s).rest = SubSeq(s, last + 1, Len(s))
    BY <1>1, <1>2, <1>6
<1>11. last > 0 /\ sign = 0 =>
        strtoull(s).value = IF Value(SubSeq(s, 1, last)) > Largest THEN Largest
                            ELSE Value(SubSeq(s, 1, last))
    BY <1>2, <1>6
<1>12. QED
    BY <1>1, <1>6, <1>7, <1>8, <1>9, <1>10, <1>11 DEF sign

\* A number is read with its value, cut down to the largest one.
LEMMA NumberIs ==
    ASSUME NEW S, NEW s \in Seq(S), IsNumber(s)
    PROVE  Number(s) = IF Value(s) > Largest THEN Largest ELSE Value(s)
<1>1. Value(s) \in Nat /\ Largest \in Nat
    BY ValueIsNat, LargestAssumption DEF IsNumber
<1> DEFINE v == Value(s)
<1> HIDE DEF v
<1>2. v \in Nat /\ Number(s) = Min({v, Largest})
    BY <1>1 DEF Number, v
<1>3. Min({v, Largest}) = IF v > Largest THEN Largest ELSE v
    <2>1. \E x \in {v, Largest} : \A y \in {v, Largest} : x <= y
        BY <1>1, <1>2
    <2>2. Min({v, Largest}) \in {v, Largest} /\ \A y \in {v, Largest} : Min({v, Largest}) <= y
        BY <2>1 DEF Min
    <2>3. QED
        BY <1>1, <1>2, <2>2
<1>4. QED
    BY <1>2, <1>3 DEF v

\* Whether a part of a text is a number.
LEMMA PartIsNumber ==
    ASSUME NEW S, NEW s \in Seq(S), NEW m \in 1..(Len(s) + 1), NEW n \in 0..Len(s), m <= n + 1
    PROVE  IsNumber(SubSeq(s, m, n)) <=> m <= n /\ \A k \in m..n : s[k] \in 0..9
<1> DEFINE part == SubSeq(s, m, n)
<1>1. part \in Seq(S) /\ Len(part) = n - m + 1 /\ \A k \in 1..(n - m + 1) : part[k] = s[m + k - 1]
    BY PartOf
<1>2. m \in Nat /\ n \in Nat
    OBVIOUS
<1> HIDE DEF part
<1>3. part # <<>> <=> m <= n
    <2>1. part # <<>> <=> Len(part) # 0
        BY <1>1, EmptySeq
    <2>2. QED
        BY <1>1, <1>2, <2>1
<1>4. ASSUME \A k \in DOMAIN part : part[k] \in 0..9, NEW k \in m..n
      PROVE  s[k] \in 0..9
    <2>1. k - m + 1 \in 1..(n - m + 1) /\ m + (k - m + 1) - 1 = k
        BY <1>2
    <2>2. k - m + 1 \in DOMAIN part /\ part[k - m + 1] = s[k]
        BY <1>1, <2>1
    <2>3. QED
        BY <1>4, <2>2
<1>5. ASSUME \A k \in m..n : s[k] \in 0..9, NEW k \in DOMAIN part
      PROVE  part[k] \in 0..9
    <2>1. k \in 1..(n - m + 1) /\ m + k - 1 \in m..n
        BY <1>1, <1>2
    <2>2. QED
        BY <1>1, <1>5, <2>1
<1>6. QED
    BY <1>3, <1>4, <1>5 DEF IsNumber, part

\* A number is read to its end, and what is read is its value.
LEMMA NumberTaken ==
    ASSUME NEW S, NEW s \in Seq(S), IsNumber(s)
    PROVE  strtoull(s).rest = <<>> /\ strtoull(s).value = Number(s)
<1>1. Len(s) \in Nat /\ Len(s) # 0 /\ s[1] \in 0..9 /\ Head(s) = s[1] /\ \A k \in 1..Len(s) : s[k] \in 0..9
    BY EmptySeq DEF IsNumber
<1>2. Signs(s) = 0
    BY <1>1, CharsAssumption DEF Signs
<1>3. PICK last \in 0..Len(s) :
        /\ last < Len(s) => s[last + 1] \notin 0..9
        /\ last > 0 => strtoull(s).rest = SubSeq(s, last + 1, Len(s))
        /\ last > 0 => strtoull(s).value = LET value == Value(SubSeq(s, 1, last))
                                           IN  IF value > Largest THEN Largest ELSE value
    BY <1>2, NumberRead
<1>4. last = Len(s)
    BY <1>1, <1>3
<1>5. SubSeq(s, last + 1, Len(s)) = <<>> /\ SubSeq(s, 1, last) = s
    <2>1. SubSeq(s, 1, Len(s)) = s
        BY SubSeqFull
    <2>2. SubSeq(s, Len(s) + 1, Len(s)) = <<>>
        BY <1>1
    <2>3. QED
        BY <1>4, <2>1, <2>2
<1>6. last > 0
    BY <1>1, <1>4
<1>7. strtoull(s).rest = <<>>
    BY <1>3, <1>5, <1>6
<1>8. strtoull(s).value = IF Value(s) > Largest THEN Largest ELSE Value(s)
    BY <1>3, <1>5, <1>6
<1>9. QED
    BY <1>7, <1>8, NumberIs

\* What is read to its end is a number, or one behind a sign.
LEMMA AllTaken ==
    ASSUME NEW S, NEW s \in Seq(S), s # <<>>
    PROVE  strtoull(s).rest = <<>> <=>
             \/ IsNumber(s)
             \/ s[1] = Dash /\ 2 <= Len(s) /\ \A k \in 2..Len(s) : s[k] \in 0..9
<1>1. Len(s) \in Nat \ {0} /\ Head(s) = s[1] /\ SubSeq(s, Len(s) + 1, Len(s)) = <<>>
    BY EmptySeq
<1>2. Signs(s) = IF s[1] = Dash THEN 1 ELSE 0
    BY <1>1 DEF Signs
<1>3. PICK last \in Signs(s)..Len(s) :
        /\ \A k \in (Signs(s) + 1)..last : s[k] \in 0..9
        /\ last < Len(s) => s[last + 1] \notin 0..9
        /\ last = Signs(s) => strtoull(s).rest = s
        /\ last > Signs(s) => strtoull(s).rest = SubSeq(s, last + 1, Len(s))
    BY NumberRead
<1>4. ASSUME strtoull(s).rest = <<>>
      PROVE  \/ IsNumber(s)
             \/ s[1] = Dash /\ 2 <= Len(s) /\ \A k \in 2..Len(s) : s[k] \in 0..9
    <2>1. last > Signs(s) /\ SubSeq(s, last + 1, Len(s)) = <<>>
        BY <1>1, <1>2, <1>3, <1>4
    <2>2. last = Len(s)
        <3> SUFFICES ASSUME last < Len(s)
                     PROVE  FALSE
            BY <1>1, <1>2, <1>3
        <3>1. last + 1 \in 1..(Len(s) + 1) /\ Len(s) \in 0..Len(s) /\ last + 1 <= Len(s) + 1
              /\ Len(s) - (last + 1) + 1 # 0
            BY <1>1, <1>2, <1>3
        <3>2. Len(SubSeq(s, last + 1, Len(s))) = Len(s) - (last + 1) + 1
            BY <3>1, PartOf
        <3>3. QED
            BY <2>1, <3>1, <3>2
    <2>3. CASE s[1] = Dash
        BY <1>1, <1>2, <1>3, <2>1, <2>2, <2>3
    <2>4. CASE s[1] # Dash
        BY <1>1, <1>2, <1>3, <2>2, <2>4 DEF IsNumber
    <2>5. QED
        BY <2>3, <2>4
<1>5. ASSUME s[1] = Dash, 2 <= Len(s), \A k \in 2..Len(s) : s[k] \in 0..9
      PROVE  strtoull(s).rest = <<>>
    <2>1. Signs(s) = 1
        BY <1>2, <1>5
    <2>2. last = Len(s)
        BY <1>1, <1>3, <1>5, <2>1
    <2>3. last > Signs(s)
        BY <1>1, <1>5, <2>1, <2>2
    <2>4. strtoull(s).rest = SubSeq(s, last + 1, Len(s))
        BY <1>3, <2>3
    <2>5. QED
        BY <1>1, <2>2, <2>4
<1>6. QED
    BY <1>4, <1>5, NumberTaken

\* Before a dash behind the beginning a number is read, or no dash follows.
LEMMA ReadToDash ==
    ASSUME NEW S, NEW s \in Seq(S), NEW d \in 2..Len(s), s[d] = Dash,
           \A k \in 1..(d - 1) : s[k] # Dash
    PROVE  /\ strtoull(s).rest # <<>> /\ Head(strtoull(s).rest) = Dash <=> IsNumber(SubSeq(s, 1, d - 1))
           /\ IsNumber(SubSeq(s, 1, d - 1)) => strtoull(s).value = Number(SubSeq(s, 1, d - 1))
<1> DEFINE n == Len(s)
           front == SubSeq(s, 1, d - 1)
<1>1. n \in Nat /\ s # <<>> /\ Head(s) = s[1] /\ s[1] # Dash /\ d \in Nat
    BY EmptySeq
<1>2. Signs(s) = 0
    BY <1>1 DEF Signs
<1>3. PICK last \in 0..n :
        /\ \A k \in 1..last : s[k] \in 0..9
        /\ last < n => s[last + 1] \notin 0..9
        /\ last = 0 => strtoull(s).rest = s
        /\ last > 0 => strtoull(s).rest = SubSeq(s, last + 1, n)
        /\ last > 0 => strtoull(s).value = LET value == Value(SubSeq(s, 1, last))
                                           IN  IF value > Largest THEN Largest ELSE value
    BY <1>2, NumberRead
<1>4. last <= d - 1
    <2> SUFFICES ASSUME last >= d
                 PROVE  FALSE
        BY <1>1, <1>3
    <2>1. d \in 1..last
        BY <1>1, <1>3
    <2>2. QED
        BY <1>3, <2>1, CharsAssumption
<1>5. IsNumber(front) <=> \A k \in 1..(d - 1) : s[k] \in 0..9
    <2>1. 1 \in 1..(n + 1) /\ d - 1 \in 0..n /\ 1 <= d - 1 + 1 /\ 1 <= d - 1
        BY <1>1
    <2>2. QED
        BY <2>1, PartIsNumber
<1>6. IsNumber(front) <=> last = d - 1
    BY <1>1, <1>3, <1>4, <1>5
<1>7. last + 1 \in 1..n /\ last + 1 <= d
    BY <1>1, <1>3, <1>4
<1>8. last > 0 => strtoull(s).rest # <<>> /\ Head(strtoull(s).rest) = s[last + 1]
    <2> SUFFICES ASSUME last > 0
                 PROVE  SubSeq(s, last + 1, n) # <<>> /\ Head(SubSeq(s, last + 1, n)) = s[last + 1]
        BY <1>3
    <2>1. last + 1 \in 1..(n + 1) /\ n \in 0..n /\ last + 1 <= n + 1 /\ n - (last + 1) + 1 >= 1
          /\ n - (last + 1) + 1 \in Nat /\ last + 1 + 1 - 1 = last + 1
        <3> HIDE DEF n
        <3>1. last \in Nat
            BY <1>1, <1>3
        <3>2. QED
            BY <1>1, <1>7, <3>1
    <2>2. SubSeq(s, last + 1, n) \in Seq(S) /\ Len(SubSeq(s, last + 1, n)) = n - (last + 1) + 1
          /\ SubSeq(s, last + 1, n)[1] = s[last + 1 + 1 - 1]
        BY <2>1, PartOf
    <2>3. SubSeq(s, last + 1, n) # <<>>
        <3> HIDE DEF n
        <3>1. Len(SubSeq(s, last + 1, n)) >= 1
            BY <2>1, <2>2
        <3>2. Len(SubSeq(s, last + 1, n)) # 0 /\ SubSeq(s, last + 1, n) \in Seq(S)
            BY <2>2, <3>1
        <3>3. QED
            BY <3>2, EmptySeq
    <2>4. QED
        BY <2>1, <2>2, <2>3
<1>9. ASSUME last # d - 1
      PROVE  ~ (strtoull(s).rest # <<>> /\ Head(strtoull(s).rest) = Dash)
    <2>1. s[last + 1] # Dash
        BY <1>1, <1>3, <1>4, <1>9
    <2>2. QED
        BY <1>1, <1>3, <1>8, <2>1
<1>10. ASSUME last = d - 1
       PROVE  /\ strtoull(s).rest # <<>> /\ Head(strtoull(s).rest) = Dash
              /\ strtoull(s).value = Number(front)
    <2>1. last > 0 /\ last + 1 = d
        BY <1>1, <1>3, <1>10
    <2>2. front \in Seq(S)
        BY <1>1
    <2>3. IsNumber(front)
        BY <1>6, <1>10
    <2>4. QED
        BY <1>3, <1>8, <1>10, <2>1, <2>2, <2>3, NumberIs
<1>11. QED
    BY <1>6, <1>9, <1>10

\* What stands around the first dash of a term.
NumberBefore(s, d) == IsNumber(SubSeq(s, 1, d - 1))
NumberAfter(s, d) == d < Len(s) /\ \A k \in (d + 1)..Len(s) : s[k] \in 0..9
SignedAfter(s, d) == d + 1 < Len(s) /\ s[d + 1] = Dash /\ \A k \in (d + 2)..Len(s) : s[k] \in 0..9

LEMMA DigitsBefore ==
    ASSUME NEW S, NEW s \in Seq(S), NEW d \in 1..Len(s)
    PROVE  /\ NumberBefore(s, d) <=> 1 < d /\ \A k \in 1..(d - 1) : s[k] \in 0..9
           /\ IsNumber(SubSeq(s, d + 1, Len(s))) <=> NumberAfter(s, d)
<1> DEFINE n == Len(s)
<1>1. n \in Nat
    OBVIOUS
<1>2. d \in 1..n
    OBVIOUS
<1> HIDE DEF n
<1>3. 1 \in 1..(n + 1) /\ d - 1 \in 0..n /\ 1 <= d - 1 + 1 /\ (1 <= d - 1 <=> 1 < d)
    BY <1>1, <1>2
<1>4. d + 1 \in 1..(n + 1) /\ n \in 0..n /\ d + 1 <= n + 1 /\ (d + 1 <= n <=> d < n)
    BY <1>1, <1>2
<1>5. NumberBefore(s, d) <=> 1 <= d - 1 /\ \A k \in 1..(d - 1) : s[k] \in 0..9
    BY <1>3, PartIsNumber DEF NumberBefore, n
<1>6. IsNumber(SubSeq(s, d + 1, n)) <=> d + 1 <= n /\ \A k \in (d + 1)..n : s[k] \in 0..9
    BY <1>4, PartIsNumber DEF n
<1>7. QED
    BY <1>3, <1>4, <1>5, <1>6 DEF NumberAfter, n

\* The forms of a term are told apart at its first dash.
LEMMA FormsOf ==
    ASSUME NEW S, NEW s \in Seq(S)
    PROVE  LET d == At(s, Dash)
           IN  /\ IsNumber(s) => d = 0
               /\ d = 0 => ~ DoubleDash(s) /\ \A k \in DOMAIN s : ~ IsPair(s, k)
               /\ d # 0 => /\ \A k \in DOMAIN s : IsPair(s, k) <=>
                                k = d /\ NumberBefore(s, d) /\ NumberAfter(s, d)
                           /\ DoubleDash(s) <=> (d = 1 \/ NumberBefore(s, d)) /\ SignedAfter(s, d)
<1> DEFINE d == At(s, Dash)
           n == Len(s)
<1>1. /\ n \in Nat /\ DOMAIN s = 1..n /\ d \in 0..n
      /\ d = 0 => \A k \in 1..n : s[k] # Dash
      /\ d # 0 => s[d] = Dash /\ \A k \in 1..n : k < d => s[k] # Dash
    BY FirstPlace
<1> HIDE DEF d
<1>2. IsNumber(s) => d = 0
    BY <1>1, CharsAssumption DEF IsNumber
<1>3. d = 0 => ~ DoubleDash(s) /\ \A k \in DOMAIN s : ~ IsPair(s, k)
    BY <1>1 DEF DoubleDash, IsPair
<1>4. ASSUME d # 0, NEW k \in 1..n, s[k] = Dash, k = 1 \/ NumberBefore(s, k)
      PROVE  k = d
    <2>1. CASE k = 1
        BY <1>1, <1>4, <2>1
    <2>2. CASE NumberBefore(s, k)
        <3>1. \A j \in 1..(k - 1) : s[j] \in 0..9
            BY <1>1, <2>2, DigitsBefore
        <3>2. ~ (d < k)
            BY <1>1, <1>4, <3>1, CharsAssumption
        <3>3. ~ (k < d)
            BY <1>1, <1>4
        <3>4. QED
            BY <1>1, <1>4, <3>2, <3>3
    <2>3. QED
        BY <1>4, <2>1, <2>2
<1>5. ASSUME d # 0, NEW k \in DOMAIN s
      PROVE  IsPair(s, k) <=> k = d /\ NumberBefore(s, d) /\ NumberAfter(s, d)
    <2>1. k \in 1..n
        BY <1>1
    <2>2. IsPair(s, k) <=> s[k] = Dash /\ NumberBefore(s, k) /\ NumberAfter(s, k)
        BY <2>1, DigitsBefore DEF IsPair, NumberBefore
    <2>3. QED
        BY <1>1, <1>4, <1>5, <2>1, <2>2
<1>6. ASSUME d # 0
      PROVE  DoubleDash(s) <=> (d = 1 \/ NumberBefore(s, d)) /\ SignedAfter(s, d)
    <2>1. ASSUME NEW k \in 1..n, k < n, s[k + 1] = Dash
          PROVE  IsNumber(SubSeq(s, k + 2, n)) <=> SignedAfter(s, k)
        <3>1. k + 1 \in 1..n /\ k + 1 + 1 = k + 2
            BY <1>1, <2>1
        <3>2. IsNumber(SubSeq(s, k + 2, n)) <=> NumberAfter(s, k + 1)
            BY <3>1, DigitsBefore
        <3>3. QED
            BY <2>1, <3>1, <3>2 DEF NumberAfter, SignedAfter
    <2>2. \A k \in 1..n : SignedAfter(s, k) => k < n /\ s[k + 1] = Dash
        BY <1>1 DEF SignedAfter
    <2>3. DoubleDash(s) <=> \E k \in 1..n : /\ s[k] = Dash /\ k < n /\ s[k + 1] = Dash
                                            /\ (k = 1 \/ NumberBefore(s, k))
                                            /\ IsNumber(SubSeq(s, k + 2, n))
        BY <1>1 DEF DoubleDash, NumberBefore
    <2>4. DoubleDash(s) <=> \E k \in 1..n : /\ s[k] = Dash
                                            /\ (k = 1 \/ NumberBefore(s, k))
                                            /\ SignedAfter(s, k)
        BY <2>1, <2>2, <2>3
    <2>5. QED
        BY <1>1, <1>4, <1>6, <2>4
<1>7. QED
    BY <1>2, <1>3, <1>5, <1>6 DEF d

\* The second number of a pair is read with its sign.
LEMMA SecondTaken ==
    ASSUME NEW S, NEW s \in Seq(S), At(s, Dash) # 0
    PROVE  LET d == At(s, Dash)
               b == Behind(s, Dash)
           IN  /\ (b # <<>> /\ strtoull(b).rest = <<>>) <=> NumberAfter(s, d) \/ SignedAfter(s, d)
               /\ NumberAfter(s, d) => strtoull(b).value = Number(SubSeq(s, d + 1, Len(s)))
<1> DEFINE d == At(s, Dash)
           n == Len(s)
           b == Behind(s, Dash)
<1>1. n \in Nat /\ d \in 1..n
    BY FirstPlace
<1>2. b \in Seq(S) /\ Len(b) = n - d /\ \A k \in 1..(n - d) : b[k] = s[d + k]
    BY BehindIs
<1>3. b = SubSeq(s, d + 1, n)
    BY DEF Behind
<1> HIDE DEF b, d
<1>4. b # <<>> <=> d < n
    BY <1>1, <1>2, EmptySeq
<1>5. IsNumber(b) <=> NumberAfter(s, d)
    BY <1>1, <1>3, DigitsBefore
<1>6. ASSUME d < n
      PROVE  (b[1] = Dash /\ 2 <= Len(b) /\ \A k \in 2..Len(b) : b[k] \in 0..9) <=> SignedAfter(s, d)
    <2>1. b[1] = s[d + 1] /\ (2 <= Len(b) <=> d + 1 < n)
        BY <1>1, <1>2, <1>6
    <2>2. ASSUME \A k \in 2..Len(b) : b[k] \in 0..9, NEW k \in (d + 2)..n
          PROVE  s[k] \in 0..9
        <3>1. k - d \in 2..Len(b) /\ k - d \in 1..(n - d) /\ d + (k - d) = k
            BY <1>1, <1>2
        <3>2. QED
            BY <1>2, <2>2, <3>1
    <2>3. ASSUME \A k \in (d + 2)..n : s[k] \in 0..9, NEW k \in 2..Len(b)
          PROVE  b[k] \in 0..9
        <3>1. k \in 1..(n - d) /\ d + k \in (d + 2)..n
            BY <1>1, <1>2
        <3>2. QED
            BY <1>2, <2>3, <3>1
    <2>4. QED
        BY <2>1, <2>2, <2>3 DEF SignedAfter
<1>7. (b # <<>> /\ strtoull(b).rest = <<>>) <=> NumberAfter(s, d) \/ SignedAfter(s, d)
    <2>1. NumberAfter(s, d) \/ SignedAfter(s, d) => d < n
        BY <1>1 DEF NumberAfter, SignedAfter
    <2>2. QED
        BY <1>2, <1>4, <1>5, <1>6, <2>1, AllTaken
<1>8. NumberAfter(s, d) => strtoull(b).value = Number(SubSeq(s, d + 1, n))
    BY <1>2, <1>3, <1>5, NumberTaken
<1>9. QED
    BY <1>7, <1>8 DEF b, d

\* The first number of a pair is read up to the dash, or there is none before
\* it and the second one has a sign.
LEMMA FirstTaken ==
    ASSUME NEW S, NEW s \in Seq(S), At(s, Dash) # 0
    PROVE  LET d == At(s, Dash)
               toDash == strtoull(s).rest # <<>> /\ Head(strtoull(s).rest) = Dash
           IN  /\ d # 1 => (toDash <=> NumberBefore(s, d))
               /\ d # 1 /\ NumberBefore(s, d) => strtoull(s).value = Number(SubSeq(s, 1, d - 1))
               /\ d = 1 => ~ NumberBefore(s, d)
               /\ d = 1 /\ NumberAfter(s, d) => ~ toDash
               /\ d = 1 /\ SignedAfter(s, d) => toDash
<1> DEFINE d == At(s, Dash)
           n == Len(s)
           toDash == strtoull(s).rest # <<>> /\ Head(strtoull(s).rest) = Dash
<1>1. n \in Nat /\ d \in 1..n /\ s[d] = Dash /\ \A k \in 1..n : k < d => s[k] # Dash
    BY FirstPlace
<1> HIDE DEF d
<1>2. s # <<>> /\ Head(s) = s[1]
    BY <1>1, EmptySeq
<1>3. ASSUME d # 1
      PROVE  /\ toDash <=> NumberBefore(s, d)
             /\ NumberBefore(s, d) => strtoull(s).value = Number(SubSeq(s, 1, d - 1))
    <2>1. d \in 2..n /\ \A k \in 1..(d - 1) : s[k] # Dash
        BY <1>1, <1>3
    <2>2. QED
        BY <1>1, <2>1, ReadToDash DEF NumberBefore
<1>4. d = 1 => ~ NumberBefore(s, d)
    BY <1>1, DigitsBefore
<1>5. ASSUME d = 1, NumberAfter(s, d)
      PROVE  ~ toDash
    <2>1. s[1] = Dash /\ 2 <= n /\ \A k \in 2..n : s[k] \in 0..9
        BY <1>1, <1>5 DEF NumberAfter
    <2>2. QED
        BY <1>2, <2>1, AllTaken
<1>6. ASSUME d = 1, SignedAfter(s, d)
      PROVE  toDash
    <2>1. s[1] = Dash /\ 2 \in 1..n /\ s[2] = Dash
        BY <1>1, <1>6 DEF SignedAfter
    <2>2. Signs(s) = 1
        BY <1>2, <2>1 DEF Signs
    <2>3. PICK last \in 1..n :
            /\ \A k \in 2..last : s[k] \in 0..9
            /\ last = 1 => strtoull(s).rest = s
        BY <2>2, NumberRead
    <2>4. last = 1
        <3> SUFFICES ASSUME last # 1
                     PROVE  FALSE
            OBVIOUS
        <3>1. 2 \in 2..last
            BY <1>1
        <3>2. QED
            BY <2>1, <2>3, <3>1, CharsAssumption
    <2>5. QED
        BY <1>2, <2>1, <2>3, <2>4
<1>7. QED
    BY <1>3, <1>4, <1>5, <1>6 DEF d

\* parse_range takes the well-formed terms, with the numbers that are written
\* there, and those with a sign in the second number.
LEMMA TermTaken ==
    ASSUME NEW S, NEW s \in Seq(S)
    PROVE  /\ ParseRange(s) # {} <=> WellFormed(s) \/ DoubleDash(s)
           /\ WellFormed(s) => ParseRange(s) = {Meaning(s)}
<1> DEFINE d == At(s, Dash)
           n == Len(s)
           b == Behind(s, Dash)
           toDash == strtoull(s).rest # <<>> /\ Head(strtoull(s).rest) = Dash
<1>1. CASE s = <<>>
    <2>1. ParseRange(s) = {}
        BY <1>1 DEF ParseRange
    <2>2. ~ WellFormed(s) /\ ~ DoubleDash(s)
        BY <1>1 DEF WellFormed, DoubleDash, IsNumber
    <2>3. QED
        BY <2>1, <2>2
<1>2. CASE s # <<>> /\ d = 0
    <2>1. ParseRange(s) = IF strtoull(s).rest # <<>> THEN {}
                          ELSE {Range_(strtoull(s).value, strtoull(s).value)}
        BY <1>2 DEF ParseRange
    <2>2. ~ DoubleDash(s) /\ (WellFormed(s) <=> IsNumber(s))
        BY <1>2, FormsOf DEF WellFormed
    <2>3. s[1] # Dash
        <3>1. 1 \in 1..Len(s)
            BY <1>2, EmptySeq
        <3>2. QED
            BY <1>2, <3>1, FirstPlace
    <2>4. strtoull(s).rest = <<>> <=> IsNumber(s)
        BY <1>2, <2>3, AllTaken
    <2>5. IsNumber(s) => strtoull(s).value = Number(s)
        BY NumberTaken
    <2>6. IsNumber(s) => Meaning(s) = Range_(Number(s), Number(s))
        BY DEF Meaning
    <2>7. QED
        BY <2>1, <2>2, <2>4, <2>5, <2>6
<1>3. CASE s # <<>> /\ d # 0
    <2>1. ParseRange(s) = IF strtoull(b).rest # <<>> \/ ~ toDash \/ b = <<>> THEN {}
                          ELSE {Range_(strtoull(s).value, strtoull(b).value)}
        BY <1>3 DEF ParseRange
    <2>2. /\ ~ IsNumber(s)
          /\ \A k \in DOMAIN s : IsPair(s, k) <=> k = d /\ NumberBefore(s, d) /\ NumberAfter(s, d)
          /\ DoubleDash(s) <=> (d = 1 \/ NumberBefore(s, d)) /\ SignedAfter(s, d)
        BY <1>3, FormsOf
    <2>3. d \in DOMAIN s
        BY <1>3, FirstPlace
    <2>4. /\ (b # <<>> /\ strtoull(b).rest = <<>>) <=> NumberAfter(s, d) \/ SignedAfter(s, d)
          /\ NumberAfter(s, d) => strtoull(b).value = Number(SubSeq(s, d + 1, n))
        BY <1>3, SecondTaken
    <2>5. /\ d # 1 => (toDash <=> NumberBefore(s, d))
          /\ d # 1 /\ NumberBefore(s, d) => strtoull(s).value = Number(SubSeq(s, 1, d - 1))
          /\ d = 1 => ~ NumberBefore(s, d)
          /\ d = 1 /\ NumberAfter(s, d) => ~ toDash
          /\ d = 1 /\ SignedAfter(s, d) => toDash
        BY <1>3, FirstTaken
    <2> HIDE DEF d, b, toDash
    <2>6. WellFormed(s) <=> NumberBefore(s, d) /\ NumberAfter(s, d)
        BY <2>2, <2>3 DEF WellFormed
    <2>7. ParseRange(s) # {} <=> WellFormed(s) \/ DoubleDash(s)
        BY <2>1, <2>2, <2>4, <2>5, <2>6
    <2>8. ASSUME WellFormed(s)
          PROVE  ParseRange(s) = {Meaning(s)}
        <3>1. (CHOOSE k \in DOMAIN s : IsPair(s, k)) = d
            BY <2>2, <2>3, <2>6, <2>8
        <3>2. Meaning(s) = Range_(Number(SubSeq(s, 1, d - 1)), Number(SubSeq(s, d + 1, n)))
            BY <2>2, <3>1 DEF Meaning
        <3>3. d # 1 /\ ParseRange(s) # {}
            BY <2>5, <2>6, <2>7, <2>8
        <3>4. QED
            BY <2>1, <2>4, <2>5, <2>6, <2>8, <3>2, <3>3
    <2>9. QED
        BY <2>7, <2>8
<1>4. QED
    BY <1>1, <1>2, <1>3

-----------------------------------------------------------------------------
(* parse_range_list: the terms of a list, one after the other. *)

\* The separators in front of a place, and the terms that end there or before.
SeparatorsBefore(s, p) == {k \in Separators(s) : k < p}

LEMMA SeparatorsOf ==
    ASSUME NEW S, NEW s \in Seq(S)
    PROVE  /\ Separators(s) \subseteq 0..(Len(s) + 1) /\ 0 \in Separators(s) /\ Len(s) + 1 \in Separators(s)
           /\ \A k \in 1..Len(s) : k \in Separators(s) <=> s[k] = Comma
           /\ IsFiniteSet(Separators(s))
           /\ \A p : IsFiniteSet(SeparatorsBefore(s, p)) /\ Cardinality(SeparatorsBefore(s, p)) \in Nat
<1>1. Len(s) \in Nat /\ DOMAIN s = 1..Len(s)
    OBVIOUS
<1>2. Separators(s) \subseteq 0..(Len(s) + 1) /\ 0 \in Separators(s) /\ Len(s) + 1 \in Separators(s)
      /\ \A k \in 1..Len(s) : k \in Separators(s) <=> s[k] = Comma
    BY <1>1 DEF Separators
<1>3. IsFiniteSet(0..(Len(s) + 1))
    BY <1>1, FS_Interval
<1>4. IsFiniteSet(Separators(s))
    BY <1>2, <1>3, FS_Subset
<1>5. \A p : SeparatorsBefore(s, p) \subseteq Separators(s)
    BY DEF SeparatorsBefore
<1>6. \A p : IsFiniteSet(SeparatorsBefore(s, p))
    BY <1>4, <1>5, FS_Subset
<1>7. QED
    BY <1>2, <1>4, <1>6, FS_CardinalityType

\* Past a separator there is one more before.
LEMMA OneMoreSeparator ==
    ASSUME NEW S, NEW s \in Seq(S), NEW p \in Separators(s), NEW q \in Separators(s), p < q,
           \A k \in Separators(s) : k <= p \/ k >= q
    PROVE  Cardinality(SeparatorsBefore(s, q)) = Cardinality(SeparatorsBefore(s, p)) + 1
<1>1. Separators(s) \subseteq Int
    BY SeparatorsOf
<1>2. SeparatorsBefore(s, q) = SeparatorsBefore(s, p) \cup {p}
    BY <1>1 DEF SeparatorsBefore
<1>3. p \notin SeparatorsBefore(s, p)
    BY <1>1 DEF SeparatorsBefore
<1>4. IsFiniteSet(SeparatorsBefore(s, p))
    BY SeparatorsOf
<1>5. QED
    BY <1>2, <1>3, <1>4, FS_AddElement

\* There are as many terms as separators, not counting the end.
LEMMA TermsCounted ==
    ASSUME NEW S, NEW s \in Seq(S)
    PROVE  Cardinality(TermsOf(s)) = Cardinality(SeparatorsBefore(s, Len(s) + 1))
<1> DEFINE Starts == SeparatorsBefore(s, Len(s) + 1)
           start == [t \in TermsOf(s) |-> t[1]]
<1>1. Separators(s) \subseteq 0..(Len(s) + 1) /\ Len(s) \in Nat /\ Len(s) + 1 \in Separators(s)
    BY SeparatorsOf
<1>2. \A t \in TermsOf(s) : /\ t[1] \in Separators(s) /\ t[2] \in Separators(s) /\ t = <<t[1], t[2]>>
                            /\ t[1] < t[2] /\ \A k \in Separators(s) : k <= t[1] \/ k >= t[2]
    BY DEF TermsOf
<1>3. \A t \in TermsOf(s) : t[1] \in Starts
    BY <1>1, <1>2 DEF SeparatorsBefore
<1>4. ASSUME NEW t \in TermsOf(s), NEW u \in TermsOf(s), t[1] = u[1]
      PROVE  t = u
    <2>1. ~ (t[2] < u[2]) /\ ~ (u[2] < t[2])
        BY <1>1, <1>2, <1>4
    <2>2. t[2] = u[2]
        BY <1>1, <1>2, <2>1
    <2>3. QED
        BY <1>2, <1>4, <2>2
<1>5. ASSUME NEW p \in Starts
      PROVE  \E t \in TermsOf(s) : t[1] = p
    <2> DEFINE Later == {k \in Separators(s) : p < k}
    <2>1. p \in Separators(s) /\ p < Len(s) + 1
        BY DEF SeparatorsBefore
    <2>2. Later \subseteq Nat /\ Later # {}
        BY <1>1, <2>1
    <2>3. PICK q \in Later : \A k \in Later : q <= k
        <3> HIDE DEF Later
        <3>1. QED
            BY <2>2, LeastNumber
    <2>4. \A k \in Separators(s) : k <= p \/ k >= q
        BY <1>1, <2>1, <2>3
    <2>5. <<p, q>> \in TermsOf(s)
        BY <2>1, <2>3, <2>4 DEF TermsOf
    <2>6. QED
        BY <2>5
<1>6. start \in [TermsOf(s) -> Starts]
    BY <1>3
<1>7. start \in Injection(TermsOf(s), Starts)
    BY <1>4, <1>6 DEF Injection, IsInjective
<1>8. start \in Surjection(TermsOf(s), Starts)
    BY <1>5, <1>6 DEF Surjection
<1>9. IsFiniteSet(Starts)
    BY SeparatorsOf
<1> HIDE DEF start, Starts
<1>10. QED
    BY <1>7, <1>8, <1>9, FS_Injection DEF Starts

\* The term at hand lies between two separators that follow each other.
LEMMA TermAtHand ==
    ASSUME NEW S, NEW s \in Seq(S), NEW c \in Seq(S), NEW p \in Separators(s), p <= Len(s),
           Len(c) = Len(s) - p, \A k \in 1..Len(c) : c[k] = s[p + k]
    PROVE  LET q == IF At(c, Comma) = 0 THEN Len(s) + 1 ELSE p + At(c, Comma)
           IN  /\ <<p, q>> \in TermsOf(s) /\ q \in Separators(s)
               /\ Before(c, Comma) = TermText(s, <<p, q>>)
               /\ Before(c, Comma) \in Seq(S)
<1> DEFINE a == At(c, Comma)
           q == IF a = 0 THEN Len(s) + 1 ELSE p + a
           b == Before(c, Comma)
<1>1. /\ Len(s) \in Nat /\ p \in Nat /\ Len(c) \in Nat /\ a \in 0..Len(c)
      /\ a = 0 => \A k \in 1..Len(c) : c[k] # Comma
      /\ a # 0 => c[a] = Comma /\ \A k \in 1..Len(c) : k < a => c[k] # Comma
    <2>1. p \in Nat
        BY SeparatorsOf
    <2>2. QED
        BY <2>1, FirstPlace
<1>2. b \in Seq(S) /\ Len(b) = (IF a = 0 THEN Len(c) ELSE a - 1) /\ \A k \in 1..Len(b) : b[k] = c[k]
    BY BeforeIs
<1> HIDE DEF a, b
<1>3. q \in (p + 1)..(Len(s) + 1) /\ Len(b) = q - p - 1
    BY <1>1, <1>2
<1>4. q \in Separators(s)
    <2>1. a # 0 => p + a \in 1..Len(s) /\ s[p + a] = Comma
        BY <1>1
    <2>2. QED
        BY <2>1, SeparatorsOf
<1>5. \A k \in Separators(s) : k <= p \/ k >= q
    <2> SUFFICES ASSUME NEW k \in Separators(s), p < k, k < q
                 PROVE  FALSE
        BY <1>1, <1>3, SeparatorsOf
    <2>1. k \in 1..Len(s) /\ k - p \in 1..Len(c) /\ p + (k - p) = k /\ (a # 0 => k - p < a)
        BY <1>1, <1>3, SeparatorsOf
    <2>2. s[k] = Comma /\ c[k - p] = s[k]
        BY <2>1, SeparatorsOf
    <2>3. QED
        BY <1>1, <2>1, <2>2
<1> HIDE DEF q
<1>6. <<p, q>> \in TermsOf(s)
    BY <1>1, <1>3, <1>4, <1>5 DEF TermsOf
<1>7. b = TermText(s, <<p, q>>)
    <2> DEFINE part == SubSeq(s, p + 1, q - 1)
    <2>1. p + 1 \in 1..(Len(s) + 1) /\ q - 1 \in 0..Len(s) /\ p + 1 <= q - 1 + 1
          /\ q - 1 - (p + 1) + 1 = q - p - 1 /\ \A k \in 1..(q - p - 1) : p + 1 + k - 1 = p + k
        BY <1>1, <1>3
    <2>2. part \in Seq(S) /\ Len(part) = q - p - 1 /\ \A k \in 1..(q - p - 1) : part[k] = s[p + k]
        BY <2>1, PartOf
    <2>3. \A k \in 1..Len(b) : b[k] = part[k]
        <3> SUFFICES ASSUME NEW k \in 1..Len(b)
                     PROVE  b[k] = part[k]
            OBVIOUS
        <3>1. k \in 1..(q - p - 1) /\ k \in 1..Len(c)
            BY <1>1, <1>2, <1>3
        <3>2. QED
            BY <1>2, <2>2, <3>1
    <2> HIDE DEF part
    <2>4. b = part
        BY <1>2, <1>3, <2>2, <2>3, SeqEqual
    <2>5. QED
        BY <2>4 DEF TermText, part
<1>8. QED
    BY <1>2, <1>4, <1>6, <1>7 DEF q, b, a

\* What is known of a term that has been taken.
TakenAs(s, rs, t) ==
    /\ WellFormed(TermText(s, t)) \/ DoubleDash(TermText(s, t))
    /\ WellFormed(TermText(s, t)) =>
        rs[Cardinality(SeparatorsBefore(s, t[2]))] = Meaning(TermText(s, t))

\* The terms that end at p or before are taken, and one range is there for each.
TakenUpTo(s, rs, p) ==
    /\ \E R : rs \in Seq(R)
    /\ Len(rs) = Cardinality(SeparatorsBefore(s, p))
    /\ \A t \in TermsOf(s) : t[2] <= p => TakenAs(s, rs, t)

\* cur_range: the text behind a separator.
AtTerm(s, c, p) ==
    /\ p \in Separators(s) /\ p <= Len(s)
    /\ c \in Seq(Chars) /\ Len(c) = Len(s) - p
    /\ \A k \in 1..Len(c) : c[k] = s[p + k]

MemberRead == asFormat => content # <<>> /\ Head(content) = member

ListInv ==
    /\ file \in Files \cup {NoFile}
    /\ asFormat \in BOOLEAN
    /\ parsePc \in {"read", "member", "term", "returned"}
    /\ parsePc = "read" => content = NoText /\ ranges = <<>>
    /\ parsePc = "member" => asFormat /\ content \in Seq(Chars) /\ cur = content /\ ranges = <<>>
    /\ parsePc = "term" =>
        /\ content \in Seq(Chars) /\ MemberRead
        /\ ListText \in Seq(Chars)
        /\ \E p : AtTerm(ListText, cur, p) /\ TakenUpTo(ListText, ranges, p)
    /\ TakesWhatIsWellFormed

\* A call that takes a list begins with its first term.
LEMMA ListBegins ==
    ASSUME NEW s \in Seq(Chars)
    PROVE  AtTerm(s, s, 0) /\ TakenUpTo(s, <<>>, 0)
<1>1. Len(s) \in Nat
    OBVIOUS
<1>2. 0 \in Separators(s) /\ Separators(s) \subseteq Nat
    BY <1>1, SeparatorsOf
<1>3. \A k \in 1..Len(s) : 0 + k = k
    BY <1>1
<1>4. AtTerm(s, s, 0)
    BY <1>1, <1>2, <1>3 DEF AtTerm
<1>5. SeparatorsBefore(s, 0) = {}
    BY <1>2 DEF SeparatorsBefore
<1>6. Len(<<>>) = Cardinality(SeparatorsBefore(s, 0)) /\ \E R : <<>> \in Seq(R)
    <2>1. Len(<<>>) = 0
        OBVIOUS
    <2>2. <<>> \in Seq(Chars)
        OBVIOUS
    <2>3. QED
        BY <1>5, <2>1, <2>2, FS_EmptySet
<1>7. \A t \in TermsOf(s) : ~ (t[2] <= 0)
    BY <1>2 DEF TermsOf
<1>8. QED
    BY <1>4, <1>6, <1>7 DEF TakenUpTo

\* One more range for one more term.
LEMMA OneMoreTerm ==
    ASSUME NEW s \in Seq(Chars), NEW p, NEW q, NEW rs, TakenUpTo(s, rs, p),
           <<p, q>> \in TermsOf(s), NEW r,
           WellFormed(TermText(s, <<p, q>>)) \/ DoubleDash(TermText(s, <<p, q>>)),
           WellFormed(TermText(s, <<p, q>>)) => r = Meaning(TermText(s, <<p, q>>))
    PROVE  TakenUpTo(s, Append(rs, r), q)
<1> DEFINE more == Append(rs, r)
           Nr(n) == Cardinality(SeparatorsBefore(s, n))
<1>1. Separators(s) \subseteq Nat
    BY SeparatorsOf
<1>2. p \in Separators(s) /\ q \in Separators(s) /\ p < q /\ \A k \in Separators(s) : k <= p \/ k >= q
    BY DEF TermsOf
<1>3. Nr(q) = Nr(p) + 1 /\ \A n : Nr(n) \in Nat
    BY <1>2, OneMoreSeparator, SeparatorsOf
<1>4. PICK R : rs \in Seq(R)
    BY DEF TakenUpTo
<1>5. /\ rs \in Seq(R \cup {r}) /\ Len(rs) = Nr(p)
      /\ more \in Seq(R \cup {r}) /\ Len(more) = Len(rs) + 1
      /\ more[Len(rs) + 1] = r /\ \A k \in 1..Len(rs) : more[k] = rs[k]
    BY <1>4 DEF TakenUpTo
<1> HIDE DEF Nr, more
<1>6. ASSUME NEW t \in TermsOf(s), t[2] <= q
      PROVE  /\ WellFormed(TermText(s, t)) \/ DoubleDash(TermText(s, t))
             /\ WellFormed(TermText(s, t)) => more[Nr(t[2])] = Meaning(TermText(s, t))
    <2>1. t[1] \in Separators(s) /\ t[2] \in Separators(s) /\ t = <<t[1], t[2]>>
          /\ t[1] < t[2] /\ \A k \in Separators(s) : k <= t[1] \/ k >= t[2]
        BY DEF TermsOf
    <2>2. CASE t[2] <= p
        <3>1. TakenAs(s, rs, t)
            BY <2>2 DEF TakenUpTo
        <3>2. Nr(t[2]) \in 1..Len(rs)
            <4>1. Nr(t[2]) = Nr(t[1]) + 1
                BY <2>1, OneMoreSeparator DEF Nr
            <4>2. SeparatorsBefore(s, t[2]) \subseteq SeparatorsBefore(s, p)
                BY <1>1, <1>2, <2>1, <2>2 DEF SeparatorsBefore
            <4>3. Nr(t[2]) <= Nr(p)
                BY <4>2, SeparatorsOf, FS_Subset DEF Nr
            <4>4. QED
                BY <1>3, <1>5, <4>1, <4>3
        <3>3. QED
            BY <1>5, <3>1, <3>2 DEF TakenAs, Nr
    <2>3. CASE ~ (t[2] <= p)
        <3>1. t[2] = q
            BY <1>1, <1>2, <1>6, <2>1, <2>3
        <3>2. t[1] = p
            BY <1>1, <1>2, <2>1, <3>1
        <3>3. t = <<p, q>>
            BY <2>1, <3>1, <3>2
        <3>4. Nr(q) = Len(rs) + 1
            BY <1>3, <1>5
        <3>5. QED
            BY <1>5, <3>1, <3>3, <3>4
    <2>4. QED
        BY <2>2, <2>3
<1>7. TakenUpTo(s, more, q)
    BY <1>3, <1>5, <1>6 DEF TakenUpTo, TakenAs, Nr
<1>8. QED
    BY <1>7 DEF more

\* When all terms are taken there is one range for each.
LEMMA AllTermsTaken ==
    ASSUME NEW s \in Seq(Chars), NEW rs, TakenUpTo(s, rs, Len(s) + 1)
    PROVE  /\ \A t \in TermsOf(s) : WellFormed(TermText(s, t)) \/ DoubleDash(TermText(s, t))
           /\ Len(rs) = Cardinality(TermsOf(s))
           /\ \A t \in TermsOf(s) : WellFormed(TermText(s, t)) =>
                rs[Cardinality({k \in Separators(s) : k < t[2]})] = Meaning(TermText(s, t))
<1>1. \A t \in TermsOf(s) : t[2] <= Len(s) + 1
    <2>1. \A k \in Separators(s) : k <= Len(s) + 1
        BY SeparatorsOf
    <2>2. QED
        BY <2>1 DEF TermsOf
<1>2. \A t \in TermsOf(s) : TakenAs(s, rs, t)
    BY <1>1 DEF TakenUpTo
<1>3. Len(rs) = Cardinality(TermsOf(s))
    BY TermsCounted DEF TakenUpTo
<1>4. \A t \in TermsOf(s) : SeparatorsBefore(s, t[2]) = {k \in Separators(s) : k < t[2]}
    BY DEF SeparatorsBefore
<1>5. QED
    BY <1>2, <1>3, <1>4 DEF TakenAs

LEMMA ListInvInit == ParseInit => ListInv
    BY DEF ParseInit, ListInv, TakesWhatIsWellFormed

\* get_file_content: the text is there from its first term on.
LEMMA ContentRead == ListInv /\ ReadContent => ListInv'
<1> SUFFICES ASSUME ListInv, ReadContent
             PROVE  ListInv'
    OBVIOUS
<1>1. PICK rest \in Leftovers : content' = Before(file \o rest, Newline)
    BY DEF ReadContent
<1>2. file \in Seq(Chars) /\ rest \in Seq(Chars)
    BY TextsAssumption DEF ListInv, ReadContent
<1>3. content' \in Seq(Chars)
    <2>1. file \o rest \in Seq(Chars)
        BY <1>2
    <2>2. QED
        BY <1>1, <2>1, BeforeIs
<1>4. cur' = content' /\ UNCHANGED <<file, asFormat, member, ranges, noMemory, ret>> /\ ranges' = <<>>
      /\ parsePc' = IF asFormat THEN "member" ELSE "term"
    BY DEF ReadContent, ListInv
<1>5. asFormat \in BOOLEAN /\ file \in Files \cup {NoFile}
    BY DEF ListInv
<1>6. CASE asFormat
    BY <1>3, <1>4, <1>5, <1>6 DEF ListInv, TakesWhatIsWellFormed
<1>7. CASE ~ asFormat
    <2>1. ListText' = content'
        BY <1>4, <1>7 DEF ListText
    <2>2. AtTerm(ListText', cur', 0) /\ TakenUpTo(ListText', ranges', 0)
        BY <1>3, <1>4, <2>1, ListBegins
    <2>3. QED
        BY <1>3, <1>4, <1>5, <1>7, <2>1, <2>2 DEF ListInv, TakesWhatIsWellFormed, MemberRead
<1>8. QED
    BY <1>6, <1>7

LEMMA ReadFailsKeeps == ListInv /\ ReadFails => ListInv'
<1> SUFFICES ASSUME ListInv, ReadFails
             PROVE  ListInv'
    OBVIOUS
<1>1. content' = NoText /\ parsePc' = "returned" /\ UNCHANGED <<file, asFormat>>
    BY DEF ListInv, ReadFails, Return
<1>2. QED
    BY <1>1 DEF ListInv, TakesWhatIsWellFormed

\* parse_config_def: the list begins behind the member.
LEMMA MemberTaken == ListInv /\ ParseMember => ListInv'
<1> SUFFICES ASSUME ListInv, ParseMember
             PROVE  ListInv'
    OBVIOUS
<1>1. asFormat /\ asFormat \in BOOLEAN /\ file \in Files \cup {NoFile}
      /\ content \in Seq(Chars) /\ cur = content /\ ranges = <<>>
    BY DEF ListInv, ParseMember
<1>2. UNCHANGED <<file, asFormat, content, ranges, noMemory>>
    BY DEF ParseMember
<1>3. CASE cur # <<>> /\ Head(cur) \in Members
    <2>1. member' = Head(content) /\ cur' = Tail(content) /\ parsePc' = "term" /\ content # <<>>
        BY <1>1, <1>3 DEF ParseMember
    <2>2. ListText' = Tail(content) /\ Tail(content) \in Seq(Chars)
        BY <1>1, <1>2, <2>1 DEF ListText
    <2>3. AtTerm(ListText', cur', 0) /\ TakenUpTo(ListText', ranges', 0)
        BY <1>1, <1>2, <2>1, <2>2, ListBegins
    <2>4. QED
        BY <1>1, <1>2, <2>1, <2>2, <2>3 DEF ListInv, TakesWhatIsWellFormed, MemberRead
<1>4. CASE ~ (cur # <<>> /\ Head(cur) \in Members)
    <2>1. parsePc' = "returned" /\ ret' = Failed
        BY <1>4 DEF ParseMember, Return
    <2>2. QED
        BY <1>1, <1>2, <1>4, <2>1 DEF ListInv, TakesWhatIsWellFormed, Failed
<1>5. QED
    BY <1>3, <1>4

\* One turn of the loop takes one term.
LEMMA ListTermTaken == ListInv /\ ParseTerm => ListInv'
<1> SUFFICES ASSUME ListInv, ParseTerm
             PROVE  ListInv'
    OBVIOUS
<1> DEFINE s == ListText
           a == At(cur, Comma)
           b == Before(cur, Comma)
<1>1. /\ file \in Files \cup {NoFile} /\ asFormat \in BOOLEAN /\ content \in Seq(Chars)
      /\ MemberRead /\ s \in Seq(Chars)
      /\ parsePc = "term" /\ UNCHANGED <<file, asFormat, content, member, noMemory>>
    BY DEF ListInv, ParseTerm
<1>2. PICK p : AtTerm(s, cur, p) /\ TakenUpTo(s, ranges, p)
    BY DEF ListInv, ParseTerm
<1> DEFINE q == IF a = 0 THEN Len(s) + 1 ELSE p + a
           t == <<p, q>>
<1>3. s' = s
    BY <1>1 DEF ListText
<1>4. PICK r \in ParseRange(b) : ranges' = Append(ranges, r)
    BY DEF ParseTerm
<1> HIDE DEF s
<1>5. t \in TermsOf(s) /\ q \in Separators(s) /\ b = TermText(s, t) /\ b \in Seq(Chars)
    BY <1>1, <1>2, TermAtHand DEF AtTerm
<1>6. /\ WellFormed(TermText(s, t)) \/ DoubleDash(TermText(s, t))
      /\ WellFormed(TermText(s, t)) => r = Meaning(TermText(s, t))
    BY <1>4, <1>5, TermTaken
<1>7. TakenUpTo(s, ranges', q)
    BY <1>1, <1>2, <1>4, <1>5, <1>6, OneMoreTerm
<1>8. CASE a = 0
    <2>1. ret' = 0 /\ parsePc' = "returned"
        BY <1>8 DEF ParseTerm, Return
    <2>2. TakenUpTo(s, ranges', Len(s) + 1)
        BY <1>7, <1>8
    <2>3. /\ \A u \in TermsOf(s) : WellFormed(TermText(s, u)) \/ DoubleDash(TermText(s, u))
          /\ Len(ranges') = Cardinality(TermsOf(s))
          /\ \A u \in TermsOf(s) : WellFormed(TermText(s, u)) =>
                ranges'[Cardinality({k \in Separators(s) : k < u[2]})] = Meaning(TermText(s, u))
        BY <1>1, <2>2, AllTermsTaken
    <2>4. MemberRead'
        BY <1>1 DEF MemberRead
    <2>5. TakesWhatIsWellFormed'
        BY <1>3, <2>1, <2>3, <2>4 DEF TakesWhatIsWellFormed, TermTexts, MemberRead, Failed, s
    <2>6. QED
        BY <1>1, <2>1, <2>5 DEF ListInv
<1>9. CASE a # 0
    <2>1. cur' = Behind(cur, Comma) /\ parsePc' = "term"
        BY <1>1, <1>9 DEF ParseTerm
    <2>2. /\ p \in Separators(s) /\ p <= Len(s) /\ cur \in Seq(Chars) /\ Len(cur) = Len(s) - p
          /\ \A k \in 1..Len(cur) : cur[k] = s[p + k]
        BY <1>2 DEF AtTerm
    <2>3. cur' \in Seq(Chars) /\ Len(cur') = Len(cur) - a /\ \A k \in 1..(Len(cur) - a) : cur'[k] = cur[a + k]
        BY <2>1, <2>2, BehindIs
    <2>4. p \in Nat /\ a \in 1..Len(cur) /\ Len(s) \in Nat /\ Len(cur) \in Nat /\ q = p + a
        BY <1>1, <1>9, <2>2, FirstPlace, SeparatorsOf
    <2> HIDE DEF a, q
    <2>5. q <= Len(s) /\ Len(cur') = Len(s) - q
        BY <2>2, <2>3, <2>4
    <2>6. \A k \in 1..Len(cur') : cur'[k] = s[q + k]
        <3> SUFFICES ASSUME NEW k \in 1..Len(cur')
                     PROVE  cur'[k] = s[q + k]
            OBVIOUS
        <3>1. k \in 1..(Len(cur) - a) /\ a + k \in 1..Len(cur) /\ p + (a + k) = q + k
            BY <2>2, <2>3, <2>4
        <3>2. QED
            BY <2>2, <2>3, <3>1
    <2>7. AtTerm(s, cur', q)
        BY <1>5, <2>3, <2>5, <2>6 DEF AtTerm
    <2>8. QED
        BY <1>1, <1>3, <1>7, <2>1, <2>7 DEF ListInv, TakesWhatIsWellFormed, MemberRead, s
<1>10. QED
    BY <1>8, <1>9

\* The first term that is no good, or memory that is not there, ends the call.
LEMMA ListTermFails == ListInv /\ TermFails => ListInv'
<1> SUFFICES ASSUME ListInv, TermFails
             PROVE  ListInv'
    OBVIOUS
<1>1. /\ file \in Files \cup {NoFile} /\ asFormat \in BOOLEAN /\ content \in Seq(Chars)
      /\ ListText \in Seq(Chars)
      /\ UNCHANGED <<file, asFormat, content, member>> /\ parsePc' = "returned" /\ ret' = Failed
    BY DEF ListInv, TermFails, Return
<1>2. PICK p : AtTerm(ListText, cur, p)
    BY DEF ListInv, TermFails
<1>3. CASE noMemory'
    BY <1>1, <1>3 DEF ListInv, TakesWhatIsWellFormed, Failed
<1>4. CASE ParseRange(Before(cur, Comma)) = {}
    <2>1. PICK t \in TermsOf(ListText) : Before(cur, Comma) = TermText(ListText, t)
        BY <1>1, <1>2, TermAtHand DEF AtTerm
    <2>2. Before(cur, Comma) \in Seq(Chars)
        BY <1>2, BeforeIs DEF AtTerm
    <2>3. ~ WellFormed(Before(cur, Comma)) /\ ~ DoubleDash(Before(cur, Comma))
        BY <1>4, <2>2, TermTaken
    <2>4. TermTexts' = TermTexts /\ Before(cur, Comma) \in TermTexts
        BY <1>1, <2>1 DEF TermTexts, ListText
    <2>5. QED
        BY <1>1, <2>3, <2>4 DEF ListInv, TakesWhatIsWellFormed, Failed
<1>5. QED
    BY <1>3, <1>4 DEF TermFails

LEMMA ListInvStep == ListInv /\ [ParseNext]_parseVars => ListInv'
<1> SUFFICES ASSUME ListInv, [ParseNext]_parseVars
             PROVE  ListInv'
    OBVIOUS
<1>1. CASE UNCHANGED parseVars
    BY <1>1 DEF parseVars, ListInv, AtTerm, TakenUpTo, TakenAs, ListText, MemberRead,
                TakesWhatIsWellFormed, TermTexts
<1>2. QED
    BY <1>1, ReadFailsKeeps, ContentRead, MemberTaken, ListTermTaken, ListTermFails DEF ParseNext

\* TakesWhatIsWellFormed: parse_range_list takes the lists of terms "5" and
\* "4-7", and those with a sign in a second number, and no others; it gives one
\* range for each term, with the numbers that are written there.
THEOREM OnlyWellFormedTaken == ParseSpec => []TakesWhatIsWellFormed
<1>1. ListInv => TakesWhatIsWellFormed
    BY DEF ListInv
<1>2. QED
    BY <1>1, ListInvInit, ListInvStep, PTL DEF ParseSpec

-----------------------------------------------------------------------------
(* Numerals: what the C code reads of what jevents writes. *)

\* The function of DigitsReadAsHex, up to a number.
ReadsUpTo(m, f) ==
    /\ f \in [0..m -> Nat]
    /\ \A n \in 0..m : f[n] = IF n < 10 THEN n ELSE 16 * f[n \div 10] + (n % 10)

LEMMA ReadsAgree ==
    ASSUME NEW l \in Nat, NEW m \in Nat, NEW f, NEW g, ReadsUpTo(l, f), ReadsUpTo(m, g),
           NEW n \in Nat, n <= l, n <= m
    PROVE  f[n] = g[n]
<1> DEFINE Bad == {k \in Nat : k <= l /\ k <= m /\ f[k] # g[k]}
<1>1. ASSUME NEW k \in Bad, \A j \in Bad : k <= j
      PROVE  FALSE
    <2>1. k \in 0..l /\ k \in 0..m /\ f[k] # g[k] /\ k \in Nat
        OBVIOUS
    <2>2. f[k] = (IF k < 10 THEN k ELSE 16 * f[k \div 10] + (k % 10))
          /\ g[k] = (IF k < 10 THEN k ELSE 16 * g[k \div 10] + (k % 10))
        BY <2>1 DEF ReadsUpTo
    <2>3. ~ (k < 10)
        BY <2>1, <2>2
    <2>4. k \div 10 \in Nat /\ k \div 10 < k /\ k \div 10 <= l /\ k \div 10 <= m
        BY <2>1, <2>3
    <2>5. k \div 10 \notin Bad
        BY <1>1, <2>1, <2>4
    <2>6. f[k \div 10] = g[k \div 10]
        BY <2>4, <2>5
    <2>7. QED
        BY <2>1, <2>2, <2>3, <2>6
<1>2. Bad = {}
    <2>1. Bad \subseteq Nat
        OBVIOUS
    <2> HIDE DEF Bad
    <2>2. QED
        BY <1>1, <2>1, LeastNumber
<1>3. QED
    BY <1>2

LEMMA ReadsExist ==
    ASSUME NEW m \in Nat
    PROVE  \E f : ReadsUpTo(m, f)
<1> DEFINE Bad == {k \in Nat : ~ \E f : ReadsUpTo(k, f)}
<1>1. ASSUME NEW k \in Bad, \A j \in Bad : k <= j
      PROVE  FALSE
    <2>1. k \in Nat /\ ~ \E f : ReadsUpTo(k, f)
        OBVIOUS
    <2>2. CASE k = 0
        <3> DEFINE f == [n \in 0..0 |-> 0]
        <3>1. ReadsUpTo(0, f)
            BY DEF ReadsUpTo
        <3>2. QED
            BY <2>1, <2>2, <3>1
    <2>3. CASE k # 0
        <3>1. k - 1 \in Nat /\ ~ (k <= k - 1)
            BY <2>1, <2>3
        <3>2. k - 1 \notin Bad
            BY <1>1, <3>1
        <3>3. PICK f : ReadsUpTo(k - 1, f)
            BY <3>1, <3>2
        <3> DEFINE g == [n \in 0..k |-> IF n < k THEN f[n]
                                        ELSE IF k < 10 THEN k ELSE 16 * f[k \div 10] + (k % 10)]
        <3>4. f \in [0..(k - 1) -> Nat]
              /\ \A n \in 0..(k - 1) : f[n] = IF n < 10 THEN n ELSE 16 * f[n \div 10] + (n % 10)
            BY <3>3 DEF ReadsUpTo
        <3>5. \A n \in 0..k : ~ (n < 10) => n \div 10 \in 0..(k - 1) /\ n \div 10 \in 0..k /\ n \div 10 < k /\ n % 10 \in Nat
            BY <2>1, <3>1
        <3>6. \A n \in 0..k : n < k => n \in 0..(k - 1)
            BY <2>1
        <3>7. g \in [0..k -> Nat]
            <4>1. \A n \in 0..k : n < k => f[n] \in Nat
                BY <3>4, <3>6
            <4>2. ~ (k < 10) => 16 * f[k \div 10] + (k % 10) \in Nat
                BY <2>1, <3>4, <3>5
            <4>3. QED
                BY <2>1, <4>1, <4>2
        <3>8. \A n \in 0..k : g[n] = IF n < 10 THEN n ELSE 16 * g[n \div 10] + (n % 10)
            <4> SUFFICES ASSUME NEW n \in 0..k
                         PROVE  g[n] = IF n < 10 THEN n ELSE 16 * g[n \div 10] + (n % 10)
                OBVIOUS
            <4>1. ~ (n < 10) => g[n \div 10] = f[n \div 10]
                BY <3>5
            <4>2. CASE n < k
                BY <3>4, <3>6, <4>1, <4>2
            <4>3. CASE ~ (n < k)
                <5>1. n = k
                    BY <2>1, <4>3
                <5>2. QED
                    BY <4>1, <5>1
            <4>4. QED
                BY <4>2, <4>3
        <3> HIDE DEF g
        <3>9. ReadsUpTo(k, g)
            BY <3>7, <3>8 DEF ReadsUpTo
        <3>10. QED
            BY <2>1, <3>9
    <2>4. QED
        BY <2>2, <2>3
<1>2. Bad = {}
    <2>1. Bad \subseteq Nat
        OBVIOUS
    <2> HIDE DEF Bad
    <2>2. QED
        BY <1>1, <2>1, LeastNumber
<1>3. QED
    BY <1>2

\* What the digits of a number are in base 16, as the definition says.
LEMMA DigitsReadAs ==
    ASSUME NEW n \in Nat
    PROVE  DigitsReadAsHex[n] = IF n < 10 THEN n ELSE 16 * DigitsReadAsHex[n \div 10] + (n % 10)
<1> DEFINE Good(f) == f = [k \in Nat |-> IF k < 10 THEN k ELSE 16 * f[k \div 10] + (k % 10)]
           upTo(m) == CHOOSE f : ReadsUpTo(m, f)
           all == [k \in Nat |-> upTo(k)[k]]
<1>1. \A m \in Nat : ReadsUpTo(m, upTo(m))
    BY ReadsExist
<1> HIDE DEF upTo
<1>2. \A k \in Nat : all[k] = IF k < 10 THEN k ELSE 16 * all[k \div 10] + (k % 10)
    <2> SUFFICES ASSUME NEW k \in Nat
                 PROVE  upTo(k)[k] = IF k < 10 THEN k ELSE 16 * all[k \div 10] + (k % 10)
        OBVIOUS
    <2>1. k \in 0..k
        OBVIOUS
    <2>2. upTo(k)[k] = IF k < 10 THEN k ELSE 16 * upTo(k)[k \div 10] + (k % 10)
        BY <1>1, <2>1 DEF ReadsUpTo
    <2>3. CASE k < 10
        BY <2>2, <2>3
    <2>4. CASE ~ (k < 10)
        <3>1. k \div 10 \in Nat /\ k \div 10 <= k /\ k \div 10 <= k \div 10
            BY <2>4
        <3>2. upTo(k)[k \div 10] = upTo(k \div 10)[k \div 10]
            BY <1>1, <3>1, ReadsAgree
        <3>3. all[k \div 10] = upTo(k \div 10)[k \div 10]
            BY <3>1
        <3>4. QED
            BY <2>2, <2>4, <3>2, <3>3
    <2>5. QED
        BY <2>3, <2>4
<1>3. Good(all)
    <2> HIDE DEF all
    <2>1. all = [k \in Nat |-> all[k]]
        BY DEF all
    <2>2. QED
        BY <1>2, <2>1
<1> HIDE DEF all
<1>4. \E f : Good(f)
    BY <1>3
<1>5. DigitsReadAsHex = CHOOSE f : Good(f)
    BY DEF DigitsReadAsHex
<1>6. Good(DigitsReadAsHex)
    BY <1>4, <1>5
<1>7. QED
    BY <1>6

\* A number that is written in base 16 or with one digit is read as it is meant.
LEMMA ShortReads ==
    ASSUME NEW text \in [base : {10, 16}, n : Nat], ~ (text.base = 10 /\ text.n > 9)
    PROVE  parse_value(text) = text.n
<1>1. CASE text.base = 16
    BY <1>1 DEF parse_value
<1>2. CASE text.base = 10
    <2>1. text.n \in Nat /\ text.n < 10
        BY <1>2
    <2>2. DigitsReadAsHex[text.n] = text.n
        BY <2>1, DigitsReadAs
    <2>3. QED
        BY <1>2, <2>2 DEF parse_value
<1>3. QED
    BY <1>1, <1>2

-----------------------------------------------------------------------------
(* JsonEvent and parse_assignment_list: from an entry to its assignments. *)

\* The terms of a string, with the keys that its first term may have.
EventKeys == STRING \cup {"config", "eventid", "event"}
EventTerms == [key : EventKeys, text : [base : {10, 16}, n : Nat]]

\* What the terms of a string ask for.
MeantBy(terms) == {Meant(terms[t]) : t \in DOMAIN terms}

\* What the head and the first fields of the entry ask for.
WrittenUpTo(m) ==
    {[key |-> HeadKey, value |-> HeadNumber]}
    \cup {[key |-> FieldKeys[f], value |-> entry.fields[f].n] :
            f \in {g \in 1..m : ~ Omitted(entry.fields[g])}}

\* How far the entry is written, and then how far the string is read.
StringInv ==
    /\ entry \in Entries
    /\ fieldNr \in 0..Len(FieldKeys)
    /\ event \in Seq(EventTerms)
    /\ pc \in {"head", "fields", "resolve", "parse", "done", "raised"}
    /\ pc = "head" => fieldNr = 0
    /\ pc = "fields" => MeantBy(event) = WrittenUpTo(fieldNr) /\ entry.msr # Malformed
    /\ pc = "resolve" => MeantBy(event) = OwnAssignments
    /\ pc \in {"parse", "done"} => MeantBy(event) = Assignments
    /\ pc \notin {"parse", "done"} => parsed = <<>>
    /\ \E R : parsed \in Seq(R)
    /\ Len(parsed) <= Len(event)
    /\ \A t \in 1..Len(parsed) : parsed[t] = Assignment(event[t])
    /\ pc = "done" => Len(parsed) = Len(event)

LEMMA TermsAreEventTerms == Terms \subseteq EventTerms
    BY CodesAssumption DEF Terms, EventTerms, EventKeys, Numerals

\* The terms of a longer string are those of its parts.
LEMMA MeantByBoth ==
    ASSUME NEW s \in Seq(EventTerms), NEW t \in Seq(EventTerms)
    PROVE  s \o t \in Seq(EventTerms) /\ MeantBy(s \o t) = MeantBy(s) \cup MeantBy(t)
<1> DEFINE u == s \o t
<1>1. /\ u \in Seq(EventTerms) /\ Len(s) \in Nat /\ Len(t) \in Nat /\ Len(u) = Len(s) + Len(t)
      /\ \A k \in 1..(Len(s) + Len(t)) : u[k] = IF k <= Len(s) THEN s[k] ELSE t[k - Len(s)]
    BY ConcatProperties
<1> HIDE DEF u
<1>2. DOMAIN u = 1..(Len(s) + Len(t)) /\ DOMAIN s = 1..Len(s) /\ DOMAIN t = 1..Len(t)
    BY <1>1
<1>3. \A k \in DOMAIN u : (k \in DOMAIN s /\ u[k] = s[k]) \/ (k - Len(s) \in DOMAIN t /\ u[k] = t[k - Len(s)])
    BY <1>1, <1>2
<1>4. \A k \in DOMAIN s : k \in DOMAIN u /\ u[k] = s[k]
    BY <1>1, <1>2
<1>5. \A k \in DOMAIN t : k + Len(s) \in DOMAIN u /\ u[k + Len(s)] = t[k]
    <2> SUFFICES ASSUME NEW k \in DOMAIN t
                 PROVE  k + Len(s) \in DOMAIN u /\ u[k + Len(s)] = t[k]
        OBVIOUS
    <2>1. k + Len(s) \in 1..(Len(s) + Len(t)) /\ ~ (k + Len(s) <= Len(s)) /\ k + Len(s) - Len(s) = k
        BY <1>1, <1>2
    <2>2. QED
        BY <1>1, <1>2, <2>1
<1>6. MeantBy(u) \subseteq MeantBy(s) \cup MeantBy(t)
    <2> SUFFICES ASSUME NEW k \in DOMAIN u
                 PROVE  Meant(u[k]) \in MeantBy(s) \cup MeantBy(t)
        BY DEF MeantBy
    <2>1. QED
        BY <1>3 DEF MeantBy
<1>7. MeantBy(s) \subseteq MeantBy(u) /\ MeantBy(t) \subseteq MeantBy(u)
    BY <1>4, <1>5 DEF MeantBy
<1>8. QED
    BY <1>1, <1>6, <1>7 DEF u

LEMMA MeantByOne ==
    ASSUME NEW term \in EventTerms
    PROVE  <<term>> \in Seq(EventTerms) /\ MeantBy(<<term>>) = {Meant(term)}
BY DEF MeantBy

LEMMA MeantByOneMore ==
    ASSUME NEW s \in Seq(EventTerms), NEW term \in EventTerms
    PROVE  Append(s, term) \in Seq(EventTerms) /\ MeantBy(Append(s, term)) = MeantBy(s) \cup {Meant(term)}
<1>1. Append(s, term) = s \o <<term>>
    OBVIOUS
<1>2. QED
    BY <1>1, MeantByOne, MeantByBoth

\* The parts of an entry.
LEMMA EntryParts ==
    ASSUME entry \in Entries
    PROVE  /\ HeadKey \in EventKeys /\ HeadNumber \in Nat
           /\ \A f \in 1..Len(FieldKeys) :
                /\ entry.fields[f] \in Numerals \cup {Missing, Malformed}
                /\ FieldKeys[f] \in EventKeys
           /\ entry.filter \in Seq(EventTerms)
           /\ entry.msr \in EventTerms \cup {Missing, Malformed}
<1>1. /\ entry.code \in Codes /\ entry.ext \in ExtSels /\ entry.config \in ConfigCodes /\ entry.id \in IdCodes
      /\ entry.fields \in Fields /\ entry.filter \in Filters /\ entry.msr \in Msrs
    BY DEF Entries
<1>2. entry.config # Missing => entry.config.n \in Nat
    BY <1>1, CodesAssumption DEF Numerals
<1>3. entry.id # Missing => entry.id.n \in Nat
    BY <1>1, CodesAssumption DEF Numerals
<1>4. EventCode(entry.code.n, entry.ext) \in Nat
    <2>1. entry.code.n \in Nat /\ entry.ext \in Nat /\ MaxNumber + 1 \in Nat
        <3>1. entry.code \in Numerals /\ entry.ext \in Nat /\ MaxNumber \in Nat
            BY <1>1, CodesAssumption
        <3>2. entry.code.n \in 0..MaxNumber
            BY <3>1 DEF Numerals
        <3>3. QED
            BY <3>1, <3>2
    <2>2. entry.ext * (MaxNumber + 1) \in Nat
        BY <2>1
    <2>3. QED
        BY <2>1, <2>2 DEF EventCode
<1>5. HeadKey \in EventKeys /\ HeadNumber \in Nat
    <2>1. CASE entry.config # Missing
        <3>1. HeadKey = "config"
            BY <2>1 DEF HeadKey
        <3>2. HeadNumber = entry.config.n
            BY <3>1 DEF HeadNumber
        <3>3. QED
            BY <1>2, <2>1, <3>1, <3>2 DEF EventKeys
    <2>2. CASE entry.config = Missing /\ entry.id # Missing
        <3>1. HeadKey = "eventid"
            BY <2>2 DEF HeadKey
        <3>2. HeadNumber = entry.id.n
            BY <3>1 DEF HeadNumber
        <3>3. QED
            BY <1>3, <2>2, <3>1, <3>2 DEF EventKeys
    <2>3. CASE entry.config = Missing /\ entry.id = Missing
        <3>1. HeadKey = "event"
            BY <2>3 DEF HeadKey
        <3>2. HeadNumber = EventCode(entry.code.n, entry.ext)
            BY <3>1 DEF HeadNumber
        <3>3. QED
            BY <1>4, <3>1, <3>2 DEF EventKeys
    <2>4. QED
        BY <2>1, <2>2, <2>3
<1>6. entry.fields \in [1..Len(FieldKeys) -> Numerals \cup {Missing, Malformed}] /\ FieldKeys \in Seq(STRING)
    BY <1>1, FieldsAssumption
<1>7. entry.filter \in Seq(EventTerms)
    <2>1. entry.filter \in Seq(Terms)
        BY <1>1, TermsAssumption
    <2>2. QED
        BY <2>1, TermsAreEventTerms
<1>8. entry.msr \in EventTerms \cup {Missing, Malformed}
    BY <1>1, TermsAssumption, TermsAreEventTerms
<1>9. QED
    BY <1>5, <1>6, <1>7, <1>8 DEF EventKeys

LEMMA StringInvInit == Init => StringInv
<1> SUFFICES ASSUME Init
             PROVE  StringInv
    OBVIOUS
<1>1. <<>> \in Seq(EventTerms) /\ Len(<<>>) = 0 /\ Len(FieldKeys) \in Nat
    BY FieldsAssumption
<1>2. QED
    BY <1>1 DEF Init, StringInv

LEMMA HeadWritten == StringInv /\ WriteHead => StringInv'
<1> SUFFICES ASSUME StringInv, WriteHead
             PROVE  StringInv'
    OBVIOUS
<1> DEFINE term == Term(HeadKey, llx(HeadNumber))
<1>1. entry \in Entries /\ fieldNr = 0 /\ parsed = <<>> /\ UNCHANGED <<entry, fieldNr, parsed>>
      /\ event' = <<term>> /\ pc' = "fields" /\ entry.msr # Malformed /\ fieldNr \in 0..Len(FieldKeys)
      /\ \E R : parsed \in Seq(R)
    BY DEF StringInv, WriteHead
<1>2. term \in EventTerms /\ Meant(term) = [key |-> HeadKey, value |-> HeadNumber]
    BY <1>1, EntryParts DEF Term, llx, EventTerms, Meant
<1> HIDE DEF term
<1>3. event' \in Seq(EventTerms) /\ MeantBy(event') = {[key |-> HeadKey, value |-> HeadNumber]}
    BY <1>1, <1>2, MeantByOne
<1>4. WrittenUpTo(0) = {[key |-> HeadKey, value |-> HeadNumber]}
    BY DEF WrittenUpTo
<1>5. WrittenUpTo(fieldNr)' = WrittenUpTo(fieldNr)
    BY <1>1 DEF WrittenUpTo, HeadKey, HeadNumber
<1>6. Len(parsed') = 0 /\ Len(event') \in Nat
    BY <1>1, <1>3
<1>7. MeantBy(event)' = WrittenUpTo(fieldNr)'
    <2>1. MeantBy(event)' = MeantBy(event')
        BY DEF MeantBy, Meant
    <2>2. WrittenUpTo(fieldNr) = WrittenUpTo(0)
        BY <1>1
    <2>3. QED
        BY <1>3, <1>4, <1>5, <2>1, <2>2
<1>8. Len(parsed') <= Len(event') /\ \A t \in 1..Len(parsed') : parsed'[t] = Assignment(event[t])'
    BY <1>6
<1>9. entry' \in Entries /\ fieldNr' \in 0..Len(FieldKeys) /\ entry'.msr # Malformed /\ parsed' = <<>>
      /\ \E R : parsed' \in Seq(R)
    BY <1>1
<1>10. QED
    BY <1>1, <1>3, <1>7, <1>8, <1>9 DEF StringInv

\* A field that is left out asks for nothing, and one that is written for its number.
LEMMA OneMoreField ==
    ASSUME StringInv, pc = "fields", fieldNr < Len(FieldKeys), UNCHANGED <<entry, pc, parsed>>,
           fieldNr' = fieldNr + 1, event' \in Seq(EventTerms),
           MeantBy(event') = MeantBy(event) \cup
                IF Omitted(NextField) THEN {}
                ELSE {[key |-> FieldKeys[fieldNr + 1], value |-> NextField.n]}
    PROVE  StringInv'
<1>1. fieldNr \in Nat /\ Len(FieldKeys) \in Nat /\ fieldNr' \in 0..Len(FieldKeys)
    <2>1. Len(FieldKeys) \in Nat
        BY FieldsAssumption
    <2>2. QED
        BY <2>1 DEF StringInv
<1>2. 1..fieldNr' = 1..fieldNr \cup {fieldNr + 1}
    BY <1>1
<1>3. WrittenUpTo(fieldNr') = MeantBy(event')
    <2> DEFINE At_(f) == [key |-> FieldKeys[f], value |-> entry.fields[f].n]
               In(m) == {g \in 1..m : ~ Omitted(entry.fields[g])}
    <2>1. In(fieldNr') = In(fieldNr) \cup IF Omitted(NextField) THEN {} ELSE {fieldNr + 1}
        BY <1>2 DEF NextField
    <2>2. {At_(f) : f \in In(fieldNr')} = {At_(f) : f \in In(fieldNr)}
             \cup IF Omitted(NextField) THEN {} ELSE {At_(fieldNr + 1)}
        <3> HIDE DEF At_, In
        <3>1. QED
            BY <2>1
    <2>3. At_(fieldNr + 1) = [key |-> FieldKeys[fieldNr + 1], value |-> NextField.n]
        BY DEF NextField
    <2>4. \A m : WrittenUpTo(m) = {[key |-> HeadKey, value |-> HeadNumber]} \cup {At_(f) : f \in In(m)}
        BY DEF WrittenUpTo
    <2>5. MeantBy(event) = WrittenUpTo(fieldNr)
        BY DEF StringInv
    <2> HIDE DEF At_, In
    <2>6. QED
        BY <2>2, <2>3, <2>4, <2>5
<1>4. WrittenUpTo(fieldNr)' = WrittenUpTo(fieldNr')
    BY DEF WrittenUpTo, HeadKey, HeadNumber
<1>5. Len(parsed') = 0 /\ Len(event') \in Nat /\ parsed' = <<>> /\ \E R : parsed' \in Seq(R)
    BY DEF StringInv
<1>6. entry' \in Entries /\ entry'.msr # Malformed /\ pc' = "fields"
    BY DEF StringInv
<1>7. Len(parsed') <= Len(event') /\ \A t \in 1..Len(parsed') : parsed'[t] = Assignment(event[t])'
    BY <1>5
<1>8. MeantBy(event)' = WrittenUpTo(fieldNr)'
    BY <1>3, <1>4 DEF MeantBy, Meant
<1>9. QED
    BY <1>1, <1>5, <1>6, <1>7, <1>8 DEF StringInv

LEMMA FieldSkipped == StringInv /\ SkipField => StringInv'
<1> SUFFICES ASSUME StringInv, SkipField
             PROVE  StringInv'
    OBVIOUS
<1>1. MeantBy(event') = MeantBy(event) \cup {} /\ event' \in Seq(EventTerms) /\ Omitted(NextField)
    BY DEF SkipField, StringInv
<1>2. QED
    BY <1>1, OneMoreField DEF SkipField

LEMMA FieldWritten == StringInv /\ WriteField => StringInv'
<1> SUFFICES ASSUME StringInv, WriteField
             PROVE  StringInv'
    OBVIOUS
<1> DEFINE term == Term(FieldKeys[fieldNr + 1], canonicalize_value(NextField))
<1>1. pc = "fields" /\ fieldNr < Len(FieldKeys) /\ NextField # Malformed /\ ~ Omitted(NextField)
      /\ event' = Append(event, term) /\ fieldNr' = fieldNr + 1 /\ UNCHANGED <<entry, pc, parsed>>
    BY DEF WriteField
<1>2. NextField \in Numerals /\ FieldKeys[fieldNr + 1] \in EventKeys
    <2>1. fieldNr + 1 \in 1..Len(FieldKeys)
        BY <1>1, FieldsAssumption DEF StringInv
    <2>2. NextField # Missing
        BY <1>1 DEF Omitted
    <2>3. QED
        BY <1>1, <2>1, <2>2, EntryParts DEF NextField, StringInv
<1>3. canonicalize_value(NextField) \in [base : {10, 16}, n : Nat] /\ canonicalize_value(NextField).n = NextField.n
    BY <1>2, CodesAssumption DEF canonicalize_value, llx, Numerals
<1>4. term \in EventTerms /\ Meant(term) = [key |-> FieldKeys[fieldNr + 1], value |-> NextField.n]
    BY <1>2, <1>3 DEF Term, EventTerms, Meant
<1> HIDE DEF term
<1>5. event \in Seq(EventTerms)
    BY DEF StringInv
<1>6. event' \in Seq(EventTerms) /\ MeantBy(event') = MeantBy(event) \cup {Meant(term)}
    BY <1>1, <1>4, <1>5, MeantByOneMore
<1>7. QED
    BY <1>1, <1>4, <1>6, OneMoreField

LEMMA TailWritten == StringInv /\ WriteTail => StringInv'
<1> SUFFICES ASSUME StringInv, WriteTail
             PROVE  StringInv'
    OBVIOUS
<1> DEFINE msr == IF entry.msr = Missing THEN <<>> ELSE <<entry.msr>>
<1>1. event' = (event \o entry.filter) \o msr /\ pc' = "resolve" /\ UNCHANGED <<entry, fieldNr, parsed>>
      /\ fieldNr = Len(FieldKeys) /\ event \in Seq(EventTerms) /\ entry \in Entries
      /\ MeantBy(event) = WrittenUpTo(fieldNr) /\ entry.msr # Malformed /\ parsed = <<>>
    BY DEF StringInv, WriteTail
<1>2. msr \in Seq(EventTerms) /\ MeantBy(msr) = IF entry.msr = Missing THEN {} ELSE {Meant(entry.msr)}
    <2>1. CASE entry.msr = Missing
        <3>1. MeantBy(<<>>) = {} /\ <<>> \in Seq(EventTerms)
            BY DEF MeantBy
        <3>2. QED
            BY <2>1, <3>1
    <2>2. CASE entry.msr # Missing
        <3>1. entry.msr \in EventTerms
            BY <1>1, <2>2, EntryParts
        <3>2. QED
            BY <2>2, <3>1, MeantByOne
    <2>3. QED
        BY <2>1, <2>2
<1> HIDE DEF msr
<1>3. entry.filter \in Seq(EventTerms)
    BY <1>1, EntryParts
<1>4. event' \in Seq(EventTerms) /\ MeantBy(event') = MeantBy(event) \cup MeantBy(entry.filter) \cup MeantBy(msr)
    <2>1. event \o entry.filter \in Seq(EventTerms)
          /\ MeantBy(event \o entry.filter) = MeantBy(event) \cup MeantBy(entry.filter)
        BY <1>1, <1>3, MeantByBoth
    <2>2. QED
        BY <1>1, <1>2, <2>1, MeantByBoth
<1>5. DOMAIN FieldKeys = 1..fieldNr
    BY <1>1, FieldsAssumption
<1>6. OwnAssignments = WrittenUpTo(fieldNr) \cup MeantBy(entry.filter) \cup
                        (IF entry.msr = Missing THEN {} ELSE {Meant(entry.msr)})
    BY <1>5 DEF OwnAssignments, WrittenUpTo, MeantBy
<1>7. OwnAssignments' = OwnAssignments
    BY <1>1 DEF OwnAssignments, HeadKey, HeadNumber
<1>8. MeantBy(event') = OwnAssignments'
    BY <1>1, <1>2, <1>4, <1>6, <1>7
<1>9. Len(parsed') = 0 /\ Len(event') \in Nat /\ \E R : parsed' \in Seq(R)
    BY <1>1, <1>4 DEF StringInv
<1>10. fieldNr' \in 0..Len(FieldKeys)
    BY <1>1 DEF StringInv
<1>11. QED
    BY <1>1, <1>4, <1>8, <1>9, <1>10 DEF StringInv

\* A standard event or a well known name takes the place of what was written.
LEMMA StringResolved == StringInv /\ Resolve => StringInv'
<1> SUFFICES ASSUME StringInv, Resolve
             PROVE  StringInv'
    OBVIOUS
<1>1. /\ event' = IF entry.fixed THEN FixedEvent ELSE IF entry.std = "known" THEN StdEvent ELSE event
      /\ pc' = "parse" /\ UNCHANGED <<entry, fieldNr, parsed>> /\ parsed = <<>> /\ event \in Seq(EventTerms)
      /\ MeantBy(event) = OwnAssignments /\ entry \in Entries /\ fieldNr \in 0..Len(FieldKeys)
      /\ \E R : parsed \in Seq(R)
    BY DEF StringInv, Resolve
<1>2. FixedEvent \in Seq(EventTerms) /\ StdEvent \in Seq(EventTerms)
    <2>1. FixedEvent \in Seq(Terms) /\ StdEvent \in Seq(Terms)
        BY TermsAssumption
    <2>2. QED
        BY <2>1, TermsAreEventTerms
<1>3. event' \in Seq(EventTerms)
    BY <1>1, <1>2
<1>4. Assignments' = Assignments
    BY <1>1 DEF Assignments, OwnAssignments, HeadKey, HeadNumber
<1>5. Assignments = IF entry.fixed THEN MeantBy(FixedEvent)
                    ELSE IF entry.std = "known" THEN MeantBy(StdEvent) ELSE OwnAssignments
    BY DEF Assignments, MeantBy
<1>6. MeantBy(event') = Assignments'
    BY <1>1, <1>4, <1>5
<1>7. Len(parsed') = 0 /\ Len(event') \in Nat
    BY <1>1, <1>3
<1>8. QED
    BY <1>1, <1>3, <1>6, <1>7 DEF StringInv

LEMMA AssignmentParsed == StringInv /\ ParseAssignment => StringInv'
<1> SUFFICES ASSUME StringInv, ParseAssignment
             PROVE  StringInv'
    OBVIOUS
<1> DEFINE n == Len(parsed)
           r == Assignment(event[n + 1])
<1>1. pc = "parse" /\ n < Len(event) /\ parsed' = Append(parsed, r) /\ UNCHANGED <<entry, pc, fieldNr, event>>
      /\ event \in Seq(EventTerms) /\ MeantBy(event) = Assignments /\ \A t \in 1..n : parsed[t] = Assignment(event[t])
    BY DEF StringInv, ParseAssignment
<1>2. PICK R : parsed \in Seq(R)
    BY DEF StringInv
<1>3. /\ parsed \in Seq(R \cup {r}) /\ n \in Nat /\ parsed' \in Seq(R \cup {r}) /\ Len(parsed') = n + 1
      /\ parsed'[n + 1] = r /\ \A t \in 1..n : parsed'[t] = parsed[t]
    <2> HIDE DEF r
    <2>1. QED
        BY <1>1, <1>2
<1>4. \A t \in 1..Len(parsed') : parsed'[t] = Assignment(event[t])
    <2> HIDE DEF n
    <2>1. \A t \in 1..(n + 1) : t \in 1..n \/ t = n + 1
        BY <1>3
    <2>2. QED
        BY <1>1, <1>3, <2>1
<1>5. Assignments' = Assignments
    BY <1>1 DEF Assignments, OwnAssignments, HeadKey, HeadNumber
<1>6. Len(parsed') <= Len(event)
    BY <1>1, <1>3
<1>7. QED
    BY <1>1, <1>3, <1>4, <1>5, <1>6 DEF StringInv

\* What changes nothing but how far the entry is.
LEMMA OnlyPcChanges ==
    ASSUME StringInv, UNCHANGED <<entry, fieldNr, event, parsed>>,
           (pc' = "raised" /\ pc \notin {"parse", "done"}) \/ UNCHANGED pc \/ ParseEnds
    PROVE  StringInv'
<1>1. OwnAssignments' = OwnAssignments /\ Assignments' = Assignments /\ WrittenUpTo(fieldNr)' = WrittenUpTo(fieldNr)
    BY DEF Assignments, OwnAssignments, WrittenUpTo, HeadKey, HeadNumber
<1>2. QED
    BY <1>1 DEF StringInv, ParseEnds

LEMMA StringInvStep == StringInv /\ [Next]_vars => StringInv'
<1> SUFFICES ASSUME StringInv, [Next]_vars
             PROVE  StringInv'
    OBVIOUS
<1>1. CASE MsrRaises
    BY <1>1, OnlyPcChanges DEF MsrRaises
<1>2. CASE FieldRaises
    BY <1>2, OnlyPcChanges DEF FieldRaises
<1>3. CASE ResolveRaises
    BY <1>3, OnlyPcChanges DEF ResolveRaises
<1>4. CASE ParseEnds
    BY <1>4, OnlyPcChanges DEF ParseEnds
<1>5. CASE UNCHANGED vars
    BY <1>5, OnlyPcChanges DEF vars
<1>6. QED
    BY <1>1, <1>2, <1>3, <1>4, <1>5, HeadWritten, FieldSkipped, FieldWritten, TailWritten,
       StringResolved, AssignmentParsed DEF Next

\* AssignmentsSurvive: the assignments that parse_assignment_list reads are
\* those the json entry asks for, unless a number of the string is written in
\* decimal with more than one digit.
THEOREM AssignmentsAlwaysSurvive == Spec => []AssignmentsSurvive
<1>1. StringInv => AssignmentsSurvive
    <2> SUFFICES ASSUME StringInv, pc = "done", ~ HasLongDecimal
                 PROVE  {parsed[t] : t \in DOMAIN parsed} = Assignments
        BY DEF AssignmentsSurvive
    <2>1. event \in Seq(EventTerms) /\ Len(parsed) = Len(event) /\ MeantBy(event) = Assignments
          /\ \A t \in 1..Len(parsed) : parsed[t] = Assignment(event[t])
        BY DEF StringInv
    <2>2. DOMAIN parsed = 1..Len(event) /\ DOMAIN event = 1..Len(event)
        BY <2>1 DEF StringInv
    <2>3. \A t \in DOMAIN event : parsed[t] = Meant(event[t])
        <3> SUFFICES ASSUME NEW t \in DOMAIN event
                     PROVE  parsed[t] = Meant(event[t])
            OBVIOUS
        <3>1. event[t] \in EventTerms
            BY <2>1
        <3>2. event[t].text \in [base : {10, 16}, n : Nat] /\ ~ (event[t].text.base = 10 /\ event[t].text.n > 9)
            BY <3>1 DEF EventTerms, HasLongDecimal
        <3>3. parse_value(event[t].text) = event[t].text.n
            BY <3>2, ShortReads
        <3>4. parsed[t] = Assignment(event[t])
            BY <2>1, <2>2
        <3>5. QED
            BY <3>3, <3>4 DEF Assignment, Meant
    <2>4. QED
        BY <2>1, <2>2, <2>3 DEF MeantBy
<1>2. QED
    BY <1>1, StringInvInit, StringInvStep, PTL DEF Spec

=============================================================================
