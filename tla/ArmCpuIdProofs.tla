--------------------------- MODULE ArmCpuIdProofs ---------------------------
(***************************************************************************)
(* Theorems about get_cpuid_str on Arm and the reader and the parser below *)
(* it, for buffers of any size, any number of CPUs that go offline and     *)
(* come back, and any failures.                                            *)
(***************************************************************************)
EXTENDS ArmCpuId, TLAPS, FiniteSetTheorems, SequenceTheorems, WellFoundedInduction

Chars == (0..9) \cup {Dash, Comma, Newline}

-----------------------------------------------------------------------------
(* Lemmas about numbers. *)

\* A set of natural numbers has a least one, and a bounded one a greatest.
LEMMA LeastNumber ==
    ASSUME NEW S, S \subseteq Nat, S # {}
    PROVE  \E n \in S : \A m \in S : n <= m
<1>1. \E n \in S : \A m \in S : ~ (<<m, n>> \in OpToRel(<, Nat))
    BY WFMin, NatLessThanWellFounded
<1>2. PICK n \in S : \A m \in S : ~ (<<m, n>> \in OpToRel(<, Nat))
    BY <1>1
<1>3. \A m \in S : m < n => <<m, n>> \in OpToRel(<, Nat)
    BY DEF OpToRel
<1>4. ASSUME NEW m \in S
      PROVE  n <= m
    <2>1. n \in Nat /\ m \in Nat /\ ~ (m < n)
        BY <1>2, <1>3
    <2>2. QED
        BY <2>1
<1>5. QED
    BY <1>4

LEMMA GreatestNumber ==
    ASSUME NEW b \in Nat, NEW S, S \subseteq 0..b, S # {}
    PROVE  Max(S) \in S /\ \A m \in S : Max(S) >= m
<1> DEFINE D == {d \in Nat : b - d \in S}
<1>1. PICK m \in S : TRUE
    OBVIOUS
<1>2. b - m \in D
    OBVIOUS
<1>3. PICK d \in D : \A e \in D : d <= e
    BY <1>2, LeastNumber
<1>4. \A n \in S : b - n \in D
    OBVIOUS
<1>5. b - d \in S /\ \A n \in S : b - d >= n
    BY <1>3, <1>4
<1>6. QED
    BY <1>5 DEF Max

\* max(a, b)
LEMMA MaxOfTwo ==
    ASSUME NEW a \in Int, NEW b \in Int
    PROVE  Max({a, b}) \in {a, b} /\ Max({a, b}) >= a /\ Max({a, b}) >= b
<1>1. \E x \in {a, b} : \A y \in {a, b} : x >= y
    OBVIOUS
<1>2. QED
    BY <1>1 DEF Max

Digits(s, n) == \A k \in 1..n : s[k] \in 0..9

LEMMA NumberLenBounded ==
    ASSUME NEW S, NEW s \in Seq(S)
    PROVE  NumberLen(s) \in 0..Len(s) /\ Digits(s, NumberLen(s))
<1> DEFINE L == {n \in 0..Len(s) : Digits(s, n)}
<1>1. Len(s) \in Nat
    OBVIOUS
<1>2. 0 \in L
    BY <1>1 DEF Digits
<1>3. Max(L) \in L
    BY <1>1, <1>2, GreatestNumber
<1>4. NumberLen(s) = Max(L)
    BY DEF NumberLen, Digits
<1>5. QED
    BY <1>3, <1>4

\* The function that puts digits together is there for every number of digits.
LEMMA DigitsMakeNumbers ==
    ASSUME NEW s, NEW n \in Nat, Digits(s, n)
    PROVE  \E f \in [0..n -> Nat] : f = [i \in 0..n |-> IF i = 0 THEN 0 ELSE 10 * f[i - 1] + s[i]]
<1> DEFINE Good(m, f) == f = [i \in 0..m |-> IF i = 0 THEN 0 ELSE 10 * f[i - 1] + s[i]]
           Bad == {m \in 0..n : ~ \E f \in [0..m -> Nat] : Good(m, f)}
<1>1. ASSUME NEW m \in Bad, \A k \in Bad : m <= k
      PROVE  FALSE
    <2>1. CASE m = 0
        <3> DEFINE f == [i \in 0..0 |-> 0]
        <3>1. f \in [0..0 -> Nat] /\ Good(0, f)
            OBVIOUS
        <3>2. QED
            BY <1>1, <2>1, <3>1
    <2>2. CASE m # 0
        <3>1. m \in 0..n
            OBVIOUS
        <3>2. m \in 1..n /\ m - 1 \in 0..n /\ ~ (m <= m - 1)
            BY <2>2, <3>1
        <3>3. m - 1 \notin Bad
            BY <1>1, <3>2
        <3>4. PICK f \in [0..(m - 1) -> Nat] : Good(m - 1, f)
            BY <3>2, <3>3
        <3> DEFINE g == [i \in 0..m |-> IF i = m THEN 10 * f[m - 1] + s[m] ELSE f[i]]
        <3>5. s[m] \in Nat /\ f[m - 1] \in Nat
            <4>1. m - 1 \in 0..(m - 1)
                BY <3>2
            <4>2. s[m] \in 0..9
                BY <3>2 DEF Digits
            <4>3. QED
                BY <3>4, <4>1, <4>2
        <3>6. \A i \in 0..m : i # m => i \in 0..(m - 1)
            BY <3>2
        <3>7. g \in [0..m -> Nat]
            BY <3>5, <3>6
        <3>8. \A i \in 0..(m - 1) : f[i] = IF i = 0 THEN 0 ELSE 10 * f[i - 1] + s[i]
            BY <3>4
        <3>9. \A i \in 0..m : i # 0 => i - 1 \in 0..(m - 1) /\ i - 1 \in 0..m /\ i - 1 # m
            BY <3>2
        <3>10. \A i \in 0..m : g[i] = IF i = 0 THEN 0 ELSE 10 * g[i - 1] + s[i]
            BY <2>2, <3>6, <3>8, <3>9
        <3> HIDE DEF g
        <3>11. Good(m, g)
            BY <3>7, <3>10
        <3>12. QED
            BY <1>1, <3>7, <3>11
    <2>3. QED
        BY <2>1, <2>2
<1>2. Bad = {}
    <2>1. Bad \subseteq Nat
        OBVIOUS
    <2> HIDE DEF Bad
    <2>2. QED
        BY <1>1, <2>1, LeastNumber
<1>3. n \notin Bad /\ n \in 0..n
    BY <1>2
<1>4. QED
    BY <1>3

\* Number is the value the function of DigitsMakeNumbers has at the end.
LEMMA NumberByDigits ==
    ASSUME NEW s, NEW n \in Nat, NumberLen(s) = n, Digits(s, n)
    PROVE  \E f \in [0..n -> Nat] :
              /\ f[0] = 0
              /\ \A i \in 1..n : f[i] = 10 * f[i - 1] + s[i]
              /\ Number(s) = f[n]
<1> DEFINE Good(f) == f = [i \in 0..n |-> IF i = 0 THEN 0 ELSE 10 * f[i - 1] + s[i]]
           f == CHOOSE f : Good(f)
<1>1. \E g : Good(g)
    BY DigitsMakeNumbers
<1>2. Good(f)
    BY <1>1
<1>3. Number(s) = f[n]
    BY DEF Number
<1> HIDE DEF f
<1>4. f[0] = 0 /\ \A i \in 1..n : f[i] = 10 * f[i - 1] + s[i]
    BY <1>2
<1>5. \A i \in 0..n : f[i] \in Nat
    <2> DEFINE Bad == {i \in 0..n : f[i] \notin Nat}
    <2>1. ASSUME NEW i \in Bad, \A k \in Bad : i <= k
          PROVE  FALSE
        <3>1. i # 0
            BY <1>4
        <3>2. i \in 1..n /\ i - 1 \in 0..n /\ i - 1 \notin Bad
            BY <2>1, <3>1
        <3>3. f[i] = 10 * f[i - 1] + s[i]
            BY <1>4, <3>2
        <3>4. s[i] \in Nat /\ f[i - 1] \in Nat
            BY <3>2 DEF Digits
        <3>5. QED
            BY <3>3, <3>4
    <2>2. Bad \subseteq Nat
        OBVIOUS
    <2>3. Bad = {}
        <3> HIDE DEF Bad
        <3>1. QED
            BY <2>1, <2>2, LeastNumber
    <2>4. QED
        BY <2>3
<1>6. f \in [0..n -> Nat]
    BY <1>2, <1>5
<1>7. QED
    BY <1>3, <1>4, <1>6

LEMMA NumberIsNat ==
    ASSUME NEW S, NEW s \in Seq(S)
    PROVE  Number(s) \in Nat
<1> DEFINE n == NumberLen(s)
<1>1. n \in 0..n /\ n \in Nat /\ Digits(s, n)
    BY NumberLenBounded
<1> HIDE DEF n
<1>2. \E f \in [0..n -> Nat] : Number(s) = f[n]
    BY <1>1, NumberByDigits DEF n
<1>3. QED
    BY <1>1, <1>2

\* Digits in front of something else: all of them are the number.
LEMMA NumberLenOf ==
    ASSUME NEW d \in Seq(0..9), NEW u \in Seq(Chars), u = <<>> \/ u[1] \notin 0..9
    PROVE  NumberLen(d \o u) = Len(d)
<1> DEFINE s == d \o u
           L == {n \in 0..Len(s) : \A k \in 1..n : s[k] \in 0..9}
<1>1. Len(d) \in Nat /\ Len(u) \in Nat /\ u \in Seq(Chars) /\ d \in Seq(Chars)
    BY DEF Chars
<1>2. Len(s) = Len(d) + Len(u) /\ \A i \in 1..(Len(d) + Len(u)) : s[i] = IF i <= Len(d) THEN d[i] ELSE u[i - Len(d)]
    BY <1>1, ConcatProperties
<1> HIDE DEF s
<1>3. Len(d) \in L
    <2>1. \A k \in 1..Len(d) : s[k] = d[k] /\ d[k] \in 0..9
        BY <1>1, <1>2
    <2>2. Len(d) \in 0..Len(s)
        BY <1>1, <1>2
    <2>3. QED
        BY <2>1, <2>2
<1>4. ASSUME NEW n \in L
      PROVE  n <= Len(d)
    <2>1. SUFFICES ASSUME n > Len(d)
                   PROVE  FALSE
        BY <1>1, <1>2
    <2>2. n \in 0..(Len(d) + Len(u)) /\ Len(d) + 1 \in 1..n
        BY <1>1, <1>2, <2>1
    <2>3. s[Len(d) + 1] \in 0..9
        BY <2>2
    <2>4. Len(u) >= 1 /\ Len(d) + 1 \in 1..(Len(d) + Len(u))
        BY <1>1, <2>2
    <2>5. s[Len(d) + 1] = u[1]
        <3>1. Len(d) + 1 - Len(d) = 1 /\ ~ (Len(d) + 1 <= Len(d))
            BY <1>1
        <3>2. QED
            BY <1>2, <2>4, <3>1
    <2>6. u # <<>>
        BY <2>4
    <2>7. QED
        BY <2>3, <2>5, <2>6
<1>5. L \subseteq 0..Len(s) /\ L # {} /\ Len(s) \in Nat
    BY <1>1, <1>2, <1>3
<1>6. Max(L) \in L /\ \A m \in L : Max(L) >= m
    <2> HIDE DEF L
    <2>1. QED
        BY <1>5, GreatestNumber
<1>7. Max(L) <= Len(d) /\ Max(L) >= Len(d) /\ Max(L) \in Nat
    <2> DEFINE m == Max(L)
    <2>1. m \in L /\ m \in 0..Len(s) /\ m <= Len(d) /\ m >= Len(d)
        BY <1>3, <1>4, <1>6, <1>5
    <2> HIDE DEF m, L
    <2>2. m \in Nat
        BY <1>5, <2>1
    <2>3. QED
        BY <2>1, <2>2 DEF m
<1>8. Max(L) = Len(d)
    BY <1>1, <1>7
<1>9. NumberLen(s) = Max(L)
    BY DEF NumberLen
<1>10. QED
    BY <1>8, <1>9 DEF s

\* The number is theirs.
LEMMA NumberInFront ==
    ASSUME NEW d \in Seq(0..9), NEW u \in Seq(Chars), u = <<>> \/ u[1] \notin 0..9
    PROVE  Number(d \o u) = Number(d) /\ Behind(d \o u) = u
<1> DEFINE s == d \o u
           n == Len(d)
<1>1. n \in Nat /\ Len(u) \in Nat /\ u \in Seq(Chars) /\ d \in Seq(Chars)
    BY DEF Chars
<1>2. /\ s \in Seq(Chars)
      /\ Len(s) = n + Len(u)
      /\ \A i \in 1..(n + Len(u)) : s[i] = IF i <= n THEN d[i] ELSE u[i - n]
    BY <1>1, ConcatProperties
<1>3. NumberLen(s) = n
    BY NumberLenOf
<1>4. d \o <<>> = d /\ <<>> \in Seq(Chars)
    BY <1>1, ConcatEmptySeq
<1>5. NumberLen(d) = n
    BY <1>4, NumberLenOf
<1> HIDE DEF s
<1>6. \A k \in 1..n : s[k] = d[k] /\ d[k] \in 0..9
    BY <1>1, <1>2
<1> HIDE DEF n
<1>7. Digits(s, n) /\ Digits(d, n)
    BY <1>6 DEF Digits
<1>8. PICK f \in [0..n -> Nat] : f[0] = 0 /\ (\A i \in 1..n : f[i] = 10 * f[i - 1] + s[i]) /\ Number(s) = f[n]
    BY <1>1, <1>3, <1>7, NumberByDigits
<1>9. PICK g \in [0..n -> Nat] : g[0] = 0 /\ (\A i \in 1..n : g[i] = 10 * g[i - 1] + d[i]) /\ Number(d) = g[n]
    BY <1>1, <1>5, <1>7, NumberByDigits
<1>10. f[n] = g[n]
    <2> DEFINE Bad == {i \in 0..n : f[i] # g[i]}
    <2>1. ASSUME NEW i \in Bad, \A k \in Bad : i <= k
          PROVE  FALSE
        <3>1. i # 0
            BY <1>8, <1>9
        <3>2. i \in 1..n /\ i - 1 \in 0..n /\ i - 1 \notin Bad
            BY <1>1, <2>1, <3>1
        <3>3. f[i] = 10 * f[i - 1] + s[i] /\ g[i] = 10 * g[i - 1] + d[i]
            BY <1>8, <1>9, <3>2
        <3>4. f[i - 1] = g[i - 1] /\ s[i] = d[i]
            BY <1>6, <3>2
        <3>5. QED
            BY <3>3, <3>4
    <2>2. Bad \subseteq Nat
        BY <1>1
    <2>3. Bad = {}
        <3> HIDE DEF Bad
        <3>1. QED
            BY <2>1, <2>2, LeastNumber
    <2>4. \A i \in 0..n : f[i] = g[i]
        BY <2>3
    <2>5. n \in 0..n
        BY <1>1
    <2>6. QED
        BY <2>4, <2>5
<1>11. Behind(s) = u
    <2> DEFINE b == SubSeq(s, n + 1, Len(s))
    <2>1. b \in Seq(Chars) /\ Len(b) = Len(u) /\ \A i \in 1..Len(u) : b[i] = s[n + i]
        <3> DEFINE from == n + 1
        <3>2. from \in Int /\ Len(s) \in Int /\ \A i \in from..Len(s) : s[i] \in Chars
            BY <1>1, <1>2
        <3> HIDE DEF from
        <3>3. /\ SubSeq(s, from, Len(s)) \in Seq(Chars)
              /\ Len(SubSeq(s, from, Len(s))) = IF from <= Len(s) THEN Len(s) - from + 1 ELSE 0
              /\ \A i \in 1..(Len(s) - from + 1) : SubSeq(s, from, Len(s))[i] = s[from + i - 1]
            BY <3>2, SubSeqProperties
        <3>4. b = SubSeq(s, from, Len(s))
            BY DEF from
        <3>5. Len(s) - from + 1 = Len(u) /\ (from <= Len(s) <=> Len(u) # 0)
              /\ \A i \in 1..Len(u) : from + i - 1 = n + i
            BY <1>1, <1>2 DEF from
        <3> HIDE DEF b
        <3>6. Len(b) = Len(u) /\ \A i \in 1..Len(u) : b[i] = s[from + i - 1]
            BY <1>1, <3>3, <3>4, <3>5
        <3>7. QED
            BY <3>3, <3>4, <3>5, <3>6
    <2>2. \A i \in 1..Len(u) : s[n + i] = u[i]
        <3> SUFFICES ASSUME NEW i \in 1..Len(u)
                     PROVE  s[n + i] = u[i]
            OBVIOUS
        <3> DEFINE k == n + i
        <3>1. k \in 1..(n + Len(u)) /\ ~ (k <= n) /\ k - n = i
            BY <1>1
        <3> HIDE DEF k
        <3>2. s[k] = u[i]
            BY <1>2, <3>1
        <3>3. QED
            BY <3>2 DEF k
    <2> HIDE DEF b
    <2>3. \A i \in 1..Len(u) : b[i] = u[i]
        BY <2>1, <2>2
    <2>4. b = u
        BY <1>1, <2>1, <2>3, SeqEqual
    <2>5. QED
        BY <1>3, <2>4 DEF Behind, b
<1>12. QED
    BY <1>8, <1>9, <1>10, <1>11 DEF s

-----------------------------------------------------------------------------
(* Lemmas about sequences. *)

\* A sequence is the front of every sequence it begins.
LEMMA FrontOfConcat ==
    ASSUME NEW S, NEW s \in Seq(S), NEW t \in Seq(S), NEW u, u = s \o t
    PROVE  IsPrefix(s, u)
<1>1. u \in Seq(S) /\ Len(u) = Len(s) + Len(t)
      /\ \A i \in 1..(Len(s) + Len(t)) : u[i] = IF i <= Len(s) THEN s[i] ELSE t[i - Len(s)]
    BY ConcatProperties
<1>2. Len(s) \in Nat /\ Len(t) \in Nat
    OBVIOUS
<1> DEFINE front == SubSeq(u, 1, Len(s))
<1>3. \A i \in 1..Len(s) : u[i] \in S /\ u[i] = s[i]
    BY <1>1, <1>2
<1>4. front \in Seq(S) /\ Len(front) = Len(s) /\ \A i \in 1..Len(s) : front[i] = u[i]
    BY <1>1, <1>2
<1>5. front = s
    BY <1>3, <1>4, SeqEqual
<1>6. SubSeq(s, 1, Len(s)) = s
    BY SubSeqFull
<1>7. QED
    BY <1>1, <1>2, <1>5, <1>6 DEF IsPrefix

\* The same, for the sequence itself.
LEMMA FrontOfItself ==
    ASSUME NEW S, NEW s \in Seq(S)
    PROVE  IsPrefix(s, s)
BY DEF IsPrefix

\* Its first element and the others.
LEMMA HeadAndTail ==
    ASSUME NEW S, NEW s \in Seq(S), s # <<>>
    PROVE  /\ Head(s) \in S /\ Tail(s) \in Seq(S) /\ <<Head(s)>> \in Seq(S)
           /\ s = <<Head(s)>> \o Tail(s)
<1>1. Len(s) \in Nat \ {0} /\ s[1] \in S
    BY EmptySeq
<1>2. SubSeq(s, 1, Len(s)) = <<s[1]>> \o SubSeq(s, 2, Len(s))
    <2>1. 1 \in 1..Len(s) /\ Len(s) \in 1..Len(s)
        BY <1>1
    <2>2. SubSeq(s, 1, Len(s)) = <<s[1]>> \o SubSeq(s, 1 + 1, Len(s))
        BY <2>1, SubSeqRecursiveFirst
    <2>3. QED
        BY <2>2
<1>3. Tail(s) = SubSeq(s, 2, Len(s))
    BY TailIsSubSeq
<1>4. SubSeq(s, 1, Len(s)) = s
    BY SubSeqFull
<1>5. Head(s) = s[1]
    OBVIOUS
<1>6. Tail(s) \in Seq(S)
    BY HeadTailProperties
<1>7. <<s[1]>> \in Seq(S)
    BY <1>1
<1>8. s = <<Head(s)>> \o Tail(s)
    BY <1>2, <1>3, <1>4, <1>5
<1>9. QED
    BY <1>1, <1>5, <1>6, <1>7, <1>8

\* The first n elements and the others.
LEMMA CutAt ==
    ASSUME NEW S, NEW s \in Seq(S), NEW n \in 1..Len(s)
    PROVE  /\ SubSeq(s, 1, n) \in Seq(S) /\ SubSeq(s, n + 1, Len(s)) \in Seq(S)
           /\ Len(SubSeq(s, 1, n)) = n
           /\ SubSeq(s, 1, n) \o SubSeq(s, n + 1, Len(s)) = s
<1>1. Len(s) \in Nat /\ \A i \in 1..Len(s) : s[i] \in S
    OBVIOUS
<1>2. SubSeq(s, 1, n) \in Seq(S) /\ Len(SubSeq(s, 1, n)) = n
    BY <1>1
<1>3. SubSeq(s, n + 1, Len(s)) \in Seq(S)
    BY <1>1
<1>4. 1 \in 1..(Len(s) + 1) /\ n \in (1 - 1)..Len(s) /\ Len(s) \in n..Len(s)
    BY <1>1
<1>5. SubSeq(s, 1, n) \o SubSeq(s, n + 1, Len(s)) = SubSeq(s, 1, Len(s))
    BY <1>4, ConcatAdjacentSubSeq
<1>6. QED
    BY <1>2, <1>3, <1>5, SubSeqFull

\* What is in front of a text: its first element and the others.
LEMMA Fronted ==
    ASSUME NEW c \in Chars, NEW t \in Seq(Chars)
    PROVE  /\ <<c>> \o t \in Seq(Chars) /\ <<c>> \o t # <<>>
           /\ Head(<<c>> \o t) = c /\ (<<c>> \o t)[1] = c
           /\ Tail(<<c>> \o t) = t
<1> DEFINE s == <<c>> \o t
<1>1. Len(t) \in Nat /\ <<c>> \in Seq(Chars)
    OBVIOUS
<1>2. s \in Seq(Chars) /\ Len(s) = 1 + Len(t)
      /\ \A i \in 1..(1 + Len(t)) : s[i] = IF i <= 1 THEN c ELSE t[i - 1]
    BY <1>1, ConcatProperties
<1> HIDE DEF s
<1>3. s # <<>> /\ s[1] = c
    <2>1. 1 \in 1..(1 + Len(t)) /\ Len(s) # 0
        BY <1>1, <1>2
    <2>2. QED
        BY <1>2, <2>1
<1>4. Head(s) = c
    BY <1>2, <1>3
<1>5. Tail(s) = t
    <2>1. Tail(s) \in Seq(Chars) /\ Len(Tail(s)) = Len(s) - 1 /\ \A i \in 1..(Len(s) - 1) : Tail(s)[i] = s[i + 1]
        BY <1>2, <1>3, HeadTailProperties
    <2>2. \A i \in 1..Len(t) : i + 1 \in 1..(1 + Len(t)) /\ ~ (i + 1 <= 1) /\ i + 1 - 1 = i
        BY <1>1
    <2>3. Len(s) - 1 = Len(t)
        BY <1>1, <1>2
    <2>4. \A i \in 1..Len(t) : s[i + 1] = t[i]
        <3> SUFFICES ASSUME NEW i \in 1..Len(t)
                     PROVE  s[i + 1] = t[i]
            OBVIOUS
        <3> DEFINE k == i + 1
        <3>1. k \in 1..(1 + Len(t)) /\ ~ (k <= 1) /\ k - 1 = i
            BY <2>2
        <3> HIDE DEF k
        <3>2. s[k] = t[i]
            BY <1>2, <3>1
        <3>3. QED
            BY <3>2 DEF k
    <2>5. \A i \in 1..Len(t) : Tail(s)[i] = t[i]
        BY <2>1, <2>3, <2>4
    <2> DEFINE u == Tail(s)
    <2>6. u \in Seq(Chars) /\ Len(u) = Len(t) /\ \A i \in 1..Len(t) : u[i] = t[i]
        BY <2>1, <2>3, <2>5
    <2> HIDE DEF u
    <2>7. u = t
        BY <1>1, <2>6, SeqEqual
    <2>8. QED
        BY <2>7 DEF u
<1>6. QED
    BY <1>2, <1>3, <1>4, <1>5 DEF s

\* How three sequences are grouped makes no difference.
LEMMA Regrouped ==
    \A s, t, u \in Seq(Chars) : (s \o t) \o u = s \o (t \o u)
BY ConcatAssociative

-----------------------------------------------------------------------------
(* The text of a list. *)

\* The runs of a set of online CPUs.
LEMMA RunsOf ==
    ASSUME NEW S \in Onlines
    PROVE  /\ Len(OnlineRuns[S]) \in Nat /\ DOMAIN OnlineRuns[S] = 1..Len(OnlineRuns[S])
           /\ \A k \in 1..Len(OnlineRuns[S]) :
                 /\ OnlineRuns[S][k].first \in Cpus /\ OnlineRuns[S][k].last \in Cpus
                 /\ OnlineRuns[S][k].first <= OnlineRuns[S][k].last
           /\ \A j, k \in 1..Len(OnlineRuns[S]) : \A c \in Nat :
                 /\ OnlineRuns[S][j].first <= c /\ c <= OnlineRuns[S][j].last
                 /\ OnlineRuns[S][k].first <= c /\ c <= OnlineRuns[S][k].last
                 => j = k
           /\ \A c \in Nat : c \in S <=> \E k \in 1..Len(OnlineRuns[S]) :
                 OnlineRuns[S][k].first <= c /\ c <= OnlineRuns[S][k].last
<1> DEFINE runs == OnlineRuns[S]
<1>1. /\ runs \in Seq([first : Cpus, last : Cpus])
      /\ \A k \in DOMAIN runs : runs[k].first <= runs[k].last
      /\ S = UNION {runs[k].first..runs[k].last : k \in DOMAIN runs}
      /\ \A j, k \in DOMAIN runs : j # k =>
            runs[j].first..runs[j].last \cap runs[k].first..runs[k].last = {}
    BY RunsAssumption
<1> HIDE DEF runs
<1>2. Len(runs) \in Nat /\ DOMAIN runs = 1..Len(runs)
    BY <1>1
<1>3. \A k \in 1..Len(runs) : runs[k] \in [first : Cpus, last : Cpus]
    BY <1>1, ElementOfSeq
<1>4. \A k \in 1..Len(runs) : runs[k].first \in Cpus /\ runs[k].last \in Cpus /\ runs[k].first <= runs[k].last
    BY <1>1, <1>2, <1>3
<1>5. \A k \in 1..Len(runs) : \A c \in Nat :
         c \in runs[k].first..runs[k].last <=> runs[k].first <= c /\ c <= runs[k].last
    <2>1. \A a, b, c \in Nat : c \in a..b <=> a <= c /\ c <= b
        OBVIOUS
    <2>2. \A k \in 1..Len(runs) : runs[k].first \in Nat /\ runs[k].last \in Nat
        BY <1>4, CpusAssumption
    <2>3. QED
        BY <2>1, <2>2
<1>6. ASSUME NEW j \in 1..Len(runs), NEW k \in 1..Len(runs), NEW c \in Nat,
             runs[j].first <= c /\ c <= runs[j].last, runs[k].first <= c /\ c <= runs[k].last
      PROVE  j = k
    <2>1. c \in runs[j].first..runs[j].last /\ c \in runs[k].first..runs[k].last
        BY <1>5, <1>6
    <2>2. QED
        BY <1>1, <1>2, <2>1
<1>7. ASSUME NEW c \in Nat
      PROVE  c \in S <=> \E k \in 1..Len(runs) : runs[k].first <= c /\ c <= runs[k].last
    <2> DEFINE U == {runs[k].first..runs[k].last : k \in DOMAIN runs}
    <2>1. c \in UNION U <=> \E I \in U : c \in I
        BY Zenon
    <2>2. (\E I \in U : c \in I) <=> \E k \in 1..Len(runs) : c \in runs[k].first..runs[k].last
        BY <1>2, Zenon
    <2> HIDE DEF U
    <2>3. S = UNION U
        BY <1>1 DEF U
    <2>4. QED
        BY <1>5, <2>1, <2>2, <2>3
<1>8. QED
    BY <1>2, <1>4, <1>6, <1>7 DEF runs

\* The last run but n - 1, and what is behind its text.
Sep(n) == IF n = 1 THEN Newline ELSE Comma
Run(S, n) == OnlineRuns[S][Len(OnlineRuns[S]) - n + 1]

\* The texts that are put together.
LEMMA PiecesAreTexts ==
    ASSUME NEW S \in Onlines, NEW n \in 1..Len(OnlineRuns[S])
    PROVE  /\ Run(S, n).first \in Cpus /\ Run(S, n).last \in Cpus
           /\ Decimal[Run(S, n).first] \in Seq(Chars) /\ Decimal[Run(S, n).last] \in Seq(Chars)
           /\ <<Dash>> \in Seq(Chars) /\ <<Sep(n)>> \in Seq(Chars)
           /\ RunText(Run(S, n)) \in Seq(Chars)
<1>1. Len(OnlineRuns[S]) - n + 1 \in 1..Len(OnlineRuns[S])
    BY RunsOf
<1>2. Run(S, n).first \in Cpus /\ Run(S, n).last \in Cpus
    BY <1>1, RunsOf DEF Run
<1>3. \A c \in Cpus : Decimal[c] \in Seq(Chars)
    BY DecimalAssumption DEF Chars
<1>4. <<Dash>> \in Seq(Chars) /\ <<Sep(n)>> \in Seq(Chars)
    <2>1. Dash \in Chars /\ Sep(n) \in Chars
        BY DEF Chars, Sep
    <2>2. QED
        BY <2>1
<1>5. RunText(Run(S, n)) \in Seq(Chars)
    BY <1>2, <1>3, <1>4, ConcatProperties DEF RunText
<1>6. QED
    BY <1>2, <1>3, <1>4, <1>5

LEMMA LastOnesAreTexts ==
    ASSUME NEW S \in Onlines
    PROVE  /\ LastOnes(S) \in [0..Len(OnlineRuns[S]) -> Seq(Chars)]
           /\ LastOnes(S)[0] = <<>>
           /\ \A n \in 1..Len(OnlineRuns[S]) :
                 LastOnes(S)[n] = RunText(Run(S, n)) \o (<<Sep(n)>> \o LastOnes(S)[n - 1])
           /\ OnlineText(S) = LastOnes(S)[Len(OnlineRuns[S])]
<1> DEFINE L == Len(OnlineRuns[S])
           Piece(n, t) == RunText(Run(S, n)) \o (<<Sep(n)>> \o t)
           Good(m, f) == f = [n \in 0..m |-> IF n = 0 THEN <<>> ELSE Piece(n, f[n - 1])]
           Bad == {m \in 0..L : ~ \E f \in [0..m -> Seq(Chars)] : Good(m, f)}
<1>1. L \in Nat
    BY RunsOf
<1>2. \A n \in 1..L : \A t \in Seq(Chars) : Piece(n, t) \in Seq(Chars)
    BY PiecesAreTexts, ConcatProperties
<1>3. <<>> \in Seq(Chars)
    OBVIOUS
<1> HIDE DEF L, Piece
<1>4. ASSUME NEW m \in Bad, \A k \in Bad : m <= k
      PROVE  FALSE
    <2>1. CASE m = 0
        <3> DEFINE f == [n \in 0..0 |-> <<>>]
        <3>1. f \in [0..0 -> Seq(Chars)] /\ Good(0, f)
            BY <1>3
        <3>2. QED
            BY <1>4, <2>1, <3>1
    <2>2. CASE m # 0
        <3>1. m \in 0..L
            OBVIOUS
        <3>2. m \in 1..L /\ m - 1 \in 0..L /\ ~ (m <= m - 1)
            BY <1>1, <2>2, <3>1
        <3>3. m - 1 \notin Bad
            BY <1>4, <3>2
        <3>4. PICK f \in [0..(m - 1) -> Seq(Chars)] : Good(m - 1, f)
            BY <3>2, <3>3
        <3> DEFINE g == [n \in 0..m |-> IF n = m THEN Piece(m, f[m - 1]) ELSE f[n]]
        <3>5. Piece(m, f[m - 1]) \in Seq(Chars)
            <4>1. m - 1 \in 0..(m - 1)
                BY <3>2
            <4>2. QED
                BY <1>2, <3>2, <3>4, <4>1
        <3>6. \A n \in 0..m : n # m => n \in 0..(m - 1)
            BY <3>2
        <3>7. g \in [0..m -> Seq(Chars)]
            BY <3>4, <3>5, <3>6
        <3>8. \A n \in 0..(m - 1) : f[n] = IF n = 0 THEN <<>> ELSE Piece(n, f[n - 1])
            BY <3>4
        <3>9. \A n \in 0..m : n # 0 => n - 1 \in 0..(m - 1) /\ n - 1 \in 0..m /\ n - 1 # m
            BY <3>2
        <3>10. \A n \in 0..m : g[n] = IF n = 0 THEN <<>> ELSE Piece(n, g[n - 1])
            BY <2>2, <3>6, <3>8, <3>9
        <3> HIDE DEF g
        <3>11. Good(m, g)
            BY <3>7, <3>10
        <3>12. QED
            BY <1>4, <3>7, <3>11
    <2>3. QED
        BY <2>1, <2>2
<1>5. Bad = {}
    <2>1. Bad \subseteq Nat
        BY <1>1
    <2> HIDE DEF Bad
    <2>2. QED
        BY <1>4, <2>1, LeastNumber
<1>6. \E f \in [0..L -> Seq(Chars)] : Good(L, f)
    <2>1. L \in 0..L
        BY <1>1
    <2>2. QED
        BY <1>5, <2>1
<1> DEFINE f == LastOnes(S)
<1>7. f = CHOOSE t : Good(L, t)
    BY DEF LastOnes, L, Piece, Run, Sep
<1> HIDE DEF f
<1>8. Good(L, f)
    BY <1>6, <1>7
<1>9. f[0] = <<>> /\ \A n \in 1..L : f[n] = Piece(n, f[n - 1])
    BY <1>1, <1>8
<1>10. \A n \in 0..L : f[n] \in Seq(Chars)
    <2> DEFINE Odd == {n \in 0..L : f[n] \notin Seq(Chars)}
    <2>1. ASSUME NEW n \in Odd, \A k \in Odd : n <= k
          PROVE  FALSE
        <3>1. n # 0
            BY <1>3, <1>9
        <3>2. n \in 1..L /\ n - 1 \in 0..L /\ n - 1 \notin Odd
            BY <1>1, <2>1, <3>1
        <3>3. f[n] = Piece(n, f[n - 1]) /\ f[n - 1] \in Seq(Chars)
            BY <1>9, <3>2
        <3>4. QED
            BY <1>2, <3>2, <3>3
    <2>2. Odd \subseteq Nat
        BY <1>1
    <2>3. Odd = {}
        <3> HIDE DEF Odd
        <3>1. QED
            BY <2>1, <2>2, LeastNumber
    <2>4. QED
        BY <2>3
<1>11. f \in [0..L -> Seq(Chars)]
    BY <1>8, <1>10
<1>12. OnlineText(S) = f[L]
    BY DEF OnlineText, f, L
<1>13. QED
    BY <1>9, <1>11, <1>12 DEF f, L, Piece

\* The text of a CPU number in front of something that is no digit.
LEMMA NumberRead ==
    ASSUME NEW c \in Cpus, NEW x \in Chars \ (0..9), NEW t \in Seq(Chars)
    PROVE  LET s == Decimal[c] \o (<<x>> \o t)
           IN  s \in Seq(Chars) /\ StartsWithDigit(s) /\ Number(s) = c /\ Behind(s) = <<x>> \o t
<1> DEFINE u == <<x>> \o t
           d == Decimal[c]
           s == d \o u
<1>1. u \in Seq(Chars) /\ u[1] \notin 0..9
    BY Fronted
<1>2. d \in Seq(0..9) /\ d # <<>> /\ Number(d) = c /\ d \in Seq(Chars)
    BY DecimalAssumption DEF Chars
<1> HIDE DEF u, d
<1>3. Number(s) = c /\ Behind(s) = u
    BY <1>1, <1>2, NumberInFront
<1>4. s \in Seq(Chars) /\ s # <<>> /\ s[1] \in 0..9
    <2>1. /\ s \in Seq(Chars)
          /\ Len(s) = Len(d) + Len(u)
          /\ \A i \in 1..(Len(d) + Len(u)) : s[i] = IF i <= Len(d) THEN d[i] ELSE u[i - Len(d)]
        BY <1>1, <1>2, ConcatProperties
    <2>2. Len(d) \in Nat \ {0} /\ Len(u) \in Nat /\ d[1] \in 0..9
        BY <1>1, <1>2, EmptySeq
    <2> HIDE DEF s
    <2>3. 1 \in 1..(Len(d) + Len(u)) /\ 1 <= Len(d) /\ Len(s) # 0
        BY <2>1, <2>2
    <2>4. s[1] = d[1]
        BY <2>1, <2>3
    <2>5. QED
        BY <2>1, <2>2, <2>3, <2>4
<1>5. StartsWithDigit(s)
    <2> HIDE DEF s
    <2>1. Head(s) = s[1]
        BY <1>4
    <2>2. QED
        BY <1>4, <2>1 DEF StartsWithDigit
<1>6. QED
    BY <1>3, <1>4, <1>5 DEF u, d

\* Where the second number of a term begins, or the only one.
LastNumber(s) == IF Behind(s) # <<>> /\ Head(Behind(s)) = Dash THEN Tail(Behind(s)) ELSE s

\* The parser takes a term for the run it was written for.
LEMMA TermRead ==
    ASSUME NEW S \in Onlines, NEW n \in 1..Len(OnlineRuns[S])
    PROVE  /\ StartsWithDigit(LastOnes(S)[n])
           /\ Number(LastOnes(S)[n]) = Run(S, n).first
           /\ Number(LastNumber(LastOnes(S)[n])) = Run(S, n).last
           /\ Behind(LastNumber(LastOnes(S)[n])) = <<Sep(n)>> \o LastOnes(S)[n - 1]
<1> DEFINE s == LastOnes(S)[n]
           t == LastOnes(S)[n - 1]
           u == <<Sep(n)>> \o t
           a == Run(S, n).first
           b == Run(S, n).last
<1>1. s = RunText(Run(S, n)) \o u /\ t \in Seq(Chars)
    <2>1. n - 1 \in 0..Len(OnlineRuns[S])
        BY RunsOf
    <2>2. QED
        BY <2>1, LastOnesAreTexts
<1>2. a \in Cpus /\ b \in Cpus /\ Decimal[a] \in Seq(Chars) /\ Decimal[b] \in Seq(Chars)
      /\ <<Dash>> \in Seq(Chars)
    BY PiecesAreTexts
<1>3. Sep(n) \in Chars \ (0..9) /\ Dash \in Chars \ (0..9) /\ Sep(n) # Dash
    BY SeparatorsAssumption DEF Sep, Chars
<1>4. RunText(Run(S, n)) = IF a = b THEN Decimal[a] ELSE Decimal[a] \o (<<Dash>> \o Decimal[b])
    BY DEF RunText
<1> HIDE DEF s, t, a, b
<1>5. u \in Seq(Chars) /\ u # <<>> /\ Head(u) = Sep(n)
    BY <1>1, <1>3, Fronted
<1>6. CASE a = b
    <2>1. s = Decimal[a] \o u
        BY <1>1, <1>4, <1>6
    <2> DEFINE v == Decimal[a] \o u
    <2>2. StartsWithDigit(v) /\ Number(v) = a /\ Behind(v) = u
        BY <1>1, <1>2, <1>3, NumberRead
    <2> HIDE DEF u, v
    <2>3. StartsWithDigit(s) /\ Number(s) = a /\ Behind(s) = u
        BY <2>1, <2>2 DEF v
    <2>4. LastNumber(s) = s
        BY <1>3, <1>5, <2>3 DEF LastNumber
    <2>5. QED
        BY <1>6, <2>3, <2>4 DEF s, t, u, a, b
<1>7. CASE a # b
    <2> DEFINE v == Decimal[b] \o u
    <2>1. StartsWithDigit(v) /\ Number(v) = b /\ Behind(v) = u /\ v \in Seq(Chars)
        BY <1>1, <1>2, <1>3, NumberRead
    <2>2. s = Decimal[a] \o (<<Dash>> \o v)
        <3> HIDE DEF u
        <3>1. s = (Decimal[a] \o (<<Dash>> \o Decimal[b])) \o u
            BY <1>1, <1>4, <1>7
        <3>2. <<Dash>> \o Decimal[b] \in Seq(Chars)
            BY <1>2, ConcatProperties
        <3>3. s = Decimal[a] \o ((<<Dash>> \o Decimal[b]) \o u)
            BY <1>2, <1>5, <3>1, <3>2, Regrouped
        <3>4. (<<Dash>> \o Decimal[b]) \o u = <<Dash>> \o (Decimal[b] \o u)
            BY <1>2, <1>5, Regrouped
        <3>5. QED
            BY <3>3, <3>4
    <2> HIDE DEF v
    <2>3. StartsWithDigit(s) /\ Number(s) = a /\ Behind(s) = <<Dash>> \o v
        BY <1>2, <1>3, <2>1, <2>2, NumberRead
    <2>4. <<Dash>> \o v # <<>> /\ Head(<<Dash>> \o v) = Dash /\ Tail(<<Dash>> \o v) = v
        BY <1>3, <2>1, Fronted
    <2>5. LastNumber(s) = v
        BY <2>3, <2>4 DEF LastNumber
    <2>6. QED
        BY <2>1, <2>3, <2>5 DEF s, t, u, a, b
<1>8. QED
    BY <1>6, <1>7

-----------------------------------------------------------------------------
(* The reader. *)

IoInv ==
    /\ file \in Seq(Chars) /\ rest \in Seq(Chars) /\ ioBuf \in Seq(Chars)
    /\ buf \in Seq(Chars) /\ line \in Seq(Chars)
    /\ text \in Seq(Chars) \cup {NoText}
    /\ IoTypeOK
    /\ NothingLost
    /\ ioPc = "closed" => ioBuf = <<>> /\ buf = <<>> /\ line = <<>>
    /\ ioPc \in {"closed", "char", "last"} => text = NoText
    /\ ioPc = "last" => ioBuf = <<>> /\ (faults = 0 => rest = <<>>)

LEMMA FailsStep ==
    ASSUME faults \in 0..MaxFaults, UNCHANGED faults \/ Fails
    PROVE  faults' \in 0..MaxFaults /\ (faults' = 0 => faults = 0)
BY FaultsAssumption DEF Fails

LEMMA OpenKeeps ==
    ASSUME IoInv, NEW content \in Seq(Chars), Open(content)
    PROVE  IoInv'
<1>1. <<>> \in Seq(Chars) /\ <<>> \o <<>> = <<>> /\ <<>> \o content = content
    BY EmptySeq, ConcatEmptySeq
<1>2. line' \o buf' \o ioBuf' \o rest' = file'
    BY <1>1 DEF Open, IoInv
<1>3. QED
    BY <1>2 DEF Open, IoInv, IoTypeOK, NothingLost

LEMMA FillBufferKeeps ==
    ASSUME IoInv, FillBuffer
    PROVE  IoInv'
<1> DEFINE x == line \o buf
<1>1. PICK n \in 1..Len(rest) : /\ n <= BufLen
                                /\ ioBuf' = SubSeq(rest, 1, n)
                                /\ rest' = SubSeq(rest, n + 1, Len(rest))
    BY DEF FillBuffer
<1>2. rest \in Seq(Chars) /\ x \in Seq(Chars) /\ <<>> \in Seq(Chars)
    BY ConcatProperties, EmptySeq DEF IoInv
<1>3. ioBuf' \in Seq(Chars) /\ rest' \in Seq(Chars) /\ Len(ioBuf') = n /\ ioBuf' \o rest' = rest
    BY <1>1, <1>2, CutAt
<1> HIDE DEF x
<1>4. x \o ioBuf' \o rest' = file
    <2>1. (x \o ioBuf') \o rest' = x \o (ioBuf' \o rest')
        <3>1. x \in Seq(Chars) /\ ioBuf' \in Seq(Chars) /\ rest' \in Seq(Chars)
            BY <1>2, <1>3
        <3>2. QED
            BY <3>1, Regrouped
    <2>2. ioBuf = <<>> /\ x \o ioBuf \o rest = file
        BY DEF FillBuffer, IoInv, NothingLost, x
    <2>3. x \o <<>> = x
        BY <1>2, ConcatEmptySeq
    <2>4. QED
        BY <1>3, <2>1, <2>2, <2>3
<1>5. UNCHANGED <<file, buf, line, text, ioPc, faults>> /\ ioPc = "char"
    BY DEF FillBuffer
<1>6. line' \o buf' \o ioBuf' \o rest' = file'
    BY <1>4, <1>5 DEF x
<1>7. QED
    BY <1>1, <1>3, <1>5, <1>6 DEF IoInv, IoTypeOK, NothingLost

LEMMA TakeCharKeeps ==
    ASSUME IoInv, TakeChar
    PROVE  IoInv'
<1> DEFINE x == line \o buf
           c == Head(ioBuf)
<1>1. ioBuf \in Seq(Chars) /\ buf \in Seq(Chars) /\ line \in Seq(Chars) /\ rest \in Seq(Chars)
      /\ x \in Seq(Chars)
    BY ConcatProperties DEF IoInv
<1>2. c \in Chars /\ Tail(ioBuf) \in Seq(Chars) /\ <<c>> \in Seq(Chars) /\ ioBuf = <<c>> \o Tail(ioBuf)
      /\ Len(Tail(ioBuf)) = Len(ioBuf) - 1 /\ Len(ioBuf) \in Nat
    BY <1>1, HeadAndTail, HeadTailProperties DEF TakeChar
<1>3. /\ ioBuf' = Tail(ioBuf) /\ ioPc = "char"
      /\ UNCHANGED <<file, rest, text, ioPc, faults>>
    BY DEF TakeChar
<1>4. line' \in Seq(Chars) /\ buf' \in Seq(Chars) /\ Len(buf') <= ChunkLen /\ line' \o buf' = x \o <<c>>
    <2>1. CASE Len(buf) = ChunkLen
        <3>1. line' = x /\ buf' = <<c>>
            BY <2>1 DEF TakeChar
        <3>2. Len(buf') = 1
            BY <3>1
        <3>3. QED
            BY <1>1, <1>2, <3>1, <3>2, BuffersAssumption
    <2>2. CASE Len(buf) # ChunkLen
        <3>1. line' = line /\ buf' = Append(buf, c)
            BY <2>2 DEF TakeChar
        <3>2. buf' \in Seq(Chars) /\ Len(buf') = Len(buf) + 1
            BY <1>1, <1>2, <3>1, AppendProperties
        <3>3. Len(buf) \in Nat /\ Len(buf) <= ChunkLen
            BY <1>1 DEF IoInv, IoTypeOK
        <3>4. Len(buf') <= ChunkLen
            BY <2>2, <3>2, <3>3, BuffersAssumption
        <3>5. buf' = buf \o <<c>>
            BY <1>1, <1>2, <3>1, AppendIsConcat
        <3>6. line \o (buf \o <<c>>) = x \o <<c>>
            BY <1>1, <1>2, ConcatAssociative
        <3>7. QED
            BY <1>1, <3>1, <3>2, <3>4, <3>5, <3>6
    <2>3. QED
        BY <2>1, <2>2
<1>5. Len(ioBuf') <= BufLen
    BY <1>2, <1>3, BuffersAssumption DEF IoInv, IoTypeOK
<1> HIDE DEF x, c
<1>6. line' \o buf' \o ioBuf' \o rest' = file'
    <2>1. (x \o <<c>>) \o Tail(ioBuf) = x \o (<<c>> \o Tail(ioBuf))
        <3>1. x \in Seq(Chars) /\ <<c>> \in Seq(Chars) /\ Tail(ioBuf) \in Seq(Chars)
            BY <1>1, <1>2
        <3>2. QED
            BY <3>1, Regrouped
    <2>2. x \o ioBuf \o rest = file
        BY <1>3 DEF IoInv, NothingLost, x
    <2>3. QED
        BY <1>2, <1>3, <1>4, <2>1, <2>2
<1>7. QED
    BY <1>2, <1>3, <1>4, <1>5, <1>6 DEF IoInv, IoTypeOK, NothingLost

LEMMA EndOfInputKeeps ==
    ASSUME IoInv, EndOfInput
    PROVE  IoInv'
<1>1. UNCHANGED <<file, rest, ioBuf, buf, line, text>> /\ ioPc = "char" /\ ioPc' = "last" /\ ioBuf = <<>>
    BY DEF EndOfInput
<1>2. faults \in 0..MaxFaults /\ faults' \in 0..MaxFaults /\ (faults' = 0 => faults = 0)
    BY FailsStep DEF IoInv, IoTypeOK, EndOfInput
<1>3. faults' = 0 => rest = <<>>
    BY <1>2 DEF EndOfInput, Fails
<1>4. QED
    BY <1>1, <1>2, <1>3 DEF IoInv, IoTypeOK, NothingLost

LEMMA HandOverKeeps ==
    ASSUME IoInv, HandOver
    PROVE  IoInv'
<1> DEFINE x == line \o buf
<1>1. UNCHANGED <<file, rest, ioBuf, buf, line, faults>> /\ ioPc = "last" /\ ioPc' = "done" /\ text' = x
    BY DEF HandOver
<1>2. x \in Seq(Chars) /\ rest \in Seq(Chars) /\ file \in Seq(Chars)
    BY ConcatProperties DEF IoInv
<1>3. x \o rest = file /\ (faults = 0 => x = file)
    <2>1. ioBuf = <<>> /\ x \o ioBuf \o rest = file /\ (faults = 0 => rest = <<>>)
        BY <1>1 DEF IoInv, NothingLost
    <2>2. x \o <<>> = x
        BY <1>2, ConcatEmptySeq
    <2> HIDE DEF x
    <2>3. QED
        BY <2>1, <2>2
<1>4. IsPrefix(x, file)
    BY <1>2, <1>3, FrontOfConcat
<1> HIDE DEF x
<1>5. QED
    BY <1>1, <1>2, <1>3, <1>4 DEF IoInv, IoTypeOK, NothingLost

LEMMA GivesUpKeeps ==
    ASSUME IoInv, OpenFails \/ OutOfMemory
    PROVE  IoInv'
<1>1. UNCHANGED <<file, rest, ioBuf, buf, line, text>> /\ ioPc' = "done" /\ text = NoText
    BY DEF OpenFails, OutOfMemory, IoInv
<1>2. faults' \in 0..MaxFaults
    BY FailsStep DEF IoInv, IoTypeOK, OpenFails, OutOfMemory
<1>3. QED
    BY <1>1, <1>2 DEF IoInv, IoTypeOK, NothingLost

LEMMA TextIsThere == \A S \in Onlines : OnlineText(S) \in Seq(Chars)
<1> SUFFICES ASSUME NEW S \in Onlines
             PROVE  OnlineText(S) \in Seq(Chars)
    OBVIOUS
<1>1. Len(OnlineRuns[S]) \in 0..Len(OnlineRuns[S])
    BY RunsOf
<1>2. QED
    BY <1>1, LastOnesAreTexts

LEMMA IoInvStep ==
    ASSUME IoInv, online \in Onlines, [Next]_vars
    PROVE  IoInv'
<1>1. CASE UNCHANGED ioVars /\ (UNCHANGED faults \/ Fails)
    <2>1. faults' \in 0..MaxFaults /\ (faults' = 0 => faults = 0)
        BY <1>1, FailsStep DEF IoInv, IoTypeOK
    <2>2. QED
        BY <1>1, <2>1 DEF ioVars, IoInv, IoTypeOK, NothingLost
<1>2. CASE ReadList
    <2>1. OnlineText(online) \in Seq(Chars)
        BY TextIsThere
    <2>2. QED
        BY <1>2, <2>1, OpenKeeps, FillBufferKeeps, TakeCharKeeps, EndOfInputKeeps, HandOverKeeps, GivesUpKeeps
        DEF ReadList, IoStep
<1>3. CASE ParseList \/ BuildMap
    <2>1. UNCHANGED ioVars
        BY <1>3 DEF ParseList, BuildMap
    <2>2. UNCHANGED faults \/ Fails
        BY <1>3 DEF ParseList, BuildMap, StartParse, MapStep, ParseTerm, AddCpu, Invalid, EndTerm, FinishMap
    <2>3. QED
        BY <1>1, <2>1, <2>2
<1>4. CASE UNCHANGED vars
    BY <1>1, <1>4 DEF vars
<1>5. QED
    BY <1>1, <1>2, <1>3, <1>4
    DEF Next, Hotplug, NoBuffer, AskOne, AskAny, TakeMap, CountCpus, MidrRead, MidrMissing, MidrAborts,
        NoneReadable

-----------------------------------------------------------------------------
(* The parser. *)

HasLength(map) == Len(map) \in Nat

MapInv ==
    /\ list \in Seq(Chars)
    /\ startCpu \in Nat /\ endCpu \in Nat /\ maxEntries \in Nat
    /\ tmpCpus \in Seq(Nat)
    /\ MapTypeOK
    /\ mapPc = "done" /\ cpus # NoMap => HasLength(cpus)

\* The elements of a sequence are finitely many.
LEMMA FinitelyManyElements ==
    ASSUME NEW S, NEW s \in Seq(S)
    PROVE  IsFiniteSet(ToSet(s)) /\ ToSet(s) \subseteq S
<1>1. IsFiniteSet(DOMAIN s) /\ \A i \in DOMAIN s : s[i] \in S
    BY FS_Interval
<1>2. s \in Surjection(DOMAIN s, ToSet(s))
    BY DEF Surjection, ToSet
<1>3. QED
    BY <1>1, <1>2, FS_Surjection DEF ToSet

Increasing(map) == \A i, j \in DOMAIN map : i < j => map[i] < map[j]

\* The sorted numbers of a set are its numbers, in their order.
LEMMA SortedIs ==
    ASSUME NEW S, S \subseteq Nat, IsFiniteSet(S)
    PROVE  ToSet(Sorted(S)) = S /\ Increasing(Sorted(S)) /\ Sorted(S) \in Seq(Nat)
<1> DEFINE n == Cardinality(S)
           Below(c) == {m \in S : m < c}
           rank == [c \in S |-> Cardinality(Below(c))]
           at(i) == CHOOSE c \in S : Cardinality(Below(c)) = i - 1
<1>1. n \in Nat
    BY FS_CardinalityType
<1>2. \A c \in S : IsFiniteSet(Below(c)) /\ Cardinality(Below(c)) \in Nat
    <2> SUFFICES ASSUME NEW c \in S
                 PROVE  IsFiniteSet(Below(c)) /\ Cardinality(Below(c)) \in Nat
        OBVIOUS
    <2>1. Below(c) \subseteq S
        OBVIOUS
    <2> HIDE DEF Below
    <2>2. QED
        BY <2>1, FS_Subset, FS_CardinalityType
\* One more number is below a set that it is not in.
<1>3. ASSUME NEW c \in S, NEW T, IsFiniteSet(T), T \subseteq S, Below(c) \cup {c} \subseteq T
      PROVE  rank[c] < Cardinality(T)
    <2>1. c \notin Below(c)
        OBVIOUS
    <2>2. IsFiniteSet(Below(c)) /\ Cardinality(Below(c)) \in Nat /\ Cardinality(T) \in Nat
        BY <1>2, <1>3, FS_CardinalityType
    <2>3. rank[c] = Cardinality(Below(c))
        OBVIOUS
    <2> HIDE DEF Below, rank
    <2>4. Cardinality(Below(c) \cup {c}) = Cardinality(Below(c)) + 1
        BY <2>1, <2>2, FS_AddElement
    <2>5. Cardinality(Below(c) \cup {c}) <= Cardinality(T)
        BY <1>3, FS_Subset
    <2>6. QED
        BY <2>2, <2>3, <2>4, <2>5
<1>4. \A c \in S : rank[c] \in 0..(n - 1)
    <2> SUFFICES ASSUME NEW c \in S
                 PROVE  rank[c] \in 0..(n - 1)
        OBVIOUS
    <2>1. Below(c) \cup {c} \subseteq S
        OBVIOUS
    <2>2. rank[c] < n
        BY <1>3, <2>1
    <2>3. rank[c] \in Nat
        BY <1>2
    <2> HIDE DEF rank, n
    <2>4. QED
        BY <1>1, <2>2, <2>3
<1>5. \A c, d \in S : c < d => rank[c] < rank[d]
    <2> SUFFICES ASSUME NEW c \in S, NEW d \in S, c < d
                 PROVE  rank[c] < rank[d]
        OBVIOUS
    <2>1. \A m \in S : m < c => m < d
        OBVIOUS
    <2>2. Below(c) \cup {c} \subseteq Below(d) /\ Below(d) \subseteq S
        BY <2>1, Zenon
    <2>3. rank[d] = Cardinality(Below(d)) /\ IsFiniteSet(Below(d))
        BY <1>2
    <2> HIDE DEF Below, rank
    <2>4. QED
        BY <1>3, <2>2, <2>3
<1>6. \A c, d \in S : rank[c] = rank[d] => c = d
    <2> SUFFICES ASSUME NEW c \in S, NEW d \in S, c # d
                 PROVE  rank[c] # rank[d]
        OBVIOUS
    <2>1. c < d \/ d < c
        OBVIOUS
    <2>2. rank[c] \in Int /\ rank[d] \in Int
        BY <1>1, <1>4
    <2> HIDE DEF rank
    <2>3. QED
        BY <1>5, <2>1, <2>2
<1>7. \A k \in 0..(n - 1) : \E c \in S : rank[c] = k
    <2>1. rank \in Injection(S, 0..(n - 1))
        BY <1>4, <1>6 DEF Injection, IsInjective
    <2>2. IsFiniteSet(0..(n - 1)) /\ Cardinality(0..(n - 1)) = n
        <3> HIDE DEF n
        <3>1. 0 \in Int /\ n - 1 \in Int /\ (IF 0 > n - 1 THEN 0 ELSE n - 1 - 0 + 1) = n
            BY <1>1
        <3>2. QED
            BY <3>1, FS_Interval
    <2> HIDE DEF rank
    <2>3. rank \in Surjection(S, 0..(n - 1))
        BY <2>1, <2>2, FS_Injection
    <2>4. QED
        BY <2>3 DEF Surjection
<1>8. Sorted(S) = [i \in 1..n |-> at(i)]
    BY DEF Sorted
<1>9. \A i \in 1..n : at(i) \in S /\ rank[at(i)] = i - 1
    <2> SUFFICES ASSUME NEW i \in 1..n
                 PROVE  at(i) \in S /\ rank[at(i)] = i - 1
        OBVIOUS
    <2>1. i - 1 \in 0..(n - 1)
        BY <1>1
    <2>2. \E c \in S : Cardinality(Below(c)) = i - 1
        BY <1>7, <2>1
    <2>3. at(i) \in S /\ Cardinality(Below(at(i))) = i - 1
        BY <2>2
    <2> HIDE DEF at
    <2>4. QED
        BY <2>3
<1>10. \A c \in S : rank[c] + 1 \in 1..n
    BY <1>1, <1>4
<1> DEFINE map == Sorted(S)
<1> HIDE DEF n, at, rank, Below
<1>11. DOMAIN map = 1..n /\ \A i \in 1..n : map[i] = at(i)
    BY <1>8
<1> HIDE DEF map
<1>12. \A i \in 1..n : map[i] \in S /\ rank[map[i]] = i - 1
    BY <1>9, <1>11
<1>13. ToSet(map) = S
    <2>1. \A c \in S : \E i \in 1..n : map[i] = c
        <3> SUFFICES ASSUME NEW c \in S
                     PROVE  \E i \in 1..n : map[i] = c
            OBVIOUS
        <3>1. rank[c] + 1 \in 1..n /\ rank[c] \in Int
            BY <1>1, <1>4, <1>10
        <3>2. map[rank[c] + 1] \in S /\ rank[map[rank[c] + 1]] = rank[c]
            BY <1>12, <3>1
        <3>3. map[rank[c] + 1] = c
            BY <1>6, <3>2
        <3>4. QED
            BY <3>1, <3>3
    <2>2. QED
        BY <1>11, <1>12, <2>1 DEF ToSet
<1>14. Increasing(map)
    <2> SUFFICES ASSUME NEW i \in 1..n, NEW j \in 1..n, i < j
                 PROVE  map[i] < map[j]
        BY <1>11 DEF Increasing
    <2>1. map[i] \in S /\ map[j] \in S /\ rank[map[i]] < rank[map[j]]
        BY <1>1, <1>12
    <2>2. rank[map[i]] \in Int /\ rank[map[j]] \in Int /\ map[i] \in Nat /\ map[j] \in Nat
        <3>1. rank[map[i]] \in 0..(n - 1) /\ rank[map[j]] \in 0..(n - 1)
            BY <1>4, <2>1
        <3>2. 0..(n - 1) \subseteq Int
            BY <1>1
        <3>3. QED
            BY <2>1, <3>1, <3>2
    <2>3. ~ (map[j] < map[i]) /\ map[i] # map[j]
        BY <1>5, <2>1, <2>2
    <2>4. QED
        BY <2>2, <2>3
<1>15. map \in Seq(Nat)
    <2>1. map = [i \in 1..n |-> at(i)] /\ \A i \in 1..n : at(i) \in Nat
        BY <1>8, <1>9 DEF map
    <2>2. QED
        BY <1>1, <2>1
<1>16. QED
    BY <1>13, <1>14, <1>15 DEF map

LEMMA SortedHasLength ==
    ASSUME NEW s \in Seq(Nat)
    PROVE  HasLength(Sorted(ToSet(s)))
<1> DEFINE map == Sorted(ToSet(s))
<1>1. map \in Seq(Nat)
    BY FinitelyManyElements, SortedIs
<1> HIDE DEF map
<1>2. Len(map) \in Nat
    BY <1>1
<1>3. QED
    BY <1>2 DEF HasLength, map

-----------------------------------------------------------------------------
(* The call. *)

CallInv ==
    /\ online \in Onlines /\ always \subseteq online /\ online \subseteq ever /\ ever \subseteq Cpus
    /\ pc \in {"start", "list", "map", "midr", "returned", "aborted"}
    /\ pc = "start" => ioPc = "closed"
    /\ pc \in {"start", "list"} => mapPc = "idle"
    /\ pc \in {"start", "list", "map"} => idx = 1
    /\ pc \in {"list", "map"} => cpu = -1
    /\ pc = "midr" =>
        /\ HasLength(cpus)
        /\ idx \in 1..(Len(cpus) + 1)
        /\ cpu # -1 => cpus = <<cpu>>
    /\ pc # "returned" => cpuid = NoId

\* A CPU asked for has been tried and was offline, or is still to be tried.
AskedInv ==
    /\ pc = "midr" /\ cpu # -1 /\ idx > 1 => cpu \notin always
    /\ IdentityIsAsked

HeapInv ==
    /\ pc \in {"start", "aborted"} => heap \subseteq {"id", "map"} /\ (pc = "start" => heap = {})
    /\ pc = "list" =>
        /\ "id" \in heap
        /\ ioPc = "closed" => heap = {"id"}
        /\ ioPc \in {"char", "last"} => heap \subseteq {"id", "fd", "line"}
        /\ ioPc = "done" => heap \subseteq {"id", "line"}
    /\ pc = "map" => "id" \in heap /\ heap \subseteq {"id", "line", IF mapPc = "done" THEN "map" ELSE "tmp"}
    /\ pc = "midr" => "id" \in heap /\ heap \subseteq {"id", "map"}
    /\ OnlyIdKept

\* The CPUs of S in the runs before the last n of them.
Taken(S, n) ==
    {c \in S : \E k \in 1..(Len(OnlineRuns[S]) - n) : OnlineRuns[S][k].first <= c /\ c <= OnlineRuns[S][k].last}

\* The parser has read all runs of S but the last n, and is in one of them.
AtTerm(S, n) ==
    /\ list = LastOnes(S)[n]
    /\ ToSet(tmpCpus) = Taken(S, n)
InTerm(S, n) ==
    /\ list = <<Sep(n)>> \o LastOnes(S)[n - 1]
    /\ Run(S, n).first <= startCpu /\ startCpu <= endCpu + 1 /\ endCpu = Run(S, n).last
    /\ ToSet(tmpCpus) = Taken(S, n) \cup {c \in S : Run(S, n).first <= c /\ c < startCpu}

\* The list: the file holds the CPUs online when it was opened, and the parser
\* has taken those of its first runs.
ListInv ==
    /\ mapPc = "idle" => tmpCpus = <<>>
    /\ pc = "map" => ioPc = "done"
    /\ pc \in {"list", "map"} /\ ioPc # "closed" /\ faults = 0 =>
          listed \in Onlines /\ file = OnlineText(listed) /\ always \subseteq listed
    /\ pc \in {"list", "map"} /\ ioPc = "done" /\ faults = 0 => text # NoText
    /\ pc = "map" /\ faults = 0 =>
          /\ mapPc # "idle"
          /\ mapPc = "term" => \E n \in 0..Len(OnlineRuns[listed]) : AtTerm(listed, n)
          /\ mapPc = "add" => \E n \in 1..Len(OnlineRuns[listed]) : InTerm(listed, n)
          /\ mapPc = "done" => cpus \in Seq(Nat)
    /\ MapIsOnlineList

\* A CPU that stays online is in the map, and still to be tried.
AnyInv ==
    /\ pc = "midr" /\ cpu = -1 /\ faults = 0 =>
          /\ cpus \in Seq(Nat)
          /\ always \subseteq ToSet(cpus)
          /\ \A i \in 1..(idx - 1) : cpus[i] \notin always
    /\ Ended /\ faults = 0 /\ cpu = -1 => pc = "returned" /\ (cpuid = NoId => always = {})

IInv == IoInv /\ MapInv /\ CallInv /\ AskedInv /\ HeapInv /\ ListInv /\ AnyInv

\* So has the map that is counted.
LEMMA CountedHasLength ==
    ASSUME NEW S, S \subseteq Cpus
    PROVE  HasLength([i \in 1..Cardinality(S) |-> i - 1])
<1> DEFINE n == Cardinality(S)
<1>1. n \in Nat
    BY CpusAssumption, FS_Subset, FS_CardinalityType
<1> HIDE DEF n
<1> DEFINE map == [i \in 1..n |-> i - 1]
<1>2. map \in Seq(Int)
    BY <1>1
<1> HIDE DEF map
<1>3. Len(map) \in Nat
    BY <1>2
<1>4. QED
    BY <1>3 DEF HasLength, n, map

\* What is behind the number of a text, and what follows its first character,
\* are texts.
LEMMA BehindIsText ==
    ASSUME NEW s \in Seq(Chars)
    PROVE  /\ Behind(s) \in Seq(Chars)
           /\ s # <<>> => Tail(s) \in Seq(Chars)
           /\ Number(s) \in Nat
<1>1. NumberLen(s) \in Nat /\ Len(s) \in Nat
    BY NumberLenBounded
<1>2. Behind(s) \in Seq(Chars)
    BY <1>1, NumberLenBounded DEF Behind
<1>3. QED
    BY <1>2, NumberIsNat, HeadTailProperties

\* One more CPU in the array: it is not there yet, and there is room.
LEMMA AddCpuKeeps ==
    ASSUME MapInv, AddCpu
    PROVE  MapInv'
<1>1. tmpCpus \in Seq(Nat) /\ startCpu \in Nat /\ endCpu \in Nat /\ maxEntries \in Nat /\ startCpu <= endCpu
    BY DEF MapInv, AddCpu
<1>2. tmpCpus' = Append(tmpCpus, startCpu) /\ startCpu' = startCpu + 1 /\ maxEntries' = Grown
      /\ UNCHANGED <<list, endCpu, cpus, mapPc>> /\ mapPc = "add"
    BY DEF AddCpu
<1>3. /\ tmpCpus' \in Seq(Nat)
      /\ Len(tmpCpus') = Len(tmpCpus) + 1
      /\ DOMAIN tmpCpus' = 1..(Len(tmpCpus) + 1) /\ DOMAIN tmpCpus = 1..Len(tmpCpus)
      /\ \A i \in 1..Len(tmpCpus) : tmpCpus'[i] = tmpCpus[i]
      /\ tmpCpus'[Len(tmpCpus) + 1] = startCpu
      /\ Len(tmpCpus) \in Nat
    BY <1>1, <1>2
<1>4. \A i \in 1..Len(tmpCpus) : tmpCpus[i] # startCpu
    BY DEF AddCpu, Contains
<1>5. IsInjective(tmpCpus')
    <2>1. \A i, j \in 1..Len(tmpCpus) : tmpCpus[i] = tmpCpus[j] => i = j
        BY <1>3 DEF MapInv, MapTypeOK, IsInjective
    <2>2. \A i \in DOMAIN tmpCpus' : i \in 1..Len(tmpCpus) \/ i = Len(tmpCpus) + 1
        BY <1>3
    <2>3. \A i, j \in DOMAIN tmpCpus' : tmpCpus'[i] = tmpCpus'[j] => i = j
        BY <1>3, <1>4, <2>1, <2>2
    <2>4. QED
        BY <2>3 DEF IsInjective
<1>6. maxEntries' \in Nat /\ Len(tmpCpus') <= maxEntries'
    <2> DEFINE width == endCpu - startCpu + 1
               more == Max({width, GrowBy})
    <2>1. more \in {width, GrowBy} /\ more >= GrowBy /\ width \in Int /\ GrowBy \in Nat \ {0}
        <3>1. width \in Int /\ GrowBy \in Nat \ {0}
            BY <1>1, LimitAssumption
        <3> HIDE DEF width
        <3>2. QED
            BY <3>1, MaxOfTwo
    <2>2. Grown = IF Len(tmpCpus) = maxEntries THEN maxEntries + more ELSE maxEntries
        BY DEF Grown
    <2> HIDE DEF width, more
    <2>3. more \in Nat /\ more >= 1
        BY <2>1
    <2>4. Len(tmpCpus) <= maxEntries
        BY DEF MapInv, MapTypeOK
    <2> HIDE DEF MapInv
    <2>5. CASE Len(tmpCpus) = maxEntries
        <3>1. maxEntries' = maxEntries + more
            BY <1>2, <2>2, <2>5
        <3>2. QED
            BY <1>1, <1>3, <2>3, <2>5, <3>1
    <2>6. CASE Len(tmpCpus) # maxEntries
        <3>1. maxEntries' = maxEntries
            BY <1>2, <2>2, <2>6
        <3> DEFINE len == Len(tmpCpus)
        <3>2. len \in Nat /\ maxEntries \in Nat /\ len <= maxEntries /\ len # maxEntries
            BY <1>1, <1>3, <2>4, <2>6
        <3> HIDE DEF len
        <3>3. len + 1 <= maxEntries
            BY <3>2
        <3>4. QED
            BY <1>1, <1>3, <3>1, <3>3 DEF len
    <2>7. QED
        BY <2>5, <2>6
<1>7. QED
    BY <1>1, <1>2, <1>3, <1>5, <1>6 DEF MapInv, MapTypeOK

LEMMA ParseTermKeeps ==
    ASSUME MapInv, ParseTerm
    PROVE  MapInv'
<1>1. list \in Seq(Chars) /\ list # <<>> /\ mapPc = "term"
    BY DEF MapInv, ParseTerm, StartsWithDigit
<1> DEFINE ranged == Behind(list) # <<>> /\ Head(Behind(list)) = Dash
           last == IF ranged THEN Tail(Behind(list)) ELSE list
<1>2. last \in Seq(Chars) /\ Number(list) \in Nat
    BY <1>1, BehindIsText
<1>3. Number(last) \in Nat /\ Behind(last) \in Seq(Chars)
    <2> HIDE DEF last
    <2>1. QED
        BY <1>2, BehindIsText
<1>4. \/ /\ startCpu' = Number(list) /\ endCpu' = Number(last) /\ list' = Behind(last)
         /\ mapPc' = "add" /\ UNCHANGED <<cpus, tmpCpus, maxEntries>>
      \/ /\ mapPc' = "done" /\ cpus' = NoMap
         /\ UNCHANGED <<list, startCpu, endCpu, tmpCpus, maxEntries>>
    BY DEF ParseTerm, Give
<1> HIDE DEF last
<1>5. QED
    BY <1>2, <1>3, <1>4 DEF MapInv, MapTypeOK

LEMMA FinishMapKeeps ==
    ASSUME MapInv, FinishMap
    PROVE  MapInv'
<1>1. HasLength(<<-1>>)
    BY DEF HasLength
<1>2. HasLength(Sorted(ToSet(tmpCpus)))
    BY SortedHasLength DEF MapInv
<1>3. HasLength(cpus')
    BY <1>1, <1>2 DEF FinishMap, Give
<1>4. QED
    BY <1>3 DEF FinishMap, Give, MapInv, MapTypeOK

LEMMA OtherMapSteps ==
    ASSUME MapInv, Invalid \/ EndTerm \/ (StartParse /\ text \in Seq(Chars))
    PROVE  MapInv'
<1>1. CASE Invalid
    BY <1>1 DEF Invalid, Give, MapInv, MapTypeOK
<1>2. CASE EndTerm
    BY <1>2, BehindIsText DEF EndTerm, MapInv, MapTypeOK
<1>3. CASE StartParse /\ text \in Seq(Chars)
    BY <1>3 DEF StartParse, Give, MapInv, MapTypeOK
<1>4. QED
    BY <1>1, <1>2, <1>3

LEMMA MapInvStep ==
    ASSUME IoInv, MapInv, CallInv, [Next]_vars
    PROVE  MapInv'
<1>1. CASE UNCHANGED mapVars
    BY <1>1 DEF mapVars, MapInv, MapTypeOK, HasLength
<1>2. CASE AskOne
    BY <1>2 DEF AskOne, MapInv, MapTypeOK, CallInv
<1>3. CASE CountCpus
    <2>1. HasLength(cpus')
        BY <1>3, CountedHasLength DEF CountCpus, CallInv, Onlines
    <2>2. QED
        BY <1>3, <2>1 DEF CountCpus, MapInv, MapTypeOK
<1>4. CASE ParseList
    BY <1>4, OtherMapSteps DEF ParseList, IoInv
<1>5. CASE BuildMap
    BY <1>5, AddCpuKeeps, ParseTermKeeps, FinishMapKeeps, OtherMapSteps DEF BuildMap, MapStep
<1>6. QED
    BY <1>1, <1>2, <1>3, <1>4, <1>5
    DEF Next, vars, Hotplug, NoBuffer, AskAny, ReadList, TakeMap, MidrRead, MidrMissing, MidrAborts, NoneReadable

LEMMA CallInvStep ==
    ASSUME MapInv, CallInv, MapInv', [Next]_vars
    PROVE  CallInv'
<1> USE DEF CallInv
<1>2. CASE \E c \in Cpus : Hotplug(c)
    <2>1. PICK c \in Cpus : Hotplug(c)
        BY <1>2
    <2>2. online' \in Onlines
        <3>1. online \subseteq Cpus /\ online' \in {online \cup {c}, online \ {c}} /\ online' # {}
            BY <2>1 DEF Hotplug, Onlines
        <3>2. online' \subseteq Cpus
            BY <3>1
        <3>3. \A S : S \subseteq Cpus /\ S # {} => S \in Onlines
            BY DEF Onlines
        <3>4. QED
            BY <3>1, <3>2, <3>3
    <2>3. always' \subseteq online' /\ online' \subseteq ever' /\ ever' \subseteq Cpus
        BY <2>1, <2>2 DEF Hotplug, Onlines
    <2>4. UNCHANGED <<ioPc, mapPc, cpus, cpu, pc, idx, cpuid>>
        BY <2>1 DEF Hotplug, ioVars, mapVars
    <2>5. QED
        BY <2>2, <2>3, <2>4 DEF HasLength
<1>3. CASE NoBuffer \/ MidrRead \/ NoneReadable
    BY <1>3 DEF NoBuffer, MidrRead, NoneReadable, Return, hotplug, ioVars, mapVars
<1>4. CASE AskOne
    <2>1. cpus' = <<cpu>> /\ Len(<<cpu>>) = 1 /\ pc' = "midr" /\ idx' = 1
        BY <1>4 DEF AskOne
    <2>2. HasLength(cpus') /\ Len(cpus') = 1 /\ idx' \in 1..(Len(cpus') + 1)
        BY <2>1 DEF HasLength
    <2>3. UNCHANGED <<hotplug, cpu, cpuid>> /\ pc = "start"
        BY <1>4 DEF AskOne
    <2>4. QED
        BY <2>1, <2>2, <2>3 DEF hotplug
<1>5. CASE AskAny
    BY <1>5 DEF AskAny, hotplug, mapVars
<1>6. CASE ReadList
    BY <1>6 DEF ReadList, hotplug, mapVars
<1>7. CASE ParseList \/ BuildMap
    BY <1>7 DEF ParseList, BuildMap, hotplug
<1>8. CASE TakeMap
    <2>1. HasLength(cpus) /\ UNCHANGED <<hotplug, cpu, cpuid, idx, cpus>> /\ idx = 1 /\ pc' = "midr" /\ cpu = -1
          /\ cpuid = NoId
        BY <1>8 DEF TakeMap, mapVars, MapInv
    <2>2. idx \in 1..(Len(cpus) + 1)
        BY <2>1 DEF HasLength
    <2>3. QED
        BY <2>1, <2>2 DEF hotplug, HasLength
<1>9. CASE CountCpus
    <2>1. UNCHANGED <<hotplug, cpu, cpuid, idx>> /\ idx = 1 /\ pc' = "midr" /\ cpu = -1 /\ cpuid = NoId
        BY <1>9 DEF CountCpus
    <2>2. HasLength(cpus')
        BY <1>9, CountedHasLength DEF CountCpus, Onlines
    <2>3. 1 \in 1..(Len(cpus') + 1)
        BY <2>2 DEF HasLength
    <2>4. QED
        BY <2>1, <2>2, <2>3 DEF hotplug
<1>10. CASE MidrMissing
    <2>1. UNCHANGED <<hotplug, cpu, pc, cpuid, cpus>> /\ idx' = idx + 1 /\ pc = "midr"
        BY <1>10 DEF MidrMissing, mapVars
    <2>2. HasLength(cpus) /\ Len(cpus) \in Nat /\ idx \in 1..(Len(cpus) + 1) /\ idx <= Len(cpus)
        BY <1>10, <2>1 DEF HasLength, MidrMissing
    <2>3. idx + 1 \in 1..(Len(cpus) + 1)
        BY <2>2
    <2>4. QED
        BY <2>1, <2>2, <2>3 DEF hotplug, HasLength
<1>11. CASE MidrAborts
    BY <1>11 DEF MidrAborts, hotplug
<1>12. CASE UNCHANGED vars
    BY <1>12 DEF vars, hotplug, ioVars, mapVars, HasLength
<1>13. QED
    BY <1>2, <1>3, <1>4, <1>5, <1>6, <1>7, <1>8, <1>9, <1>10, <1>11, <1>12 DEF Next

LEMMA AskedInvStep ==
    ASSUME IoInv, CallInv, CallInv', AskedInv, [Next]_vars
    PROVE  AskedInv'
<1>1. UNCHANGED cpu /\ ever \subseteq ever' /\ always' \subseteq always
    BY DEF Next, vars, hotplug, Hotplug, NoBuffer, AskOne, AskAny, ReadList, ParseList, BuildMap, TakeMap,
           CountCpus, MidrRead, MidrMissing, MidrAborts, NoneReadable
<1>2. faults \in Nat /\ faults' \in Nat /\ (faults' = 0 => faults = 0)
    <2>1. UNCHANGED faults \/ Fails
        BY DEF Next, vars, Hotplug, NoBuffer, AskOne, AskAny, ReadList, ParseList, BuildMap, TakeMap, CountCpus,
               MidrRead, MidrMissing, MidrAborts, NoneReadable, Open, OpenFails, IoStep, FillBuffer, EndOfInput,
               TakeChar, HandOver, OutOfMemory, StartParse, MapStep, ParseTerm, AddCpu, Invalid, EndTerm, FinishMap
    <2>2. faults \in 0..MaxFaults
        BY DEF IoInv, IoTypeOK
    <2>3. faults \in Nat /\ faults' \in 0..MaxFaults /\ (faults' = 0 => faults = 0)
        BY <2>1, <2>2, FailsStep
    <2>4. QED
        BY <2>3, FaultsAssumption
<1>3. CASE MidrRead
    <2>1. cpus[idx] \in online /\ cpuid' = Midr[cpus[idx]] /\ pc = "midr" /\ idx <= Len(cpus) /\ pc' = "returned"
        BY <1>3 DEF MidrRead, Return
    <2>2. cpus[idx] \in ever' /\ cpus[idx] \in Cpus
        BY <1>1, <2>1 DEF CallInv
    <2>3. cpuid' # NoId
        BY <2>1, <2>2, MidrAssumption
    <2>4. cpu \in {cpus[idx], -1}
        <3>1. CASE cpu = -1
            BY <3>1
        <3>2. CASE cpu # -1
            <4>1. cpus = <<cpu>> /\ idx \in 1..(Len(cpus) + 1)
                BY <2>1, <3>2 DEF CallInv
            <4>2. idx = 1
                BY <2>1, <4>1
            <4>3. QED
                BY <4>1, <4>2
        <3>3. QED
            BY <3>1, <3>2
    <2>5. QED
        BY <1>1, <2>1, <2>2, <2>3, <2>4 DEF AskedInv, IdentityIsAsked
<1>4. CASE MidrMissing
    <2>1. cpus[idx] \notin online /\ pc = "midr" /\ pc' = "midr" /\ idx <= Len(cpus) /\ idx' = idx + 1
          /\ cpuid' = cpuid
        BY <1>4 DEF MidrMissing
    <2>2. cpu # -1 => cpu \notin always
        <3>1. SUFFICES ASSUME cpu # -1
                       PROVE  cpu \notin always
            OBVIOUS
        <3>2. cpus = <<cpu>> /\ idx \in 1..(Len(cpus) + 1)
            BY <2>1, <3>1 DEF CallInv
        <3>3. idx = 1
            BY <2>1, <3>2
        <3>4. QED
            BY <2>1, <3>2, <3>3 DEF CallInv
    <2>3. QED
        BY <1>1, <2>1, <2>2 DEF AskedInv, IdentityIsAsked, Ended
<1>5. CASE MidrAborts
    <2>1. cpus[idx] = -1 /\ pc = "midr" /\ pc' = "aborted" /\ idx <= Len(cpus) /\ cpuid' = cpuid
        BY <1>5 DEF MidrAborts
    <2>2. cpu = -1
        <3>1. SUFFICES ASSUME cpu # -1
                       PROVE  FALSE
            OBVIOUS
        <3>2. cpus = <<cpu>> /\ idx \in 1..(Len(cpus) + 1)
            BY <2>1, <3>1 DEF CallInv
        <3>3. idx = 1
            BY <2>1, <3>2
        <3>4. QED
            BY <2>1, <3>1, <3>2, <3>3
    <2>3. QED
        BY <1>1, <2>1, <2>2 DEF AskedInv, IdentityIsAsked
<1>6. CASE NoneReadable
    <2>1. pc = "midr" /\ pc' = "returned" /\ cpuid' = NoId /\ idx > Len(cpus)
        BY <1>6 DEF NoneReadable, Return
    <2>2. cpu # -1 => cpu \notin always
        <3>1. SUFFICES ASSUME cpu # -1
                       PROVE  cpu \notin always
            OBVIOUS
        <3>2. cpus = <<cpu>> /\ Len(<<cpu>>) = 1
            BY <2>1, <3>1 DEF CallInv
        <3>3. idx > 1
            BY <2>1, <3>2
        <3>4. QED
            BY <2>1, <3>1, <3>3 DEF AskedInv
    <2>3. QED
        BY <1>1, <2>1, <2>2 DEF AskedInv, IdentityIsAsked
<1>7. CASE NoBuffer
    <2>1. pc' = "returned" /\ cpuid' = NoId /\ faults' = faults + 1
        BY <1>7 DEF NoBuffer, Return, Fails
    <2>2. faults' # 0
        BY <1>2, <2>1
    <2>3. QED
        BY <2>1, <2>2 DEF AskedInv, IdentityIsAsked
<1>8. CASE cpuid' = NoId /\ ~ Ended' /\ (pc' = "midr" => cpu = -1 \/ idx' = 1)
    BY <1>1, <1>8 DEF AskedInv, IdentityIsAsked
<1>9. CASE UNCHANGED <<pc, idx, cpuid>>
    BY <1>1, <1>2, <1>9 DEF AskedInv, IdentityIsAsked, Ended
<1>10. CASE AskOne \/ AskAny \/ ReadList \/ ParseList \/ BuildMap \/ TakeMap \/ CountCpus
    <2>1. cpuid = NoId /\ cpuid' = NoId
        BY <1>10 DEF AskOne, AskAny, ReadList, ParseList, BuildMap, TakeMap, CountCpus, CallInv
    <2>2. pc' \in {"list", "map", "midr"} /\ (pc' = "midr" => cpu = -1 \/ idx' = 1)
        BY <1>10 DEF AskOne, AskAny, ReadList, ParseList, BuildMap, TakeMap, CountCpus, CallInv
    <2>3. QED
        BY <1>8, <2>1, <2>2 DEF Ended
<1>11. QED
    BY <1>3, <1>4, <1>5, <1>6, <1>7, <1>9, <1>10 DEF Next, vars, Hotplug

\* The reader's ledger: what it has opened and allocated.
LEMMA ReaderHeap ==
    ASSUME HeapInv, pc = "list", ReadList
    PROVE  /\ "id" \in heap'
           /\ ioPc' # "closed"
           /\ ioPc' \in {"char", "last"} => heap' \subseteq {"id", "fd", "line"}
           /\ ioPc' = "done" => heap' \subseteq {"id", "line"}
<1> USE DEF HeapInv
<1>1. CASE Open(OnlineText(online))
    BY <1>1 DEF Open
<1>2. CASE OpenFails
    BY <1>2 DEF OpenFails
<1>3. CASE FillBuffer \/ EndOfInput
    BY <1>3 DEF FillBuffer, EndOfInput
<1>4. CASE TakeChar
    BY <1>4 DEF TakeChar
<1>5. CASE HandOver
    BY <1>5 DEF HandOver
<1>6. CASE OutOfMemory
    BY <1>6 DEF OutOfMemory
<1>7. QED
    BY <1>1, <1>2, <1>3, <1>4, <1>5, <1>6 DEF ReadList, IoStep

LEMMA HeapInvStep ==
    ASSUME CallInv, HeapInv, CallInv', [Next]_vars
    PROVE  HeapInv'
<1>1. CASE UNCHANGED <<heap, pc, ioPc, mapPc, cpuid>>
    BY <1>1 DEF HeapInv, OnlyIdKept
<1>2. CASE AskOne \/ AskAny
    BY <1>2 DEF AskOne, AskAny, ioVars, CallInv, HeapInv, OnlyIdKept
<1>3. CASE NoBuffer
    BY <1>3 DEF NoBuffer, Return, HeapInv, OnlyIdKept
<1>4. CASE ReadList
    <2>1. pc = "list" /\ pc' = "list"
        BY <1>4 DEF ReadList
    <2>2. QED
        BY <1>4, <2>1, ReaderHeap DEF HeapInv, OnlyIdKept
<1>5. CASE ParseList
    <2>1. pc = "list" /\ ioPc = "done" /\ pc' = "map" /\ heap' = heap
        BY <1>5 DEF ParseList, StartParse
    <2>2. QED
        BY <2>1 DEF HeapInv, OnlyIdKept
<1>6. CASE BuildMap
    <2>1. pc = "map" /\ pc' = "map" /\ mapPc # "done"
        BY <1>6 DEF BuildMap, MapStep, ParseTerm, AddCpu, Invalid, EndTerm, FinishMap
    <2>2. "id" \in heap /\ heap \subseteq {"id", "line", "tmp"}
        BY <2>1 DEF HeapInv
    <2>3. \/ mapPc' # "done" /\ heap' \in {heap, heap \cup {"tmp"}}
          \/ mapPc' = "done" /\ heap' \in {heap \ {"tmp"}, (heap \ {"tmp"}) \cup {"map"}}
        BY <1>6, <2>1
        DEF BuildMap, MapStep, ParseTerm, AddCpu, Invalid, EndTerm, FinishMap, Give
    <2>4. QED
        BY <2>1, <2>2, <2>3 DEF HeapInv, OnlyIdKept
<1>7. CASE TakeMap \/ CountCpus
    BY <1>7 DEF TakeMap, CountCpus, HeapInv, OnlyIdKept
<1>8. CASE MidrRead
    <2>1. cpus[idx] \in Cpus
        BY <1>8 DEF MidrRead, CallInv, Onlines
    <2>2. cpuid' # NoId
        BY <1>8, <2>1, MidrAssumption DEF MidrRead, Return
    <2>3. heap' = {"id"} /\ pc' = "returned"
        BY <1>8 DEF MidrRead, Return, HeapInv
    <2>4. QED
        BY <2>2, <2>3 DEF HeapInv, OnlyIdKept
<1>9. CASE NoneReadable
    BY <1>9 DEF NoneReadable, Return, HeapInv, OnlyIdKept
<1>10. CASE MidrAborts
    BY <1>10 DEF MidrAborts, HeapInv, OnlyIdKept
<1>11. QED
    BY <1>1, <1>2, <1>3, <1>4, <1>5, <1>6, <1>7, <1>8, <1>9, <1>10
    DEF Next, vars, ioVars, mapVars, Hotplug, MidrMissing

-----------------------------------------------------------------------------
(* The list from the file to the map. *)

LEMMA CpusOf ==
    ASSUME NEW S \in Onlines
    PROVE  S \subseteq Nat /\ S # {} /\ IsFiniteSet(S) /\ S \subseteq Cpus
BY CpusAssumption, FS_Subset DEF Onlines

\* The run at hand.
LEMMA RunAtHand ==
    ASSUME NEW S \in Onlines, NEW n \in 1..Len(OnlineRuns[S])
    PROVE  /\ Run(S, n).first \in Nat /\ Run(S, n).last \in Nat /\ Run(S, n).first <= Run(S, n).last
           /\ Run(S, n).first < Limit /\ Run(S, n).last < Limit
           /\ \A c \in Nat : Run(S, n).first <= c /\ c <= Run(S, n).last =>
                 c \in S /\ c \notin Taken(S, n)
           /\ Taken(S, n - 1) = Taken(S, n) \cup {c \in S : Run(S, n).first <= c /\ c <= Run(S, n).last}
<1> DEFINE L == Len(OnlineRuns[S])
           r == L - n + 1
<1>1. L \in Nat /\ r \in 1..L /\ n \in 1..L /\ L - (n - 1) = r /\ r - 1 = L - n
    BY RunsOf
<1>2. OnlineRuns[S][r] = Run(S, n)
    BY DEF Run
<1> HIDE DEF r
<1>3. Run(S, n).first \in Cpus /\ Run(S, n).last \in Cpus /\ Run(S, n).first <= Run(S, n).last
    BY <1>1, <1>2, RunsOf
<1>4. ASSUME NEW c \in Nat, Run(S, n).first <= c /\ c <= Run(S, n).last
      PROVE  c \in S /\ c \notin Taken(S, n)
    <2>1. c \in S
        <3>1. \E k \in 1..L : OnlineRuns[S][k].first <= c /\ c <= OnlineRuns[S][k].last
            BY <1>1, <1>2, <1>4
        <3>2. QED
            BY <3>1, RunsOf
    <2>2. SUFFICES ASSUME c \in Taken(S, n)
                   PROVE  FALSE
        BY <2>1
    <2>3. PICK k \in 1..(L - n) : OnlineRuns[S][k].first <= c /\ c <= OnlineRuns[S][k].last
        BY <2>2 DEF Taken
    <2>4. k \in 1..L /\ k # r
        BY <1>1
    <2>5. QED
        BY <1>1, <1>2, <1>4, <2>3, <2>4, RunsOf
<1>5. Taken(S, n - 1) = Taken(S, n) \cup {c \in S : Run(S, n).first <= c /\ c <= Run(S, n).last}
    <2>1. \A k : k \in 1..(L - (n - 1)) <=> k \in 1..(L - n) \/ k = r
        BY <1>1
    <2> DEFINE In(k, c) == OnlineRuns[S][k].first <= c /\ c <= OnlineRuns[S][k].last
    <2>2. \A c : In(r, c) <=> Run(S, n).first <= c /\ c <= Run(S, n).last
        BY <1>2
    <2>3. /\ Taken(S, n) = {c \in S : \E k \in 1..(L - n) : In(k, c)}
          /\ Taken(S, n - 1) = {c \in S : \E k \in 1..(L - (n - 1)) : In(k, c)}
        BY DEF Taken
    <2> HIDE DEF In, L
    <2>4. QED
        BY <2>1, <2>2, <2>3, Zenon
<1>6. QED
    BY <1>3, <1>4, <1>5, CpusAssumption

\* The text goes on with a digit as long as there are runs.
LEMMA DigitsFollow ==
    ASSUME NEW S \in Onlines, NEW n \in 0..Len(OnlineRuns[S])
    PROVE  StartsWithDigit(LastOnes(S)[n]) <=> n # 0
<1>1. CASE n = 0
    BY <1>1, LastOnesAreTexts DEF StartsWithDigit
<1>2. CASE n # 0
    <2>1. n \in 1..Len(OnlineRuns[S])
        BY <1>2, RunsOf
    <2>2. QED
        BY <1>2, <2>1, TermRead
<1>3. QED
    BY <1>1, <1>2

LEMMA TakenBounds ==
    ASSUME NEW S \in Onlines
    PROVE  /\ Taken(S, 0) = S /\ Taken(S, Len(OnlineRuns[S])) = {}
           /\ Len(OnlineRuns[S]) \in Nat \ {0}
<1> DEFINE L == Len(OnlineRuns[S])
<1>1. L \in Nat /\ L - 0 = L /\ L - L = 0 /\ 1..0 = {}
    BY RunsOf
<1>2. Taken(S, L) = {}
    BY <1>1 DEF Taken
<1>3. \A c \in S : \E k \in 1..L : OnlineRuns[S][k].first <= c /\ c <= OnlineRuns[S][k].last
    BY RunsOf, CpusOf
<1>4. Taken(S, 0) = S
    BY <1>1, <1>3 DEF Taken
<1>5. L # 0
    BY <1>1, <1>3, CpusOf
<1>6. QED
    BY <1>1, <1>2, <1>4, <1>5

\* A term is taken.
LEMMA TermTaken ==
    ASSUME MapInv, NEW S \in Onlines, NEW n \in 0..Len(OnlineRuns[S]), AtTerm(S, n), ParseTerm
    PROVE  n \in 1..Len(OnlineRuns[S]) /\ InTerm(S, n)' /\ mapPc' = "add" /\ UNCHANGED faults
<1>1. list = LastOnes(S)[n] /\ StartsWithDigit(list)
    BY DEF AtTerm, ParseTerm
<1>2. n \in 1..Len(OnlineRuns[S])
    BY <1>1, DigitsFollow, RunsOf
<1> DEFINE a == Run(S, n).first
           b == Run(S, n).last
           t == LastOnes(S)[n - 1]
<1>3. Number(list) = a /\ Number(LastNumber(list)) = b /\ Behind(LastNumber(list)) = <<Sep(n)>> \o t
    BY <1>1, <1>2, TermRead
<1>4. AtOneOf(<<Sep(n)>> \o t, {Comma, Newline})
    <2>1. n - 1 \in 0..Len(OnlineRuns[S])
        BY <1>2, RunsOf
    <2>2. t \in Seq(Chars)
        BY <2>1, LastOnesAreTexts
    <2>3. Sep(n) \in Chars /\ Sep(n) \in {Comma, Newline}
        BY DEF Sep, Chars
    <2> HIDE DEF t
    <2>4. Head(<<Sep(n)>> \o t) = Sep(n)
        BY <2>2, <2>3, Fronted
    <2>5. QED
        BY <2>3, <2>4 DEF AtOneOf
<1>5. a \in Nat /\ b \in Nat /\ a <= b /\ a < Limit /\ b < Limit
    BY <1>2, RunAtHand
<1> HIDE DEF a, b, t
<1>6. /\ startCpu' = a /\ endCpu' = b /\ list' = <<Sep(n)>> \o t /\ mapPc' = "add"
      /\ UNCHANGED <<tmpCpus, faults>>
    <2> DEFINE ranged == Behind(list) # <<>> /\ Head(Behind(list)) = Dash
               last == IF ranged THEN Tail(Behind(list)) ELSE list
               good == /\ Number(list) < Limit
                       /\ Number(last) < Limit
                       /\ AtOneOf(Behind(last), {Comma, Newline})
                       /\ Number(list) <= Number(last)
    <2>1. /\ IF good
             THEN startCpu' = Number(list) /\ endCpu' = Number(last) /\ list' = Behind(last) /\ mapPc' = "add"
             ELSE TRUE
          /\ UNCHANGED <<tmpCpus, faults>>
        BY DEF ParseTerm
    <2>2. last = LastNumber(list)
        BY DEF LastNumber
    <2> HIDE DEF last
    <2>3. good
        BY <1>3, <1>4, <1>5, <2>2
    <2>4. QED
        BY <1>3, <2>1, <2>2, <2>3
<1>7. InTerm(S, n)'
    <2>1. a <= a /\ a <= b + 1 /\ \A c \in S : ~ (a <= c /\ c < a)
        BY <1>5, CpusOf
    <2>2. Taken(S, n) = Taken(S, n) \cup {c \in S : a <= c /\ c < a}
        BY <2>1
    <2>3. ToSet(tmpCpus') = Taken(S, n)
        BY <1>6 DEF AtTerm
    <2>4. /\ list' = <<Sep(n)>> \o LastOnes(S)[n - 1]
          /\ Run(S, n).first <= startCpu' /\ startCpu' <= endCpu' + 1 /\ endCpu' = Run(S, n).last
          /\ ToSet(tmpCpus') = Taken(S, n) \cup {c \in S : Run(S, n).first <= c /\ c < startCpu'}
        BY <1>6, <2>1, <2>2, <2>3 DEF a, b, t
    <2>5. QED
        BY <2>4 DEF InTerm
<1>8. QED
    BY <1>2, <1>6, <1>7

\* So are the CPUs in it, and none of them is there already.
LEMMA CpuTaken ==
    ASSUME MapInv, NEW S \in Onlines, NEW n \in 1..Len(OnlineRuns[S]), InTerm(S, n), AddCpu
    PROVE  InTerm(S, n)' /\ mapPc' = "add" /\ UNCHANGED faults
<1> DEFINE a == Run(S, n).first
           b == Run(S, n).last
<1>1. /\ list = <<Sep(n)>> \o LastOnes(S)[n - 1] /\ a <= startCpu /\ startCpu <= b /\ endCpu = b
      /\ ToSet(tmpCpus) = Taken(S, n) \cup {c \in S : a <= c /\ c < startCpu}
    BY DEF InTerm, AddCpu
<1>2. /\ tmpCpus' = Append(tmpCpus, startCpu) /\ startCpu' = startCpu + 1
      /\ UNCHANGED <<list, endCpu, mapPc, faults>> /\ mapPc = "add"
    BY DEF AddCpu
<1>3. a \in Nat /\ b \in Nat /\ startCpu \in Nat /\ startCpu \in S /\ S \subseteq Nat
    BY <1>1, RunAtHand, CpusOf DEF MapInv
<1> HIDE DEF a, b
<1>4. ToSet(tmpCpus') = ToSet(tmpCpus) \cup {startCpu}
    <2>1. tmpCpus \in Seq(Nat) /\ Len(tmpCpus) \in Nat
        BY DEF MapInv
    <2>2. /\ DOMAIN tmpCpus' = 1..(Len(tmpCpus) + 1) /\ DOMAIN tmpCpus = 1..Len(tmpCpus)
          /\ \A i \in 1..Len(tmpCpus) : tmpCpus'[i] = tmpCpus[i]
          /\ tmpCpus'[Len(tmpCpus) + 1] = startCpu
        BY <1>2, <1>3, <2>1
    <2>3. \A i : i \in 1..(Len(tmpCpus) + 1) <=> i \in 1..Len(tmpCpus) \/ i = Len(tmpCpus) + 1
        BY <2>1
    <2>4. QED
        BY <2>2, <2>3 DEF ToSet
<1>5. {c \in S : a <= c /\ c < startCpu + 1} = {c \in S : a <= c /\ c < startCpu} \cup {startCpu}
    <2>1. \A c \in S : a <= c /\ c < startCpu + 1 <=> (a <= c /\ c < startCpu) \/ c = startCpu
        BY <1>1, <1>3
    <2>2. QED
        BY <1>3, <2>1
<1>6. ToSet(tmpCpus') = Taken(S, n) \cup {c \in S : a <= c /\ c < startCpu + 1}
    BY <1>1, <1>4, <1>5
<1>7. a <= startCpu + 1 /\ startCpu + 1 <= b + 1
    BY <1>1, <1>3
<1>8. /\ list' = <<Sep(n)>> \o LastOnes(S)[n - 1]
      /\ Run(S, n).first <= startCpu' /\ startCpu' <= endCpu' + 1 /\ endCpu' = Run(S, n).last
      /\ ToSet(tmpCpus') = Taken(S, n) \cup {c \in S : Run(S, n).first <= c /\ c < startCpu'}
    BY <1>1, <1>2, <1>6, <1>7 DEF a, b
<1>9. QED
    BY <1>2, <1>8 DEF InTerm

LEMMA NoneTwice ==
    ASSUME MapInv, NEW S \in Onlines, NEW n \in 1..Len(OnlineRuns[S]), InTerm(S, n), Invalid
    PROVE  Fails
<1>1. SUFFICES ASSUME Contains(tmpCpus, startCpu)
               PROVE  FALSE
    BY DEF Invalid
<1>2. startCpu \in ToSet(tmpCpus) /\ startCpu \in Nat
    BY <1>1 DEF Contains, ToSet, MapInv
<1>3. Run(S, n).first <= startCpu /\ startCpu <= Run(S, n).last
    BY DEF InTerm, Invalid
<1>4. startCpu \notin Taken(S, n)
    BY <1>2, <1>3, RunAtHand
<1>5. ~ (startCpu < startCpu)
    BY <1>2
<1>6. QED
    BY <1>2, <1>4, <1>5 DEF InTerm

\* The text behind a term begins with the next one.
LEMMA TermEnded ==
    ASSUME MapInv, NEW S \in Onlines, NEW n \in 1..Len(OnlineRuns[S]), InTerm(S, n), EndTerm
    PROVE  n - 1 \in 0..Len(OnlineRuns[S]) /\ AtTerm(S, n - 1)' /\ mapPc' = "term" /\ UNCHANGED faults
<1> DEFINE a == Run(S, n).first
           b == Run(S, n).last
           t == LastOnes(S)[n - 1]
<1>1. n - 1 \in 0..Len(OnlineRuns[S])
    BY RunsOf
<1>2. t \in Seq(Chars) /\ Sep(n) \in Chars
    BY <1>1, LastOnesAreTexts DEF Sep, Chars
<1>3. list = <<Sep(n)>> \o t
    BY DEF InTerm
<1>4. list # <<>> /\ Tail(list) = t
    <2> HIDE DEF t
    <2>1. QED
        BY <1>2, <1>3, Fronted
<1>5. list' = t /\ mapPc' = "term" /\ UNCHANGED <<tmpCpus, faults>> /\ startCpu > endCpu
    BY <1>4 DEF EndTerm
<1>6. a \in Nat /\ b \in Nat /\ startCpu \in Nat /\ S \subseteq Nat
      /\ Taken(S, n - 1) = Taken(S, n) \cup {c \in S : a <= c /\ c <= b}
    BY RunAtHand, CpusOf DEF MapInv
<1>7. startCpu = b + 1 /\ ToSet(tmpCpus) = Taken(S, n) \cup {c \in S : a <= c /\ c < startCpu}
    BY <1>5, <1>6 DEF InTerm
<1> HIDE DEF a, b
<1>8. \A c \in S : c < startCpu <=> c <= b
    BY <1>6, <1>7
<1>9. ToSet(tmpCpus') = Taken(S, n - 1)
    BY <1>5, <1>6, <1>7, <1>8
<1>10. AtTerm(S, n - 1)'
    BY <1>5, <1>9 DEF AtTerm
<1>11. QED
    BY <1>1, <1>5, <1>10

\* At the end all of them have been taken.
LEMMA MapFinished ==
    ASSUME MapInv, NEW S \in Onlines, NEW n \in 0..Len(OnlineRuns[S]), AtTerm(S, n), FinishMap
    PROVE  cpus' \in Seq(Nat) /\ ToSet(cpus') = S /\ mapPc' = "done" /\ UNCHANGED faults
<1>1. n = 0
    BY DigitsFollow DEF AtTerm, FinishMap
<1>2. ToSet(tmpCpus) = S /\ S # {}
    BY <1>1, TakenBounds, CpusOf DEF AtTerm
<1>3. tmpCpus # <<>>
    BY <1>2 DEF ToSet
<1>4. cpus' = Sorted(S) /\ mapPc' = "done" /\ UNCHANGED faults
    BY <1>2, <1>3 DEF FinishMap, Give
<1>5. QED
    BY <1>4, CpusOf, SortedIs

\* Failures are counted, and CPUs that stayed online become fewer.
LEMMA FaultsCounted ==
    ASSUME IoInv, [Next]_vars
    PROVE  /\ faults \in Nat /\ faults' \in Nat /\ (faults' = 0 => faults = 0)
           /\ Fails => faults' # 0
           /\ UNCHANGED cpu /\ always' \subseteq always
<1>1. UNCHANGED faults \/ Fails
    BY DEF Next, vars, Hotplug, NoBuffer, AskOne, AskAny, ReadList, ParseList, BuildMap, TakeMap, CountCpus,
           MidrRead, MidrMissing, MidrAborts, NoneReadable, Open, OpenFails, IoStep, FillBuffer, EndOfInput,
           TakeChar, HandOver, OutOfMemory, StartParse, MapStep, ParseTerm, AddCpu, Invalid, EndTerm, FinishMap
<1>2. faults \in 0..MaxFaults /\ MaxFaults \in Nat
    BY FaultsAssumption DEF IoInv, IoTypeOK
<1>3. faults \in Nat /\ faults' \in Nat /\ (faults' = 0 => faults = 0)
    BY <1>1, <1>2 DEF Fails
<1>4. Fails => faults' # 0
    BY <1>3 DEF Fails
<1>5. UNCHANGED cpu /\ always' \subseteq always
    BY DEF Next, vars, hotplug, Hotplug, NoBuffer, AskOne, AskAny, ReadList, ParseList, BuildMap, TakeMap,
           CountCpus, MidrRead, MidrMissing, MidrAborts, NoneReadable
<1>6. QED
    BY <1>3, <1>4, <1>5

\* The invariant where neither the reader nor the parser makes a step.
LEMMA ListKept ==
    ASSUME ListInv, always' \subseteq always,
           UNCHANGED <<ioVars, listed, mapPc, list, startCpu, endCpu, tmpCpus, cpus, faults>>,
           pc' = pc \/ pc' \notin {"list", "map"}
    PROVE  ListInv'
<1>1. CASE pc' \notin {"list", "map"}
    BY <1>1 DEF ListInv, MapIsOnlineList
<1>2. CASE pc' = pc
    <2>1. \A S, n : (AtTerm(S, n) => AtTerm(S, n)') /\ (InTerm(S, n) => InTerm(S, n)')
        BY DEF AtTerm, InTerm
    <2>2. UNCHANGED <<pc, ioPc, file, text, listed, mapPc, tmpCpus, cpus, faults>>
        BY <1>2 DEF ioVars
    <2>3. MapIsOnlineList'
        BY <2>2 DEF ListInv, MapIsOnlineList
    <2>4. QED
        BY <2>1, <2>2, <2>3 DEF ListInv
<1>3. QED
    BY <1>1, <1>2

LEMMA ReadListKeeps ==
    ASSUME IoInv, CallInv, ListInv, [Next]_vars, ReadList
    PROVE  ListInv'
<1>1. pc = "list" /\ pc' = "list" /\ UNCHANGED <<mapVars, always, online>>
    BY DEF ReadList, hotplug
<1>2. MapIsOnlineList' /\ (mapPc' = "idle" => tmpCpus' = <<>>)
    BY <1>1 DEF ListInv, MapIsOnlineList, mapVars
<1>3. CASE Open(OnlineText(online)) /\ listed' = online
    <2>1. ioPc' = "char" /\ file' = OnlineText(listed') /\ listed' \in Onlines /\ always' \subseteq listed'
        BY <1>1, <1>3 DEF Open, CallInv
    <2>2. QED
        BY <1>1, <1>2, <2>1 DEF ListInv
<1>4. CASE (OpenFails \/ OutOfMemory) /\ UNCHANGED listed
    <2>1. Fails
        BY <1>4 DEF OpenFails, OutOfMemory
    <2>2. faults' # 0
        BY <2>1, FaultsCounted
    <2>3. QED
        BY <1>1, <1>2, <2>2 DEF ListInv
<1>5. CASE (FillBuffer \/ EndOfInput \/ TakeChar) /\ UNCHANGED listed
    <2>1. ioPc # "closed" /\ ioPc' # "done" /\ UNCHANGED file
        BY <1>5 DEF FillBuffer, EndOfInput, TakeChar
    <2>2. QED
        BY <1>1, <1>2, <1>5, <2>1, FaultsCounted DEF ListInv
<1>6. CASE HandOver /\ UNCHANGED listed
    <2>1. ioPc # "closed" /\ UNCHANGED file /\ text' = line \o buf
        BY <1>6 DEF HandOver
    <2>2. text' # NoText
        <3>1. line \in Seq(Chars) /\ buf \in Seq(Chars)
            BY DEF IoInv
        <3>2. line \o buf \in Seq(Chars)
            BY <3>1, ConcatProperties
        <3>3. QED
            BY <2>1, <3>2, NullAssumption DEF Chars
    <2>3. QED
        BY <1>1, <1>2, <1>6, <2>1, <2>2, FaultsCounted DEF ListInv
<1>7. QED
    BY <1>3, <1>4, <1>5, <1>6 DEF ReadList, IoStep

LEMMA ParseListKeeps ==
    ASSUME IoInv, CallInv, ListInv, ParseList
    PROVE  ListInv'
<1>1. /\ pc = "list" /\ ioPc = "done" /\ pc' = "map" /\ StartParse
      /\ UNCHANGED <<file, text, ioPc, listed, always, faults, tmpCpus>>
    BY DEF ParseList, StartParse, ioVars, hotplug
<1>2. mapPc' \in {"term", "done"} /\ (mapPc' = "done" => cpus' = NoMap)
    BY <1>1 DEF StartParse, Give
<1>3. ASSUME faults = 0
      PROVE  mapPc' = "term" /\ AtTerm(listed, Len(OnlineRuns[listed]))'
             /\ Len(OnlineRuns[listed]) \in 0..Len(OnlineRuns[listed])
    <2> DEFINE L == Len(OnlineRuns[listed])
    <2>1. listed \in Onlines /\ text = OnlineText(listed)
        BY <1>1, <1>3 DEF ListInv, IoInv, NothingLost
    <2>2. L \in Nat \ {0} /\ Taken(listed, L) = {} /\ text = LastOnes(listed)[L]
        BY <2>1, TakenBounds, LastOnesAreTexts
    <2>3. L \in 0..L
        BY <2>2
    <2>4. StartsWithDigit(text)
        BY <2>1, <2>2, <2>3, DigitsFollow
    <2>5. mapPc' = "term" /\ list' = text
        BY <1>1, <2>4 DEF StartParse
    <2>6. tmpCpus = <<>>
        BY <1>1 DEF ListInv, StartParse
    <2>7. ToSet(tmpCpus') = {}
        BY <1>1, <2>6 DEF ToSet
    <2>8. AtTerm(listed, L)'
        BY <1>1, <2>2, <2>5, <2>7 DEF AtTerm
    <2>9. QED
        BY <2>3, <2>5, <2>8
<1>4. MapIsOnlineList'
    BY <1>1, <1>2, <1>3 DEF MapIsOnlineList
<1>5. (pc = "map" /\ faults = 0 =>
          /\ mapPc # "idle"
          /\ mapPc = "term" => \E n \in 0..Len(OnlineRuns[listed]) : AtTerm(listed, n)
          /\ mapPc = "add" => \E n \in 1..Len(OnlineRuns[listed]) : InTerm(listed, n)
          /\ mapPc = "done" => cpus \in Seq(Nat))'
    BY <1>1, <1>2, <1>3
<1>6. QED
    BY <1>1, <1>2, <1>4, <1>5 DEF ListInv

LEMMA BuildMapKeeps ==
    ASSUME IoInv, MapInv, CallInv, ListInv, [Next]_vars, BuildMap
    PROVE  ListInv'
<1>1. /\ pc = "map" /\ pc' = "map" /\ MapStep /\ mapPc \in {"term", "add"}
      /\ UNCHANGED <<file, text, ioPc, listed, always>>
    BY DEF BuildMap, MapStep, ParseTerm, AddCpu, Invalid, EndTerm, FinishMap, ioVars, hotplug
<1>2. mapPc' # "idle"
    BY <1>1 DEF MapStep, ParseTerm, AddCpu, Invalid, EndTerm, FinishMap, Give
<1>3. mapPc' = "done" /\ cpus' # NoMap => Increasing(cpus')
    <2>1. SUFFICES ASSUME mapPc' = "done", cpus' # NoMap
                   PROVE  Increasing(cpus')
        OBVIOUS
    <2>2. FinishMap
        BY <1>1, <2>1 DEF MapStep, ParseTerm, AddCpu, Invalid, EndTerm, Give
    <2>3. CASE tmpCpus = <<>>
        <3>1. cpus' = <<-1>>
            BY <2>2, <2>3 DEF FinishMap, Give
        <3>2. QED
            BY <3>1 DEF Increasing
    <2>4. CASE tmpCpus # <<>>
        <3>1. cpus' = Sorted(ToSet(tmpCpus))
            BY <2>2, <2>4 DEF FinishMap, Give
        <3>2. tmpCpus \in Seq(Nat)
            BY DEF MapInv
        <3>3. ToSet(tmpCpus) \subseteq Nat /\ IsFiniteSet(ToSet(tmpCpus))
            BY <3>2, FinitelyManyElements
        <3>4. QED
            BY <3>1, <3>3, SortedIs
    <2>5. QED
        BY <2>3, <2>4
<1>4. ASSUME faults' = 0
      PROVE  /\ mapPc' = "term" => \E n \in 0..Len(OnlineRuns[listed]) : AtTerm(listed, n)'
             /\ mapPc' = "add" => \E n \in 1..Len(OnlineRuns[listed]) : InTerm(listed, n)'
             /\ mapPc' = "done" => cpus' \in Seq(Nat) /\ ToSet(cpus') = listed
    <2>1. faults = 0 /\ ~ Fails
        BY <1>4, FaultsCounted
    <2>2. listed \in Onlines
        BY <1>1, <2>1 DEF ListInv
    <2>3. PICK S \in Onlines : S = listed
        BY <2>2
    <2>4. listed' = S
        BY <1>1, <2>3
    <2>5. CASE mapPc = "term"
        <3>1. PICK n \in 0..Len(OnlineRuns[S]) : AtTerm(S, n)
            BY <1>1, <2>1, <2>3, <2>5 DEF ListInv
        <3>2. ParseTerm \/ FinishMap
            BY <1>1, <2>5 DEF MapStep, AddCpu, Invalid, EndTerm
        <3>3. CASE ParseTerm
            <4>1. n \in 1..Len(OnlineRuns[S]) /\ InTerm(S, n)' /\ mapPc' = "add"
                BY <2>3, <3>1, <3>3, TermTaken
            <4>2. InTerm(listed, n)'
                BY <2>4, <4>1 DEF InTerm
            <4>3. QED
                BY <2>3, <4>1, <4>2
        <3>4. CASE FinishMap
            BY <2>3, <3>1, <3>4, MapFinished
        <3>5. QED
            BY <3>2, <3>3, <3>4
    <2>6. CASE mapPc = "add"
        <3>1. PICK n \in 1..Len(OnlineRuns[S]) : InTerm(S, n)
            BY <1>1, <2>1, <2>3, <2>6 DEF ListInv
        <3>2. AddCpu \/ Invalid \/ EndTerm
            BY <1>1, <2>6 DEF MapStep, ParseTerm, FinishMap
        <3>3. ~ Invalid
            BY <2>1, <2>3, <3>1, NoneTwice
        <3>4. CASE AddCpu
            <4>1. InTerm(S, n)' /\ mapPc' = "add"
                BY <2>3, <3>1, <3>4, CpuTaken
            <4>2. InTerm(listed, n)'
                BY <2>4, <4>1 DEF InTerm
            <4>3. QED
                BY <2>3, <4>1, <4>2
        <3>5. CASE EndTerm
            <4>1. n - 1 \in 0..Len(OnlineRuns[S]) /\ AtTerm(S, n - 1)' /\ mapPc' = "term"
                BY <2>3, <3>1, <3>5, TermEnded
            <4>2. AtTerm(listed, n - 1)'
                BY <2>4, <4>1 DEF AtTerm
            <4>3. QED
                BY <2>3, <4>1, <4>2
        <3>6. QED
            BY <3>2, <3>3, <3>4, <3>5
    <2>7. QED
        BY <1>1, <2>5, <2>6
<1>5. MapIsOnlineList'
    BY <1>1, <1>3, <1>4, NullAssumption DEF MapIsOnlineList, Increasing
<1>6. (pc = "map" /\ faults = 0 =>
          /\ mapPc # "idle"
          /\ mapPc = "term" => \E n \in 0..Len(OnlineRuns[listed]) : AtTerm(listed, n)
          /\ mapPc = "add" => \E n \in 1..Len(OnlineRuns[listed]) : InTerm(listed, n)
          /\ mapPc = "done" => cpus \in Seq(Nat))'
    BY <1>1, <1>2, <1>4
<1>7. faults' = 0 => faults = 0
    BY FaultsCounted
<1>8. QED
    BY <1>1, <1>2, <1>5, <1>6, <1>7 DEF ListInv

LEMMA ListInvStep ==
    ASSUME IoInv, MapInv, CallInv, ListInv, [Next]_vars
    PROVE  ListInv'
<1> DEFINE Same == UNCHANGED <<ioVars, listed, mapPc, list, startCpu, endCpu, tmpCpus, cpus, faults>>
<1>1. CASE (\E c \in Cpus : Hotplug(c)) \/ MidrRead \/ MidrMissing \/ MidrAborts \/ NoneReadable \/ TakeMap
           \/ UNCHANGED vars
    <2>1. Same /\ (pc' = pc \/ pc' \notin {"list", "map"})
        BY <1>1 DEF Hotplug, MidrRead, MidrMissing, MidrAborts, NoneReadable, TakeMap, Return, vars, mapVars
    <2>2. QED
        BY <2>1, ListKept, FaultsCounted
<1>2. CASE NoBuffer \/ AskOne \/ CountCpus
    <2>1. UNCHANGED <<mapPc, tmpCpus>> /\ pc' \notin {"list", "map"}
        BY <1>2 DEF NoBuffer, AskOne, CountCpus, Return, mapVars
    <2>2. QED
        BY <2>1 DEF ListInv, MapIsOnlineList
<1>3. CASE AskAny
    <2>1. UNCHANGED <<mapPc, tmpCpus, ioPc>> /\ pc' = "list" /\ ioPc = "closed"
        BY <1>3 DEF AskAny, mapVars, ioVars, CallInv
    <2>2. QED
        BY <2>1 DEF ListInv, MapIsOnlineList
<1>4. QED
    BY <1>1, <1>2, <1>3, ReadListKeeps, ParseListKeeps, BuildMapKeeps DEF Next

LEMMA AnyInvStep ==
    ASSUME IoInv, MapInv, CallInv, ListInv, AnyInv, [Next]_vars
    PROVE  AnyInv'
<1>1. UNCHANGED cpu /\ always' \subseteq always /\ (faults' = 0 => faults = 0)
    BY FaultsCounted
<1>2. CASE (\E c \in Cpus : Hotplug(c)) \/ UNCHANGED vars
    <2>1. UNCHANGED <<pc, cpus, idx, cpuid>> /\ (Ended => UNCHANGED always)
        BY <1>2 DEF Hotplug, vars, hotplug, mapVars
    <2>2. QED
        BY <1>1, <2>1 DEF AnyInv, Ended
<1>3. CASE NoBuffer
    <2>1. faults' # 0
        BY <1>3, FaultsCounted DEF NoBuffer
    <2>2. QED
        BY <2>1 DEF AnyInv
<1>4. CASE AskOne
    BY <1>1, <1>4 DEF AskOne, AnyInv, Ended
<1>5. CASE AskAny \/ ReadList \/ ParseList \/ BuildMap
    <2>1. pc' \in {"list", "map"}
        BY <1>5 DEF AskAny, ReadList, ParseList, BuildMap
    <2>2. QED
        BY <2>1 DEF AnyInv, Ended
<1>6. CASE TakeMap
    <2>1. pc = "map" /\ pc' = "midr" /\ mapPc = "done" /\ UNCHANGED <<cpus, idx, always, faults>>
        BY <1>6 DEF TakeMap, mapVars, hotplug
    <2>2. idx = 1 /\ 1..(1 - 1) = {}
        BY <2>1 DEF CallInv
    <2>3. faults = 0 => cpus \in Seq(Nat) /\ always \subseteq ToSet(cpus)
        BY <2>1 DEF ListInv, MapIsOnlineList
    <2>4. QED
        BY <1>1, <2>1, <2>2, <2>3 DEF AnyInv, Ended
<1>7. CASE CountCpus
    <2>1. faults # 0 /\ pc' = "midr"
        BY <1>7 DEF CountCpus, ListInv, MapIsOnlineList
    <2>2. QED
        BY <1>1, <2>1 DEF AnyInv, Ended
<1>8. CASE MidrRead
    <2>1. pc' = "returned" /\ cpuid' = Midr[cpus[idx]] /\ cpus[idx] \in Cpus
        BY <1>8 DEF MidrRead, Return, CallInv
    <2>2. cpuid' # NoId
        BY <2>1, MidrAssumption
    <2>3. QED
        BY <2>1, <2>2 DEF AnyInv, Ended
<1>9. CASE MidrMissing
    <2>1. pc = "midr" /\ pc' = "midr" /\ idx' = idx + 1 /\ cpus[idx] \notin online /\ UNCHANGED <<cpus, always, faults>>
        BY <1>9 DEF MidrMissing, mapVars, hotplug
    <2>2. idx \in Nat /\ always \subseteq online
        BY <2>1 DEF CallInv, HasLength
    <2>3. \A i \in 1..(idx' - 1) : i \in 1..(idx - 1) \/ i = idx
        BY <2>1, <2>2
    <2>4. QED
        BY <1>1, <2>1, <2>2, <2>3 DEF AnyInv, Ended
<1>10. CASE MidrAborts
    <2>1. pc = "midr" /\ idx <= Len(cpus) /\ cpus[idx] = -1 /\ pc' = "aborted" /\ UNCHANGED faults
        BY <1>10 DEF MidrAborts
    <2>2. idx \in 1..Len(cpus)
        BY <2>1 DEF CallInv, HasLength
    <2>3. cpus \notin Seq(Nat)
        BY <2>1, <2>2
    <2>4. QED
        BY <1>1, <2>1, <2>3 DEF AnyInv, Ended
<1>11. CASE NoneReadable
    <2>1. pc = "midr" /\ pc' = "returned" /\ idx > Len(cpus) /\ UNCHANGED <<faults, always>>
        BY <1>11 DEF NoneReadable, Return, hotplug
    <2>2. idx \in Nat /\ Len(cpus) \in Nat
        BY <2>1 DEF CallInv, HasLength
    <2>3. cpu = -1 /\ faults = 0 => always = {}
        <3>1. SUFFICES ASSUME cpu = -1, faults = 0, NEW c \in always
                       PROVE  FALSE
            OBVIOUS
        <3>2. cpus \in Seq(Nat) /\ always \subseteq ToSet(cpus) /\ \A i \in 1..(idx - 1) : cpus[i] \notin always
            BY <2>1, <3>1 DEF AnyInv
        <3>3. PICK i \in 1..Len(cpus) : cpus[i] = c
            BY <3>1, <3>2 DEF ToSet
        <3>4. i \in 1..(idx - 1)
            BY <2>1, <2>2
        <3>5. QED
            BY <3>1, <3>2, <3>3, <3>4
    <2>4. QED
        BY <1>1, <2>1, <2>3 DEF AnyInv, Ended
<1>12. QED
    BY <1>2, <1>3, <1>4, <1>5, <1>6, <1>7, <1>8, <1>9, <1>10, <1>11 DEF Next

-----------------------------------------------------------------------------
(* What holds in every reachable state. *)

LEMMA IInvInit == Init => IInv
<1> SUFFICES ASSUME Init
             PROVE  IInv
    OBVIOUS
<1>1. <<>> \in Seq(Chars) /\ <<>> \in Seq(Nat) /\ Len(<<>>) = 0
    OBVIOUS
<1>2. IoInv
    BY <1>1, BuffersAssumption, FaultsAssumption DEF Init, IoInit, IoInv, IoTypeOK, NothingLost
<1>3. MapInv
    <2>1. IsInjective(<<>>)
        BY DEF IsInjective
    <2>2. QED
        BY <1>1, <2>1 DEF Init, MapInit, MapInv, MapTypeOK
<1>4. CallInv
    BY DEF Init, IoInit, MapInit, CallInv, Onlines
<1>5. AskedInv /\ HeapInv
    BY DEF Init, IoInit, AskedInv, IdentityIsAsked, Ended, HeapInv, OnlyIdKept
<1>6. ListInv /\ AnyInv
    BY DEF Init, IoInit, MapInit, ListInv, MapIsOnlineList, AnyInv, Ended
<1>7. QED
    BY <1>2, <1>3, <1>4, <1>5, <1>6 DEF IInv

LEMMA IInvStep == IInv /\ [Next]_vars => IInv'
<1> SUFFICES ASSUME IoInv, MapInv, CallInv, AskedInv, HeapInv, ListInv, AnyInv, [Next]_vars
             PROVE  IInv'
    BY DEF IInv
<1>1. IoInv'
    BY IoInvStep DEF CallInv
<1>2. MapInv'
    BY MapInvStep
<1>3. CallInv'
    BY <1>2, CallInvStep
<1>4. AskedInv'
    BY <1>3, AskedInvStep
<1>5. HeapInv'
    BY <1>3, HeapInvStep
<1>6. ListInv'
    BY ListInvStep
<1>7. AnyInv'
    BY AnyInvStep
<1>8. QED
    BY <1>1, <1>2, <1>3, <1>4, <1>5, <1>6, <1>7 DEF IInv

LEMMA Invariance == Spec => []IInv
BY IInvInit, IInvStep, PTL DEF Spec

(***************************************************************************)
(* Types: neither buffer of the reader is written behind its end, nor is   *)
(* the array of the parser, which holds no CPU twice, whichever CPUs are   *)
(* online and whichever call fails; the place in the map is in the map or  *)
(* one behind.                                                             *)
(***************************************************************************)
THEOREM TypeCorrect == Spec => []TypeOK
<1>1. IInv => TypeOK
    <2> SUFFICES ASSUME IoInv, MapInv, CallInv, AskedInv, HeapInv
                 PROVE  TypeOK
        BY DEF IInv
    <2>1. heap \subseteq {"id", "fd", "line", "tmp", "map"}
        BY DEF CallInv, HeapInv, OnlyIdKept, IoInv, IoTypeOK
    <2>2. cpuid \in {Midr[c] : c \in Cpus} \cup {NoId}
        BY DEF AskedInv, IdentityIsAsked, CallInv
    <2>3. QED
        BY <2>1, <2>2 DEF TypeOK, IoInv, MapInv, CallInv
<1>2. QED
    BY <1>1, Invariance, PTL

(***************************************************************************)
(* The reader: what it has given, what is in its two buffers and what the  *)
(* descriptor still holds are the file, whatever the sizes of the buffers  *)
(* and of the pieces read returns; the caller is handed a beginning of the *)
(* file, and all of it unless a call has failed.                           *)
(***************************************************************************)
THEOREM BytesNeverLost == Spec => []NothingLost
<1>1. IInv => NothingLost
    BY DEF IInv, IoInv
<1>2. QED
    BY <1>1, Invariance, PTL

(***************************************************************************)
(* Unless a call has failed, the map holds exactly the CPUs that were      *)
(* online when the file was opened, for every set of CPUs and however the  *)
(* kernel groups them in runs; and no map is ever out of order, even that  *)
(* of a list cut short.                                                    *)
(***************************************************************************)
THEOREM MapAlwaysOnlineList == Spec => []MapIsOnlineList
<1>1. IInv => MapIsOnlineList
    BY DEF IInv, ListInv
<1>2. QED
    BY <1>1, Invariance, PTL

(***************************************************************************)
(* If any CPU will do, an identity is found as long as one CPU stays       *)
(* online, and the call does not abort, unless a call has failed; and the  *)
(* identity is that of the CPU asked for, or of one that was online during *)
(* the call, and a CPU asked for is never missed while it stays online.    *)
(***************************************************************************)
THEOREM IdentityAlwaysFound == Spec => []IdentityFound
<1>1. IInv => IdentityFound
    BY DEF IInv, AskedInv, AnyInv, IdentityFound
<1>2. QED
    BY <1>1, Invariance, PTL

(***************************************************************************)
(* Every way out of get_cpuid_str, after any combination of failing calls, *)
(* leaves nothing but the string it returns.                               *)
(***************************************************************************)
THEOREM OnlyIdAlwaysKept == Spec => []OnlyIdKept
<1>1. IInv => OnlyIdKept
    BY DEF IInv, HeapInv
<1>2. QED
    BY <1>1, Invariance, PTL
=============================================================================
