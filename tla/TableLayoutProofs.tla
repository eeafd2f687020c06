------------------------- MODULE TableLayoutProofs -------------------------
(***************************************************************************)
(* Proofs about the layout of the tables: BigCString and TableLayout.      *)
(***************************************************************************)
EXTENDS TableLayout, FiniteSetTheorems, SequenceTheorems, WellFoundedInduction, TLAPS

-----------------------------------------------------------------------------
(* Numbers, sequences and recursion. *)

\* A set of natural numbers has a least one.
LEMMA LeastNumber ==
    ASSUME NEW S, S \subseteq Nat, S # {}
    PROVE  \E n \in S : \A m \in S : n <= m
<1>1. PICK n \in S : \A m \in S : ~ (<<m, n>> \in OpToRel(<, Nat))
    BY WFMin, NatLessThanWellFounded
<1>2. \A m \in S : m < n => <<m, n>> \in OpToRel(<, Nat)
    BY DEF OpToRel
<1>3. ASSUME NEW m \in S
      PROVE  n <= m
    <2>1. n \in Nat /\ m \in Nat /\ ~ (m < n)
        BY <1>1, <1>2
    <2>2. QED
        BY <2>1
<1>4. QED
    BY <1>3

\* What holds of a number if it holds of all smaller ones holds of all.
LEMMA Induction ==
    ASSUME NEW Good, \A n \in Nat : (\A m \in 0..(n - 1) : m \in Good) => n \in Good
    PROVE  \A n \in Nat : n \in Good
<1> DEFINE Bad == {n \in Nat : n \notin Good}
<1>1. ASSUME NEW n \in Bad, \A m \in Bad : n <= m
      PROVE  FALSE
    <2>1. \A m \in 0..(n - 1) : m \in Nat /\ ~ (n <= m)
        OBVIOUS
    <2>2. \A m \in 0..(n - 1) : m \in Good
        BY <1>1, <2>1
    <2>3. QED
        BY <2>2
<1>2. Bad = {}
    <2>1. Bad \subseteq Nat
        OBVIOUS
    <2> HIDE DEF Bad
    <2>2. QED
        BY <1>1, <2>1, LeastNumber
<1>3. QED
    BY <1>2

\* A set of natural numbers with a bound has a greatest one.
LEMMA GreatestNumber ==
    ASSUME NEW b \in Nat, NEW S, S \subseteq 0..b, S # {}
    PROVE  \E n \in S : \A m \in S : m <= n
<1> DEFINE T == {b - n : n \in S}
<1>1. T \subseteq Nat /\ T # {}
    <2>1. \A n \in S : b - n \in Nat
        OBVIOUS
    <2>2. QED
        BY <2>1
<1> HIDE DEF T
<1>2. PICK t \in T : \A u \in T : t <= u
    BY <1>1, LeastNumber
<1>3. PICK n \in S : t = b - n
    BY DEF T
<1>4. ASSUME NEW m \in S
      PROVE  m <= n
    <2>1. b - m \in T
        BY DEF T
    <2>2. b - n <= b - m
        BY <1>2, <1>3, <2>1
    <2>3. m \in 0..b /\ n \in 0..b
        OBVIOUS
    <2>4. QED
        BY <2>2, <2>3
<1>5. QED
    BY <1>4

\* The functions whose value at n is made from the value at an earlier number back[n] by
\* the function step[n].
Earlier(N) == {back \in [1..N -> Nat] : \A n \in 1..N : back[n] \in 0..(n - 1)}
Recursive(S, a, N, back, step) ==
    {f \in [0..N -> S] : f[0] = a /\ \A n \in 1..N : f[n] = step[n][f[back[n]]]}

\* Such a recursion defines a function.
LEMMA RecursionDefines ==
    ASSUME NEW S, NEW a \in S, NEW N \in Nat, NEW back \in Earlier(N), NEW step \in [1..N -> [S -> S]]
    PROVE  Recursive(S, a, N, back, step) # {}
<1> DEFINE Fits(f, n) == f[0] = a /\ \A k \in 1..n : f[k] = step[k][f[back[k]]]
           Good == {n \in Nat : n <= N => \E f \in [0..n -> S] : Fits(f, n)}
<1>1. \A n \in 1..N : back[n] \in 0..(n - 1) /\ step[n] \in [S -> S]
    BY DEF Earlier
<1>2. ASSUME NEW n \in Nat, \A m \in 0..(n - 1) : m \in Good
      PROVE  n \in Good
    <2>1. CASE n = 0
        <3> DEFINE f == [k \in 0..0 |-> a]
        <3>1. f \in [0..0 -> S] /\ Fits(f, 0)
            OBVIOUS
        <3>2. QED
            BY <2>1, <3>1
    <2>2. CASE n # 0 /\ n <= N
        <3>1. n - 1 \in 0..(n - 1) /\ n - 1 \in Nat /\ n - 1 <= N /\ n \in 1..N
            BY <2>2
        <3>2. PICK f \in [0..(n - 1) -> S] : Fits(f, n - 1)
            <4>1. n - 1 \in Good
                BY <1>2, <3>1
            <4>2. QED
                BY <3>1, <4>1
        <3> DEFINE g == [k \in 0..n |-> IF k = n THEN step[n][f[back[n]]] ELSE f[k]]
        <3>3. f[back[n]] \in S /\ step[n] \in [S -> S]
            BY <1>1, <3>1, <3>2
        <3>4. \A k \in 0..n : k # n => k \in 0..(n - 1)
            BY <3>1
        <3>5. g \in [0..n -> S]
            BY <3>2, <3>3, <3>4
        <3>6. g[0] = a
            BY <2>2, <3>2
        <3>7. ASSUME NEW k \in 1..n
              PROVE  g[k] = step[k][g[back[k]]]
            <4>1. back[k] \in 0..(k - 1) /\ k \in 0..n
                BY <1>1, <3>1
            <4>2. back[k] \in 0..n /\ back[k] # n
                BY <3>1, <4>1
            <4>3. g[back[k]] = f[back[k]]
                BY <4>2
            <4>4. CASE k = n
                BY <4>1, <4>3, <4>4
            <4>5. CASE k # n
                <5>1. k \in 1..(n - 1)
                    BY <3>1, <4>5
                <5>2. g[k] = f[k]
                    BY <4>1, <4>5
                <5>3. QED
                    BY <3>2, <4>3, <5>1, <5>2
            <4>6. QED
                BY <4>4, <4>5
        <3> HIDE DEF g
        <3>8. Fits(g, n)
            BY <3>6, <3>7
        <3>9. QED
            BY <3>5, <3>8
    <2>3. QED
        BY <2>1, <2>2
<1> HIDE DEF Good
<1>3. N \in Good
    BY <1>2, Induction
<1>4. PICK f \in [0..N -> S] : Fits(f, N)
    BY <1>3 DEF Good
<1>5. QED
    BY <1>4 DEF Recursive

-----------------------------------------------------------------------------
(* sorted(). *)

\* R orders the elements of S.
Orders(R, S) ==
    /\ \A x \in S : <<x, x>> \notin R
    /\ \A x, y, z \in S : <<x, y>> \in R /\ <<y, z>> \in R => <<x, z>> \in R
    /\ \A x, y \in S : x # y => <<x, y>> \in R \/ <<y, x>> \in R

Place(x, R, S) == Cardinality({y \in S : <<y, x>> \in R})

\* The place of an element counts the elements in front of it.
LEMMA PlacesRise ==
    ASSUME NEW S, IsFiniteSet(S), NEW R, Orders(R, S), NEW x \in S
    PROVE  /\ Place(x, R, S) \in Nat
           /\ Place(x, R, S) < Cardinality(S)
           /\ \A y \in S : <<x, y>> \in R => Place(x, R, S) < Place(y, R, S)
<1> DEFINE InFrontOf(z) == {y \in S : <<y, z>> \in R}
<1>1. \A z \in S : IsFiniteSet(InFrontOf(z)) /\ Place(z, R, S) = Cardinality(InFrontOf(z))
    <2>1. \A z \in S : InFrontOf(z) \subseteq S
        OBVIOUS
    <2>2. QED
        BY <2>1, FS_Subset DEF Place
<1>2. x \notin InFrontOf(x)
    BY DEF Orders
<1> HIDE DEF InFrontOf
<1>3. Cardinality(InFrontOf(x) \cup {x}) = Place(x, R, S) + 1 /\ Place(x, R, S) \in Nat
    <2>1. IsFiniteSet(InFrontOf(x)) /\ Place(x, R, S) = Cardinality(InFrontOf(x))
        BY <1>1
    <2>2. Cardinality(InFrontOf(x)) \in Nat
        BY <2>1, FS_CardinalityType
    <2>3. Cardinality(InFrontOf(x) \cup {x}) = Cardinality(InFrontOf(x)) + 1
        BY <1>2, <2>1, FS_AddElement
    <2>4. QED
        BY <2>1, <2>2, <2>3
<1>4. ASSUME NEW T, IsFiniteSet(T), InFrontOf(x) \cup {x} \subseteq T
      PROVE  Place(x, R, S) < Cardinality(T)
    <2>1. Cardinality(InFrontOf(x) \cup {x}) <= Cardinality(T) /\ Cardinality(T) \in Nat
        BY <1>4, FS_Subset, FS_CardinalityType
    <2>2. QED
        BY <1>3, <2>1
<1>5. Place(x, R, S) < Cardinality(S)
    BY <1>4 DEF InFrontOf
<1>6. ASSUME NEW y \in S, <<x, y>> \in R
      PROVE  Place(x, R, S) < Place(y, R, S)
    <2>1. InFrontOf(x) \cup {x} \subseteq InFrontOf(y)
        BY <1>6 DEF InFrontOf, Orders
    <2>2. QED
        BY <1>1, <1>4, <2>1
<1>7. QED
    BY <1>3, <1>5, <1>6

(***************************************************************************)
(* Ordered lists the elements of a finite set, each once, and in the order *)
(* of the pairs.                                                           *)
(***************************************************************************)
LEMMA OrderedIs ==
    ASSUME NEW S, IsFiniteSet(S), NEW R, Orders(R, S)
    PROVE  /\ Cardinality(S) \in Nat
           /\ Ordered(S, R) \in Seq(S)
           /\ Len(Ordered(S, R)) = Cardinality(S)
           /\ DOMAIN Ordered(S, R) = 1..Cardinality(S)
           /\ \A x \in S : \E k \in DOMAIN Ordered(S, R) : Ordered(S, R)[k] = x
           /\ \A k, l \in DOMAIN Ordered(S, R) :
                k < l <=> <<Ordered(S, R)[k], Ordered(S, R)[l]>> \in R
<1> DEFINE n == Cardinality(S)
           o == Ordered(S, R)
           P(x) == Place(x, R, S)
           place == [x \in S |-> P(x)]
<1>1. n \in Nat
    BY FS_CardinalityType
<1>2. \A x \in S : P(x) \in 0..(n - 1) /\ P(x) \in Nat
    <2> SUFFICES ASSUME NEW x \in S
                 PROVE  P(x) \in 0..(n - 1) /\ P(x) \in Nat
        OBVIOUS
    <2>1. P(x) \in Nat /\ P(x) < n
        BY PlacesRise
    <2> HIDE DEF P, n
    <2>2. QED
        BY <1>1, <2>1
<1>3. \A x, y \in S : <<x, y>> \in R => P(x) < P(y)
    BY PlacesRise
<1>4. \A x, y \in S : P(x) = P(y) => x = y
    <2> SUFFICES ASSUME NEW x \in S, NEW y \in S, P(x) = P(y), x # y
                 PROVE  FALSE
        OBVIOUS
    <2>1. <<x, y>> \in R \/ <<y, x>> \in R
        BY DEF Orders
    <2> HIDE DEF P, n
    <2>2. QED
        BY <1>2, <1>3, <2>1
<1>5. \A k \in 0..(n - 1) : \E x \in S : P(x) = k
    <2>1. place \in Injection(S, 0..(n - 1))
        <3> HIDE DEF P, n
        <3>1. place \in [S -> 0..(n - 1)]
            BY <1>2
        <3>2. QED
            BY <1>4, <3>1 DEF Injection, IsInjective
    <2>2. IsFiniteSet(0..(n - 1)) /\ Cardinality(0..(n - 1)) = n
        <3> HIDE DEF n
        <3>1. 0 \in Int /\ n - 1 \in Int /\ (IF 0 > n - 1 THEN 0 ELSE n - 1 - 0 + 1) = n
            BY <1>1
        <3>2. QED
            BY <3>1, FS_Interval
    <2> HIDE DEF place
    <2>3. place \in Surjection(S, 0..(n - 1))
        BY <2>1, <2>2, FS_Injection
    <2>4. QED
        BY <2>3 DEF Surjection, place
<1>6. DOMAIN o = 1..n /\ \A k \in 1..n : o[k] \in S /\ P(o[k]) = k - 1
    <2>1. \A k \in 1..n : o[k] = CHOOSE x \in S : P(x) = k - 1
        BY DEF Ordered, Place
    <2>2. DOMAIN o = 1..n
        BY DEF Ordered
    <2>3. \A k \in 1..n : k - 1 \in 0..(n - 1)
        <3> HIDE DEF n
        <3>1. QED
            BY <1>1
    <2> HIDE DEF o, P, n
    <2>4. ASSUME NEW k \in 1..n
          PROVE  o[k] \in S /\ P(o[k]) = k - 1
        <3>1. \E x \in S : P(x) = k - 1
            BY <1>5, <2>3
        <3>2. QED
            BY <2>1, <3>1
    <2>5. QED
        BY <2>2, <2>4
<1> HIDE DEF P
<1>7. o \in Seq(S) /\ Len(o) = n
    <2>1. o = [k \in DOMAIN o |-> o[k]]
        <3> DEFINE x(k) == CHOOSE x \in S : Cardinality({y \in S : <<y, x>> \in R}) = k - 1
        <3>1. o = [k \in 1..Cardinality(S) |-> x(k)]
            BY DEF Ordered
        <3> HIDE DEF x, o
        <3>2. QED
            BY <3>1
    <2> HIDE DEF n, o
    <2>2. o \in [1..n -> S]
        BY <1>6, <2>1
    <2>3. QED
        BY <1>1, <2>2
<1> HIDE DEF o, n
<1>8. \A x \in S : \E k \in 1..n : o[k] = x
    <2> SUFFICES ASSUME NEW x \in S
                 PROVE  \E k \in 1..n : o[k] = x
        OBVIOUS
    <2>1. PICK k \in 1..n : k - 1 = P(x)
        <3>1. PICK p \in 0..(n - 1) : p = P(x)
            BY <1>2
        <3>2. p + 1 \in 1..n /\ p + 1 - 1 = p
            BY <1>1
        <3>3. QED
            BY <3>1, <3>2
    <2>2. o[k] \in S /\ P(o[k]) = k - 1
        BY <1>6
    <2>3. QED
        BY <1>4, <2>1, <2>2
<1>9. \A k, l \in 1..n : k < l <=> <<o[k], o[l]>> \in R
    <2> SUFFICES ASSUME NEW k \in 1..n, NEW l \in 1..n
                 PROVE  k < l <=> <<o[k], o[l]>> \in R
        OBVIOUS
    <2>1. o[k] \in S /\ o[l] \in S /\ P(o[k]) = k - 1 /\ P(o[l]) = l - 1
        BY <1>6
    <2>2. <<o[k], o[l]>> \in R => k < l
        <3>1. <<o[k], o[l]>> \in R => k - 1 < l - 1
            BY <1>3, <2>1
        <3>2. QED
            BY <1>1, <3>1
    <2>3. <<o[l], o[k]>> \in R => l < k
        <3>1. <<o[l], o[k]>> \in R => l - 1 < k - 1
            BY <1>3, <2>1
        <3>2. QED
            BY <1>1, <3>1
    <2>4. k # l => o[k] # o[l]
        <3>1. o[k] = o[l] => k - 1 = l - 1
            BY <2>1
        <3>2. QED
            BY <1>1, <3>1
    <2>5. k < l => <<o[k], o[l]>> \in R
        <3>1. k < l => k # l /\ ~ (l < k)
            BY <1>1
        <3>2. QED
            BY <2>1, <2>3, <2>4, <3>1 DEF Orders
    <2>6. QED
        BY <2>2, <2>5
<1>10. QED
    BY <1>1, <1>6, <1>7, <1>8, <1>9 DEF o, n

-----------------------------------------------------------------------------
(* The order of strings. *)

\* The rank of the character at i, and 0 behind the end.
Code(s, i) == IF i \in 1..Len(s) THEN Rank(s[i]) ELSE 0

\* A character has one rank, above 0.
LEMMA RankIs ==
    ASSUME NEW c \in Range(Chars)
    PROVE  /\ Rank(c) \in Nat \ {0}
           /\ \A d \in Range(Chars) : Rank(c) = Rank(d) => c = d
<1>1. DOMAIN Chars = 1..Len(Chars) /\ Len(Chars) \in Nat
    BY CharsAssumption, LenProperties
<1>2. \A d \in Range(Chars) : \E i \in DOMAIN Chars : Chars[i] = d
    BY DEF Range
<1>3. \A d \in Range(Chars) : Rank(d) \in DOMAIN Chars /\ Chars[Rank(d)] = d
    BY <1>2 DEF Rank
<1>4. QED
    BY <1>1, <1>3

\* A string as its codes: it is what they are, and ends where they do.
LEMMA CodesOf ==
    ASSUME NEW s \in Texts
    PROVE  /\ Len(s) \in Nat
           /\ \A i \in 1..Len(s) : s[i] \in Range(Chars) /\ Code(s, i) = Rank(s[i])
           /\ \A i \in Nat : Code(s, i) \in Nat /\ (i # 0 => (Code(s, i) # 0 <=> i <= Len(s)))
<1>1. \A i \in 1..Len(s) : s[i] \in Range(Chars)
    BY DEF Texts
<1>2. Len(s) \in Nat
    BY DEF Texts
<1>3. \A i \in 1..Len(s) : Code(s, i) = Rank(s[i]) /\ Rank(s[i]) \in Nat \ {0}
    BY <1>1, RankIs DEF Code
<1>4. ASSUME NEW i \in Nat
      PROVE  Code(s, i) \in Nat /\ (i # 0 => (Code(s, i) # 0 <=> i <= Len(s)))
    <2>1. CASE i \in 1..Len(s)
        BY <1>2, <1>3, <2>1
    <2>2. CASE i \notin 1..Len(s)
        BY <1>2, <2>2 DEF Code
    <2>3. QED
        BY <2>1, <2>2
<1>5. QED
    BY <1>1, <1>2, <1>3, <1>4

\* One string is the beginning of another one as far as its own codes go.
LEMMA PrefixIs ==
    ASSUME NEW s \in Texts, NEW t \in Texts
    PROVE  /\ IsPrefix(s, t) <=> \A i \in 1..Len(s) : Code(s, i) = Code(t, i)
           /\ IsPrefix(s, t) <=> Len(s) <= Len(t) /\ \A i \in 1..Len(s) : s[i] = t[i]
<1>1. Len(s) \in Nat /\ Len(t) \in Nat
    BY CodesOf
<1>2. IsPrefix(s, t) <=> Len(s) <= Len(t) /\ \A i \in 1..Len(s) : s[i] = t[i]
    BY DEF IsPrefix, Texts
<1>3. ASSUME Len(s) <= Len(t), \A i \in 1..Len(s) : s[i] = t[i], NEW i \in 1..Len(s)
      PROVE  Code(s, i) = Code(t, i)
    <2>1. i \in 1..Len(t)
        BY <1>1, <1>3
    <2>2. QED
        BY <1>3, <2>1, CodesOf
<1>4. ASSUME \A i \in 1..Len(s) : Code(s, i) = Code(t, i)
      PROVE  Len(s) <= Len(t) /\ \A i \in 1..Len(s) : s[i] = t[i]
    <2>1. \A i \in 1..Len(s) : i \in 1..Len(t)
        <3> SUFFICES ASSUME NEW i \in 1..Len(s)
                     PROVE  i \in 1..Len(t)
            OBVIOUS
        <3>1. i \in Nat /\ i # 0 /\ i <= Len(s)
            BY <1>1
        <3>2. Code(t, i) # 0
            BY <1>4, <3>1, CodesOf
        <3>3. QED
            BY <1>1, <3>1, <3>2, CodesOf
    <2>2. ASSUME NEW i \in 1..Len(s)
          PROVE  s[i] = t[i]
        <3>1. Rank(s[i]) = Rank(t[i]) /\ s[i] \in Range(Chars) /\ t[i] \in Range(Chars)
            BY <1>4, <2>1, CodesOf
        <3>2. QED
            BY <3>1, RankIs
    <2>3. Len(s) <= Len(t)
        <3>1. CASE Len(s) = 0
            BY <1>1, <3>1
        <3>2. CASE Len(s) # 0
            <4>1. Len(s) \in 1..Len(s)
                BY <1>1, <3>2
            <4>2. QED
                BY <1>1, <2>1, <4>1
        <3>3. QED
            BY <3>1, <3>2
    <2>4. QED
        BY <2>2, <2>3
<1>5. QED
    BY <1>2, <1>3, <1>4

\* Strings with the same codes are the same.
LEMMA SameCodes ==
    ASSUME NEW s \in Texts, NEW t \in Texts, \A i \in Nat \ {0} : Code(s, i) = Code(t, i)
    PROVE  s = t
<1>1. Len(s) \in Nat /\ Len(t) \in Nat
    BY CodesOf
<1>2. IsPrefix(s, t) /\ IsPrefix(t, s)
    <2>1. \A i \in 1..Len(s) : i \in Nat \ {0}
        BY <1>1
    <2>2. \A i \in 1..Len(t) : i \in Nat \ {0}
        BY <1>1
    <2>3. QED
        BY <2>1, <2>2, PrefixIs
<1>3. Len(s) = Len(t) /\ \A i \in 1..Len(s) : s[i] = t[i]
    BY <1>1, <1>2, PrefixIs
<1>4. QED
    BY <1>3 DEF Texts

\* The codes below i are those of the other string.
SameBelow(s, t, i) == \A j \in 1..(i - 1) : Code(s, j) = Code(t, j)

\* The order of strings is that of their first different codes.
LEMMA LessIs ==
    ASSUME NEW s \in Texts, NEW t \in Texts
    PROVE  Less(s, t) <=> \E i \in Nat \ {0} : Code(s, i) < Code(t, i) /\ SameBelow(s, t, i)
<1>1. Len(s) \in Nat /\ Len(t) \in Nat /\ DOMAIN s = 1..Len(s) /\ DOMAIN t = 1..Len(t)
    BY CodesOf DEF Texts
<1>2. ASSUME IsStrictPrefix(s, t)
      PROVE  \E i \in Nat \ {0} : Code(s, i) < Code(t, i) /\ SameBelow(s, t, i)
    <2>1. \A i \in 1..Len(s) : Code(s, i) = Code(t, i) /\ s[i] = t[i]
        BY <1>2, PrefixIs DEF IsStrictPrefix
    <2>2. Len(s) # Len(t)
        BY <1>2, <2>1 DEF IsStrictPrefix, Texts
    <2>3. Len(s) < Len(t)
        <3>1. Len(s) <= Len(t)
            BY <1>2, PrefixIs DEF IsStrictPrefix
        <3>2. Len(s) \in Nat /\ Len(t) \in Nat
            BY <1>1
        <3>3. QED
            BY <2>2, <3>1, <3>2
    <2> DEFINE i == Len(s) + 1
    <2>4. i \in Nat \ {0} /\ i <= Len(t) /\ ~ (i <= Len(s)) /\ i - 1 = Len(s)
        BY <1>1, <2>3
    <2>5. SameBelow(s, t, i)
        BY <2>1, <2>4 DEF SameBelow
    <2> HIDE DEF i
    <2>6. Code(s, i) = 0 /\ Code(t, i) \in Nat /\ Code(t, i) # 0
        BY <2>4, CodesOf
    <2>7. Code(s, i) < Code(t, i)
        BY <2>6
    <2>8. QED
        BY <2>4, <2>5, <2>7
<1>3. ASSUME NEW i \in 1..Len(s), i \in 1..Len(t), SubSeq(s, 1, i - 1) = SubSeq(t, 1, i - 1),
             Rank(s[i]) < Rank(t[i])
      PROVE  \E k \in Nat \ {0} : Code(s, k) < Code(t, k) /\ SameBelow(s, t, k)
    <2>1. i \in Nat \ {0}
        BY <1>1
    <2>2. Code(s, i) < Code(t, i)
        BY <1>3, CodesOf
    <2>3. SameBelow(s, t, i)
        <3> SUFFICES ASSUME NEW j \in 1..(i - 1)
                     PROVE  Code(s, j) = Code(t, j)
            BY DEF SameBelow
        <3>1. j \in 1..Len(s) /\ j \in 1..Len(t)
            BY <1>1, <1>3
        <3>2. s[j] = SubSeq(s, 1, i - 1)[j] /\ t[j] = SubSeq(t, 1, i - 1)[j]
            BY <1>1, <1>3, <3>1 DEF Texts
        <3>3. QED
            BY <1>3, <3>1, <3>2, CodesOf
    <2>4. QED
        BY <2>1, <2>2, <2>3
<1>4. ASSUME NEW i \in Nat \ {0}, Code(s, i) < Code(t, i), SameBelow(s, t, i)
      PROVE  Less(s, t)
    <2>1. i \in 1..Len(t)
        <3>1. Code(t, i) # 0
            BY <1>4, CodesOf
        <3>2. QED
            BY <1>1, <3>1, CodesOf
    <2>2. CASE i <= Len(s)
        <3>1. i \in 1..Len(s)
            BY <1>1, <2>2
        <3>2. Rank(s[i]) < Rank(t[i])
            BY <1>4, <2>1, <3>1, CodesOf
        <3>3. \A j \in 1..(i - 1) : s[j] = t[j]
            <4> SUFFICES ASSUME NEW j \in 1..(i - 1)
                         PROVE  s[j] = t[j]
                OBVIOUS
            <4>1. j \in 1..Len(s) /\ j \in 1..Len(t)
                BY <1>1, <2>1, <3>1
            <4>2. Rank(s[j]) = Rank(t[j]) /\ s[j] \in Range(Chars) /\ t[j] \in Range(Chars)
                BY <1>4, <4>1, CodesOf DEF SameBelow
            <4>3. QED
                BY <4>2, RankIs
        <3>4. SubSeq(s, 1, i - 1) = SubSeq(t, 1, i - 1)
            BY <1>1, <2>1, <3>1, <3>3 DEF Texts
        <3>5. QED
            BY <1>1, <2>1, <3>1, <3>2, <3>4 DEF Less
    <2>3. CASE ~ (i <= Len(s))
        <3>1. \A j \in 1..Len(s) : Code(s, j) = Code(t, j)
            <4>1. \A j \in 1..Len(s) : j \in 1..(i - 1)
                BY <1>1, <2>3
            <4>2. QED
                BY <1>4, <4>1 DEF SameBelow
        <3>2. IsPrefix(s, t)
            BY <3>1, PrefixIs
        <3>3. Len(s) < Len(t)
            <4>1. Len(s) \in Nat /\ Len(t) \in Nat
                BY <1>1
            <4>2. QED
                BY <2>1, <2>3, <4>1
        <3>4. s # t
            BY <1>1, <3>3
        <3>5. QED
            BY <3>2, <3>4 DEF Less, IsStrictPrefix
    <2>4. QED
        BY <2>2, <2>3
<1>5. QED
    <2>1. ASSUME Less(s, t)
          PROVE  \E i \in Nat \ {0} : Code(s, i) < Code(t, i) /\ SameBelow(s, t, i)
        <3>1. CASE IsStrictPrefix(s, t)
            BY <1>2, <3>1
        <3>2. CASE ~ IsStrictPrefix(s, t)
            <4>1. PICK i \in DOMAIN s \cap DOMAIN t : SubSeq(s, 1, i - 1) = SubSeq(t, 1, i - 1)
                                                    /\ Rank(s[i]) < Rank(t[i])
                BY <2>1, <3>2 DEF Less
            <4>2. QED
                BY <1>1, <1>3, <4>1
        <3>3. QED
            BY <3>1, <3>2
    <2>2. QED
        BY <1>4, <2>1

\* The order of strings is a total order.
LEMMA LessIsStrict ==
    ASSUME NEW s \in Texts
    PROVE  /\ ~ Less(s, s)
           /\ \A t, u \in Texts : Less(s, t) /\ Less(t, u) => Less(s, u)
<1>1. ~ Less(s, s)
    <2> SUFFICES ASSUME NEW i \in Nat \ {0}, Code(s, i) < Code(s, i)
                 PROVE  FALSE
        BY LessIs
    <2>1. Code(s, i) \in Nat
        BY CodesOf
    <2>2. QED
        BY <2>1
<1>2. ASSUME NEW t \in Texts, NEW u \in Texts, Less(s, t), Less(t, u)
      PROVE  Less(s, u)
    <2>1. PICK p \in Nat \ {0} : Code(s, p) < Code(t, p) /\ SameBelow(s, t, p)
        BY <1>2, LessIs
    <2>2. PICK q \in Nat \ {0} : Code(t, q) < Code(u, q) /\ SameBelow(t, u, q)
        BY <1>2, LessIs
    <2>3. \A i \in Nat : Code(s, i) \in Nat /\ Code(t, i) \in Nat /\ Code(u, i) \in Nat
        BY CodesOf
    <2> DEFINE least == IF p < q THEN p ELSE q
    <2>4. least \in Nat \ {0} /\ least <= p /\ least <= q
        OBVIOUS
    <2>5. SameBelow(s, u, least)
        <3> HIDE DEF least
        <3>1. \A j \in 1..(least - 1) : j \in 1..(p - 1) /\ j \in 1..(q - 1)
            BY <2>4
        <3>2. QED
            BY <2>1, <2>2, <3>1 DEF SameBelow
    <2>6. Code(s, least) < Code(u, least)
        <3>1. CASE p < q
            <4>1. p \in 1..(q - 1) /\ least = p
                BY <3>1
            <4>2. Code(t, p) = Code(u, p)
                BY <2>2, <4>1 DEF SameBelow
            <4>3. QED
                BY <2>1, <4>1, <4>2
        <3>2. CASE q < p
            <4>1. q \in 1..(p - 1) /\ least = q
                BY <3>2
            <4>2. Code(s, q) = Code(t, q)
                BY <2>1, <4>1 DEF SameBelow
            <4>3. QED
                BY <2>2, <4>1, <4>2
        <3>3. CASE p = q
            <4>1. least = p
                BY <3>3
            <4>2. Code(s, p) \in Nat /\ Code(t, p) \in Nat /\ Code(u, p) \in Nat
                BY <2>3
            <4> HIDE DEF least
            <4>3. QED
                BY <2>1, <2>2, <3>3, <4>1, <4>2
        <3>4. QED
            BY <3>1, <3>2, <3>3
    <2> HIDE DEF least
    <2>7. QED
        BY <2>4, <2>5, <2>6, LessIs
<1>3. QED
    BY <1>1, <1>2

LEMMA LessIsTotal ==
    ASSUME NEW s \in Texts, NEW t \in Texts, s # t
    PROVE  Less(s, t) \/ Less(t, s)
<1> DEFINE Differ == {i \in Nat \ {0} : Code(s, i) # Code(t, i)}
<1>1. Differ # {} /\ Differ \subseteq Nat
    BY SameCodes
<1> HIDE DEF Differ
<1>2. PICK i \in Differ : \A j \in Differ : i <= j
    BY <1>1, LeastNumber
<1>3. i \in Nat \ {0} /\ Code(s, i) # Code(t, i)
    BY DEF Differ
<1>4. SameBelow(s, t, i) /\ SameBelow(t, s, i)
    <2>1. ASSUME NEW j \in 1..(i - 1)
          PROVE  Code(s, j) = Code(t, j)
        <3>1. j \in Nat \ {0} /\ ~ (i <= j)
            BY <1>3
        <3>2. j \notin Differ
            BY <1>2, <3>1
        <3>3. QED
            BY <3>1, <3>2 DEF Differ
    <2>2. QED
        BY <2>1 DEF SameBelow
<1>5. Code(s, i) \in Nat /\ Code(t, i) \in Nat
    BY <1>3, CodesOf
<1>6. Code(s, i) < Code(t, i) \/ Code(t, i) < Code(s, i)
    BY <1>3, <1>5
<1>7. QED
    BY <1>3, <1>4, <1>6, LessIs

(***************************************************************************)
(* What lies between a string and one that begins with it begins with it,  *)
(* too: folding may stop at the first string that does not.                *)
(***************************************************************************)
LEMMA BetweenPrefixes ==
    ASSUME NEW s \in Texts, NEW t \in Texts, NEW u \in Texts, IsPrefix(s, u), Less(s, t), ~ Less(u, t)
    PROVE  IsPrefix(s, t)
<1>1. PICK i \in Nat \ {0} : Code(s, i) < Code(t, i) /\ SameBelow(s, t, i)
    BY LessIs
<1>2. Len(s) \in Nat
    BY CodesOf
<1>3. CASE i <= Len(s)
    <2>1. \A j \in 1..Len(s) : Code(s, j) = Code(u, j)
        BY PrefixIs
    <2>2. i \in 1..Len(s) /\ \A j \in 1..(i - 1) : j \in 1..Len(s)
        BY <1>2, <1>3
    <2>3. Code(u, i) < Code(t, i) /\ SameBelow(u, t, i)
        BY <1>1, <2>1, <2>2 DEF SameBelow
    <2>4. Less(u, t)
        BY <2>3, LessIs
    <2>5. QED
        BY <2>4
<1>4. CASE ~ (i <= Len(s))
    <2>1. \A j \in 1..Len(s) : j \in 1..(i - 1)
        BY <1>2, <1>4
    <2>2. QED
        BY <1>1, <2>1, PrefixIs DEF SameBelow
<1>5. QED
    BY <1>3, <1>4

\* A string comes before every longer one that begins with it.
LEMMA PrefixIsLess ==
    ASSUME NEW s \in Texts, NEW t \in Texts, IsPrefix(s, t), s # t
    PROVE  Less(s, t)
BY DEF Less, IsStrictPrefix

-----------------------------------------------------------------------------
(* The strings that are added. *)

\* The values of a recursion stay in a set that its steps do not leave.
LEMMA RecursionStays ==
    ASSUME NEW S, NEW N \in Nat, NEW back \in Earlier(N),
           NEW f, f[0] \in S, \A n \in 1..N : f[back[n]] \in S => f[n] \in S
    PROVE  \A n \in 0..N : f[n] \in S
<1> DEFINE Good == {n \in Nat : n <= N => f[n] \in S}
<1>1. ASSUME NEW n \in Nat, \A m \in 0..(n - 1) : m \in Good
      PROVE  n \in Good
    <2>1. CASE n = 0
        BY <2>1
    <2>2. CASE n # 0 /\ n <= N
        <3>1. n \in 1..N
            BY <2>2
        <3>2. back[n] \in 0..(n - 1) /\ back[n] \in Nat /\ back[n] <= N
            BY <3>1 DEF Earlier
        <3>3. f[back[n]] \in S
            BY <1>1, <3>2
        <3>4. QED
            BY <3>1, <3>3
    <2>3. QED
        BY <2>1, <2>2
<1> HIDE DEF Good
<1>2. \A n \in Nat : n \in Good
    BY <1>1, Induction
<1>3. QED
    BY <1>2 DEF Good

\* What stands behind each other in a source.
LEMMA TextParts ==
    /\ <<>> \in Texts /\ NulEscape \in Texts /\ Len(NulEscape) = 4
    /\ <<"0">> \in Texts /\ <<"1">> \in Texts /\ <<"_">> \in Texts /\ <<Backslash, Backslash>> \in Texts
    /\ \A s, t \in Texts : s \o t \in Texts
    /\ \A c \in Range(Chars) : <<c>> \in Texts /\ <<c, c>> \in Texts
<1>1. Backslash \in Range(Chars) /\ "0" \in Range(Chars) /\ "1" \in Range(Chars) /\ "_" \in Range(Chars)
    BY CharsAssumption
<1>2. ASSUME NEW R, NEW a \in R, NEW b \in R
      PROVE  <<a>> \in Seq(R) /\ <<a, a>> \in Seq(R) /\ <<a, b, b, b>> \in Seq(R) /\ <<>> \in Seq(R)
    OBVIOUS
<1>3. ASSUME NEW a, NEW b
      PROVE  Len(<<a, b, b, b>>) = 4
    OBVIOUS
<1>4. NulEscape \in Texts /\ Len(NulEscape) = 4
    BY <1>1, <1>2, <1>3 DEF Texts, NulEscape
<1>5. \A c \in Range(Chars) : <<c>> \in Texts /\ <<c, c>> \in Texts
    BY <1>2 DEF Texts
<1>6. <<>> \in Texts
    BY <1>1, <1>2 DEF Texts
<1>7. ASSUME NEW s \in Texts, NEW t \in Texts
      PROVE  s \o t \in Texts
    BY DEF Texts
<1>8. QED
    BY <1>1, <1>4, <1>5, <1>6, <1>7

\* The doubled text is built character by character.
LEMMA DoubledIsText ==
    ASSUME NEW text \in Texts
    PROVE  Doubled(text) \in Texts
<1> DEFINE N == Len(text)
           Piece(n) == IF text[n] = Backslash THEN <<Backslash, Backslash>> ELSE <<text[n]>>
           Fits(f) == f = [n \in 0..N |-> IF n = 0 THEN <<>> ELSE f[n - 1] \o Piece(n)]
           back == [n \in 1..N |-> n - 1]
           step == [n \in 1..N |-> [x \in Texts |-> x \o Piece(n)]]
<1>1. N \in Nat /\ \A n \in 1..N : Piece(n) \in Texts
    <2>1. N \in Nat /\ \A n \in 1..N : text[n] \in Range(Chars)
        BY DEF Texts
    <2>2. ASSUME NEW n \in 1..N
          PROVE  Piece(n) \in Texts
        <3>1. CASE text[n] = Backslash
            BY <3>1, TextParts
        <3>2. CASE text[n] # Backslash
            BY <2>1, <3>2, TextParts
        <3>3. QED
            BY <3>1, <3>2
    <2>3. QED
        BY <2>1, <2>2
<1> HIDE DEF Piece
<1>2. back \in Earlier(N) /\ \A n \in 1..N : back[n] = n - 1
    BY <1>1 DEF Earlier
<1>3. step \in [1..N -> [Texts -> Texts]]
    BY <1>1, TextParts
<1>4. \E f : Fits(f)
    <2> HIDE DEF N, back
    <2>1. PICK f \in [0..N -> Texts] : f[0] = <<>> /\ \A n \in 1..N : f[n] = step[n][f[back[n]]]
        <3> HIDE DEF step
        <3>1. Recursive(Texts, <<>>, N, back, step) # {}
            BY <1>1, <1>2, <1>3, TextParts, RecursionDefines
        <3>2. QED
            BY <3>1 DEF Recursive
    <2>2. ASSUME NEW n \in 1..N
          PROVE  f[n] = f[n - 1] \o Piece(n)
        <3>1. n - 1 \in 0..N
            BY <1>1
        <3>2. QED
            BY <1>2, <2>1, <3>1
    <2>3. \A n \in 0..N : n # 0 => n \in 1..N
        BY <1>1
    <2>4. Fits(f)
        BY <2>1, <2>2, <2>3
    <2>5. QED
        BY <2>4
<1> DEFINE first == CHOOSE f : Fits(f)
<1>5. Fits(first)
    BY <1>4
<1>6. Doubled(text) = first[N]
    BY DEF Doubled, Piece
<1> HIDE DEF first
<1>7. first[0] = <<>> /\ \A n \in 1..N : first[n] = first[n - 1] \o Piece(n)
    <2>1. 0 \in 0..N /\ \A n \in 1..N : n \in 0..N /\ n # 0
        BY <1>1
    <2> HIDE DEF N
    <2>2. QED
        BY <1>5, <2>1
<1>8. \A n \in 0..N : first[n] \in Texts
    <2>1. first[0] \in Texts /\ \A n \in 1..N : first[back[n]] \in Texts => first[n] \in Texts
        <3>1. first[0] \in Texts
            BY <1>7, TextParts
        <3>2. ASSUME NEW n \in 1..N, first[back[n]] \in Texts
              PROVE  first[n] \in Texts
            <4>1. first[n - 1] \in Texts
                BY <1>2, <3>2
            <4>2. Piece(n) \in Texts /\ first[n] = first[n - 1] \o Piece(n)
                BY <1>1, <1>7
            <4> HIDE DEF Piece
            <4>3. QED
                BY <4>1, <4>2, TextParts
        <3>3. QED
            BY <3>1, <3>2
    <2> HIDE DEF back, N
    <2>2. QED
        BY <1>1, <1>2, <2>1, RecursionStays
<1>9. QED
    BY <1>1, <1>6, <1>8

\* The parts of an entry.
LEMMA EntryParts ==
    ASSUME NEW e \in Entries, NEW metric \in BOOLEAN
    PROVE  /\ e["pmu"] \in Texts /\ e["pmu"] # <<>>
           /\ e["name"] \in Texts /\ e["metric_name"] \in Texts /\ e["desc"] \in Texts
           /\ PmuString(e["pmu"]) \in Texts
           /\ Attributes(metric) \in Seq(Fields) /\ Len(Attributes(metric)) \in Nat
           /\ Len(Attributes(metric)) # 0
           /\ \A n \in 1..Len(Attributes(metric)) :
                /\ Attributes(metric)[n] \in Fields
                /\ e[Attributes(metric)[n]] \in Texts
                /\ Source(e, Attributes(metric)[n], metric) \in Texts
                /\ Field(e, Attributes(metric)[n], metric) \in Texts
<1>1. Attributes(metric) \in Seq(Fields) /\ Attributes(metric) # <<>>
    BY AttributesAssumption DEF Attributes
<1>2. Len(Attributes(metric)) \in Nat /\ Len(Attributes(metric)) # 0
    BY <1>1, EmptySeq, LenProperties
<1>3. "pmu" \in Fields /\ "name" \in Fields /\ "metric_name" \in Fields /\ "desc" \in Fields
    <2>1. 1 \in DOMAIN EventAttributes /\ 1 \in DOMAIN MetricAttributes
        BY AttributesAssumption, EmptySeq, LenProperties
    <2>2. "name" \in Range(EventAttributes) /\ "metric_name" \in Range(MetricAttributes)
        BY <2>1, AttributesAssumption DEF Range
    <2>3. QED
        BY <2>2 DEF Fields
<1>4. \A field \in Fields : e[field] \in Texts
    BY EntriesAssumption
<1>5. PmuString(e["pmu"]) \in Texts
    BY <1>3, <1>4, TextParts DEF PmuString
<1>6. ASSUME NEW n \in 1..Len(Attributes(metric))
      PROVE  /\ Attributes(metric)[n] \in Fields
             /\ e[Attributes(metric)[n]] \in Texts
             /\ Source(e, Attributes(metric)[n], metric) \in Texts
             /\ Field(e, Attributes(metric)[n], metric) \in Texts
    <2>1. Attributes(metric)[n] \in Fields
        BY <1>1, ElementOfSeq
    <2>2. e[Attributes(metric)[n]] \in Texts
        BY <1>4, <2>1
    <2>3. Source(e, Attributes(metric)[n], metric) \in Texts
        BY <2>2, DoubledIsText DEF Source
    <2>4. Field(e, Attributes(metric)[n], metric) \in Texts
        BY <2>2, <2>3, TextParts DEF Field
    <2>5. QED
        BY <2>1, <2>2, <2>3, <2>4
<1>7. QED
    BY <1>1, <1>2, <1>3, <1>4, <1>5, <1>6, EntriesAssumption

\* The string of an entry is built field by field.
LEMMA BuildIs ==
    ASSUME NEW e \in Entries, NEW metric \in BOOLEAN
    PROVE  \E first \in [0..Len(Attributes(metric)) -> Texts] :
                /\ build_c_string(e, metric) = first[Len(Attributes(metric))]
                /\ first[0] = <<>>
                /\ \A n \in 1..Len(Attributes(metric)) :
                        first[n] = first[n - 1] \o Field(e, Attributes(metric)[n], metric)
<1> DEFINE N == Len(Attributes(metric))
           Piece(n) == Field(e, Attributes(metric)[n], metric)
           Fits(f) == f = [n \in 0..N |-> IF n = 0 THEN <<>> ELSE f[n - 1] \o Piece(n)]
           back == [n \in 1..N |-> n - 1]
           step == [n \in 1..N |-> [x \in Texts |-> x \o Piece(n)]]
<1>1. N \in Nat /\ \A n \in 1..N : Piece(n) \in Texts
    BY EntryParts
<1> DEFINE first == CHOOSE f : Fits(f)
<1>2. build_c_string(e, metric) = first[N]
    BY DEF build_c_string
<1> HIDE DEF Piece, N, first
<1>3. back \in Earlier(N) /\ \A n \in 1..N : back[n] = n - 1
    BY <1>1 DEF Earlier
<1>4. step \in [1..N -> [Texts -> Texts]]
    BY <1>1, TextParts
<1>5. \E f : Fits(f)
    <2> HIDE DEF back
    <2>1. PICK f \in [0..N -> Texts] : f[0] = <<>> /\ \A n \in 1..N : f[n] = step[n][f[back[n]]]
        <3> HIDE DEF step
        <3>1. Recursive(Texts, <<>>, N, back, step) # {}
            BY <1>1, <1>3, <1>4, TextParts, RecursionDefines
        <3>2. QED
            BY <3>1 DEF Recursive
    <2>2. ASSUME NEW n \in 1..N
          PROVE  f[n] = f[n - 1] \o Piece(n)
        <3>1. n - 1 \in 0..N
            BY <1>1
        <3>2. QED
            BY <1>3, <2>1, <3>1
    <2>3. \A n \in 0..N : n # 0 => n \in 1..N
        BY <1>1
    <2>4. Fits(f)
        BY <2>1, <2>2, <2>3
    <2>5. QED
        BY <2>4
<1>6. Fits(first)
    BY <1>5 DEF first
<1>7. first[0] = <<>> /\ \A n \in 1..N : first[n] = first[n - 1] \o Piece(n)
    <2>1. 0 \in 0..N /\ \A n \in 1..N : n \in 0..N /\ n # 0
        BY <1>1
    <2>2. QED
        BY <1>6, <2>1
<1>8. \A n \in 0..N : first[n] \in Texts
    <2>1. first[0] \in Texts /\ \A n \in 1..N : first[back[n]] \in Texts => first[n] \in Texts
        <3>1. first[0] \in Texts
            BY <1>7, TextParts
        <3>2. ASSUME NEW n \in 1..N, first[back[n]] \in Texts
              PROVE  first[n] \in Texts
            <4>1. first[n - 1] \in Texts
                BY <1>3, <3>2
            <4>2. Piece(n) \in Texts /\ first[n] = first[n - 1] \o Piece(n)
                BY <1>1, <1>7
            <4> HIDE DEF Piece
            <4>3. QED
                BY <4>1, <4>2, TextParts
        <3>3. QED
            BY <3>1, <3>2
    <2> HIDE DEF back
    <2>2. QED
        BY <1>1, <1>3, <2>1, RecursionStays
<1>9. first \in [0..N -> Texts]
    BY <1>6, <1>8
<1>10. QED
    BY <1>2, <1>7, <1>9 DEF N, Piece

LEMMA BuildIsText ==
    ASSUME NEW e \in Entries, NEW metric \in BOOLEAN
    PROVE  build_c_string(e, metric) \in Texts
<1> DEFINE N == Len(Attributes(metric))
<1>1. N \in Nat /\ N \in 0..N
    BY EntryParts
<1>2. PICK first \in [0..N -> Texts] : build_c_string(e, metric) = first[N]
    BY BuildIs
<1>3. QED
    BY <1>1, <1>2

\* The strings that an entry adds.
LEMMA NewStrings ==
    ASSUME NEW e \in Entries, NEW metric \in BOOLEAN
    PROVE  /\ StringsOf(e, metric) \in Seq(Texts)
           /\ Range(StringsOf(e, metric)) = {PmuString(e["pmu"]), build_c_string(e, metric)}
<1>1. PmuString(e["pmu"]) \in Texts /\ build_c_string(e, metric) \in Texts
    BY EntryParts, BuildIsText
<1>2. ASSUME NEW T, NEW a \in T, NEW b \in T
      PROVE  <<a, b>> \in Seq(T) /\ Range(<<a, b>>) = {a, b}
    <2>1. <<a, b>> \in Seq(T) /\ DOMAIN <<a, b>> = 1..2 /\ <<a, b>>[1] = a /\ <<a, b>>[2] = b
        OBVIOUS
    <2>2. QED
        BY <2>1 DEF Range
<1>3. QED
    BY <1>1, <1>2 DEF StringsOf

\* add() keeps the strings that are there and adds each of the new ones.
LEMMA AddedIs ==
    ASSUME strings \in Seq(Texts), NEW new \in Seq(Texts)
    PROVE  Added(new) \in Seq(Texts) /\ Range(Added(new)) = Range(strings) \cup Range(new)
<1> DEFINE N == Len(new)
           S == Seq(Texts)
           Next1(l, x) == IF Contains(l, x) THEN l ELSE Append(l, x)
           Fits(f) == f = [n \in 0..N |-> IF n = 0 THEN strings ELSE Next1(f[n - 1], new[n])]
           back == [n \in 1..N |-> n - 1]
           step == [n \in 1..N |-> [l \in S |-> Next1(l, new[n])]]
<1> DEFINE list == CHOOSE f : Fits(f)
<1>1. N \in Nat /\ N \in 0..N /\ \A n \in 1..N : new[n] \in Texts
    BY LenProperties
<1>2. Added(new) = list[N]
    BY DEF Added
<1>3. \A l \in S, x \in Texts : Next1(l, x) \in S /\ Range(Next1(l, x)) = Range(l) \cup {x}
    <2> SUFFICES ASSUME NEW l \in S, NEW x \in Texts
                 PROVE  Next1(l, x) \in S /\ Range(Next1(l, x)) = Range(l) \cup {x}
        OBVIOUS
    <2>1. CASE Contains(l, x)
        <3>1. DOMAIN l = 1..Len(l)
            BY LenProperties
        <3>2. x \in Range(l)
            BY <2>1, <3>1 DEF Contains, Range
        <3>3. QED
            BY <2>1, <3>2
    <2>2. CASE ~ Contains(l, x)
        <3>1. Next1(l, x) = Append(l, x)
            BY <2>2
        <3>2. Range(Append(l, x)) = Range(l) \cup {x}
            <4> HIDE DEF S
            <4>1. DOMAIN l = 1..Len(l) /\ Len(l) \in Nat
                BY LenProperties DEF S
            <4>2. DOMAIN Append(l, x) = 1..(Len(l) + 1) /\ Append(l, x)[Len(l) + 1] = x
                  /\ \A i \in 1..Len(l) : Append(l, x)[i] = l[i]
                BY <4>1 DEF S
            <4>3. 1..(Len(l) + 1) = (1..Len(l)) \cup {Len(l) + 1}
                BY <4>1
            <4>4. QED
                BY <4>1, <4>2, <4>3 DEF Range
        <3>3. QED
            BY <3>1, <3>2
    <2>3. QED
        BY <2>1, <2>2
<1> HIDE DEF Next1, N, S, list
<1>4. back \in Earlier(N) /\ \A n \in 1..N : back[n] = n - 1
    BY <1>1 DEF Earlier
<1>5. step \in [1..N -> [S -> S]]
    BY <1>1, <1>3
<1>6. \E f \in [0..N -> S] : Fits(f)
    <2> HIDE DEF back
    <2>1. PICK f \in [0..N -> S] : f[0] = strings /\ \A n \in 1..N : f[n] = step[n][f[back[n]]]
        <3> HIDE DEF step
        <3>1. strings \in S
            BY DEF S
        <3>2. Recursive(S, strings, N, back, step) # {}
            BY <1>1, <1>4, <1>5, <3>1, RecursionDefines
        <3>3. QED
            BY <3>2 DEF Recursive
    <2>2. ASSUME NEW n \in 1..N
          PROVE  f[n] = Next1(f[n - 1], new[n])
        <3>1. n - 1 \in 0..N
            BY <1>1
        <3>2. QED
            BY <1>4, <2>1, <3>1
    <2>3. \A n \in 0..N : n # 0 => n \in 1..N
        BY <1>1
    <2>4. Fits(f)
        BY <2>1, <2>2, <2>3
    <2>5. QED
        BY <2>4
<1>7. Fits(list)
    BY <1>6 DEF list
<1>8. list[0] = strings /\ \A n \in 1..N : list[n] = Next1(list[n - 1], new[n])
    <2>1. 0 \in 0..N /\ \A n \in 1..N : n \in 0..N /\ n # 0
        BY <1>1
    <2>2. QED
        BY <1>7, <2>1
<1> DEFINE Upto(n) == {new[i] : i \in 1..n}
           Good == {n \in Nat : n <= N => list[n] \in S /\ Range(list[n]) = Range(strings) \cup Upto(n)}
<1>9. ASSUME NEW n \in Nat, \A m \in 0..(n - 1) : m \in Good
      PROVE  n \in Good
    <2>1. CASE n = 0
        <3>1. list[0] \in S /\ Upto(0) = {}
            BY <1>8 DEF S
        <3>2. QED
            BY <1>8, <2>1, <3>1
    <2>2. CASE n # 0 /\ n <= N
        <3>1. n \in 1..N /\ n - 1 \in 0..(n - 1) /\ n - 1 <= N
            BY <1>1, <2>2
        <3>2. list[n - 1] \in S /\ Range(list[n - 1]) = Range(strings) \cup Upto(n - 1)
            BY <1>9, <3>1
        <3>3. list[n] = Next1(list[n - 1], new[n]) /\ new[n] \in Texts
            BY <1>1, <1>8, <3>1
        <3>4. Upto(n) = Upto(n - 1) \cup {new[n]}
            <4>1. 1..n = (1..(n - 1)) \cup {n}
                BY <2>2
            <4>2. QED
                BY <4>1
        <3> HIDE DEF Upto
        <3>5. list[n] \in S /\ Range(list[n]) = Range(list[n - 1]) \cup {new[n]}
            BY <1>3, <3>2, <3>3
        <3>6. Range(list[n]) = Range(strings) \cup Upto(n)
            BY <3>2, <3>4, <3>5
        <3>7. QED
            BY <3>5, <3>6
    <2>3. QED
        BY <2>1, <2>2
<1> HIDE DEF Good
<1>10. N \in Good
    BY <1>1, <1>9, Induction
<1>11. Upto(N) = Range(new)
    <2>1. DOMAIN new = 1..N
        BY LenProperties DEF N
    <2>2. QED
        BY <2>1 DEF Range
<1>12. QED
    BY <1>1, <1>2, <1>10, <1>11 DEF Good, S

-----------------------------------------------------------------------------
(* Folding. *)

\* Read backwards twice, a string is what it was.
LEMMA ReverseIs ==
    ASSUME NEW s \in Texts
    PROVE  /\ Reverse(s) \in Texts /\ Len(Reverse(s)) = Len(s)
           /\ \A i \in 1..Len(s) : Reverse(s)[i] = s[Len(s) - i + 1]
           /\ Reverse(Reverse(s)) = s
<1>1. Len(s) \in Nat /\ \A i \in 1..Len(s) : s[i] \in Range(Chars)
    BY CodesOf
<1>2. \A i \in 1..Len(s) : Len(s) - i + 1 \in 1..Len(s) /\ Len(s) - (Len(s) - i + 1) + 1 = i
    BY <1>1
<1> DEFINE r == Reverse(s)
<1>3. r = [i \in 1..Len(s) |-> s[Len(s) - i + 1]]
    BY DEF Reverse
<1> HIDE DEF r
<1>4. r \in Seq(Range(Chars)) /\ Len(r) = Len(s) /\ \A i \in 1..Len(s) : r[i] = s[Len(s) - i + 1]
    BY <1>1, <1>2, <1>3
<1> DEFINE q == Reverse(r)
<1>5. q = [i \in 1..Len(r) |-> r[Len(r) - i + 1]]
    BY DEF Reverse
<1> HIDE DEF q
<1>6. q \in Seq(Range(Chars)) /\ Len(q) = Len(s) /\ \A i \in 1..Len(s) : q[i] = s[i]
    BY <1>1, <1>2, <1>4, <1>5
<1>7. q = s
    BY <1>6, SeqEqual DEF Texts
<1>8. QED
    BY <1>4, <1>7 DEF q, r, Texts

\* sorted holds the strings backwards and in their order.
Lists(so, S) ==
    /\ so \in Seq(Texts)
    /\ Len(so) \in Nat /\ DOMAIN so = 1..Len(so)
    /\ \A k \in 1..Len(so) : Reverse(so[k]) \in S
    /\ \A s \in S : \E k \in 1..Len(so) : so[k] = Reverse(s)
    /\ \A k, l \in 1..Len(so) : k < l <=> Less(so[k], so[l])

LEMMA SortedLists ==
    ASSUME NEW all \in Seq(Texts)
    PROVE  LET reversed == {Reverse(s) : s \in Range(all)}
               R == {p \in reversed \X reversed : Less(p[1], p[2])}
           IN  Lists(Ordered(reversed, R), Range(all))
<1> DEFINE reversed == {Reverse(s) : s \in Range(all)}
           R == {p \in reversed \X reversed : Less(p[1], p[2])}
<1>1. Len(all) \in Nat /\ DOMAIN all = 1..Len(all) /\ \A i \in 1..Len(all) : all[i] \in Texts
    BY LenProperties
<1>2. \A s \in Range(all) : s \in Texts
    BY <1>1 DEF Range
<1>3. \A r \in reversed : r \in Texts /\ Reverse(r) \in Range(all)
    BY <1>2, ReverseIs
<1>4. IsFiniteSet(reversed)
    <2> DEFINE f == [i \in 1..Len(all) |-> Reverse(all[i])]
    <2>1. f \in Surjection(1..Len(all), reversed)
        BY <1>1 DEF Surjection, Range
    <2>2. IsFiniteSet(1..Len(all))
        BY <1>1, FS_Interval
    <2> HIDE DEF f
    <2>3. QED
        BY <2>1, <2>2, FS_Surjection
<1>5. /\ \A x, y \in reversed : <<x, y>> \in R <=> Less(x, y)
      /\ \A s \in Range(all) : Reverse(s) \in reversed
    OBVIOUS
<1> HIDE DEF reversed, R
<1>6. Orders(R, reversed)
    <2>1. \A x \in reversed : <<x, x>> \notin R
        BY <1>3, <1>5, LessIsStrict
    <2>2. ASSUME NEW x \in reversed, NEW y \in reversed, NEW z \in reversed,
                 <<x, y>> \in R, <<y, z>> \in R
          PROVE  <<x, z>> \in R
        <3>1. Less(x, y) /\ Less(y, z) /\ x \in Texts /\ y \in Texts /\ z \in Texts
            BY <1>3, <1>5, <2>2
        <3>2. Less(x, z)
            BY <3>1, LessIsStrict
        <3>3. QED
            BY <1>5, <3>2
    <2>3. \A x, y \in reversed : x # y => <<x, y>> \in R \/ <<y, x>> \in R
        BY <1>3, <1>5, LessIsTotal
    <2>4. QED
        BY <2>1, <2>2, <2>3 DEF Orders
<1> DEFINE so == Ordered(reversed, R)
<1>7. /\ so \in Seq(reversed) /\ Len(so) \in Nat /\ DOMAIN so = 1..Len(so)
      /\ \A x \in reversed : \E k \in DOMAIN so : so[k] = x
      /\ \A k, l \in DOMAIN so : k < l <=> <<so[k], so[l]>> \in R
    BY <1>4, <1>6, OrderedIs
<1> HIDE DEF so
<1>8. so \in Seq(Texts)
    BY <1>3, <1>7, SeqMonotonic
<1>9. \A k \in 1..Len(so) : so[k] \in reversed
    BY <1>7, ElementOfSeq
<1>10. \A k \in 1..Len(so) : Reverse(so[k]) \in Range(all)
    BY <1>3, <1>9
<1>11. \A s \in Range(all) : \E k \in 1..Len(so) : so[k] = Reverse(s)
    BY <1>5, <1>7
<1>12. \A k, l \in 1..Len(so) : k < l <=> Less(so[k], so[l])
    BY <1>5, <1>7, <1>9
<1>13. QED
    BY <1>7, <1>8, <1>10, <1>11, <1>12 DEF so, R, reversed, Lists

\* best is the last of the strings behind p that start with the string at p.
IsBest(so, p, best) ==
    /\ best \in p..Len(so)
    /\ \A q \in p..best : IsPrefix(so[p], so[q])
    /\ best < Len(so) => ~ IsPrefix(so[p], so[best + 1])

LEMMA BestIs ==
    ASSUME NEW so \in Seq(Texts), NEW p \in 1..Len(so)
    PROVE  \E best \in p..Len(so) : IsBest(so, p, best)
<1> DEFINE Q == {q \in p..Len(so) : \A r \in p..q : IsPrefix(so[p], so[r])}
<1>1. Len(so) \in Nat /\ so[p] \in Texts
    BY LenProperties, ElementOfSeq
<1>2. IsPrefix(so[p], so[p])
    BY <1>1, PrefixIs
<1>3. p \in Q /\ Q \subseteq 0..Len(so)
    BY <1>1, <1>2
<1> HIDE DEF Q
<1>4. PICK best \in Q : \A q \in Q : q <= best
    BY <1>1, <1>3, GreatestNumber
<1>5. best \in p..Len(so) /\ \A q \in p..best : IsPrefix(so[p], so[q])
    BY DEF Q
<1>6. ASSUME best < Len(so), IsPrefix(so[p], so[best + 1])
      PROVE  FALSE
    <2>1. best + 1 \in p..Len(so) /\ \A r \in p..(best + 1) : r = best + 1 \/ r \in p..best
        BY <1>1, <1>5, <1>6
    <2>2. best + 1 \in Q
        BY <1>5, <1>6, <2>1 DEF Q
    <2>3. best + 1 <= best
        BY <1>4, <2>2
    <2>4. QED
        BY <1>5, <2>3
<1>7. QED
    BY <1>5, <1>6 DEF IsBest

\* The string at p has no longer one that begins with it behind it, unless it is folded;
\* and the one it is folded into has none.
LEMMA BestIsLast ==
    ASSUME NEW so, NEW S, Lists(so, S), NEW p \in 1..Len(so), NEW best, IsBest(so, p, best)
    PROVE  /\ best \in 1..Len(so) /\ IsPrefix(so[p], so[best])
           /\ IsBest(so, best, best)
           /\ best # p => so[best] # so[p]
           /\ best = p => \A l \in 1..Len(so) : IsPrefix(so[p], so[l]) => l = p
<1>1. Len(so) \in Nat /\ best \in p..Len(so) /\ best \in 1..Len(so) /\ best \in p..best
    BY DEF Lists, IsBest
<1>2. \A k \in 1..Len(so) : so[k] \in Texts
    BY ElementOfSeq DEF Lists
<1>3. IsPrefix(so[p], so[best])
    BY <1>1 DEF IsBest
<1>4. \A k, l \in 1..Len(so) : k < l <=> Less(so[k], so[l])
    BY DEF Lists
<1>5. \A l \in 1..Len(so) : IsPrefix(so[p], so[l]) => so[l] = so[p] \/ Less(so[p], so[l])
    BY <1>2, PrefixIsLess
<1>6. ASSUME NEW k \in 1..Len(so), NEW l \in 1..Len(so), so[k] = so[l]
      PROVE  k = l
    <2>1. ~ Less(so[k], so[l]) /\ ~ Less(so[l], so[k])
        BY <1>2, <1>6, LessIsStrict
    <2>2. ~ (k < l) /\ ~ (l < k)
        BY <1>4, <2>1
    <2>3. QED
        BY <1>1, <2>2
<1>7. IsBest(so, best, best)
    <2>1. best \in best..Len(so) /\ best..best = {best}
        BY <1>1
    <2>2. IsPrefix(so[best], so[best])
        BY <1>1, <1>2, PrefixIs
    <2>3. ASSUME best < Len(so), IsPrefix(so[best], so[best + 1])
          PROVE  FALSE
        <3>1. best + 1 \in 1..Len(so)
            BY <1>1, <2>3
        <3>2. IsPrefix(so[p], so[best + 1])
            <4> DEFINE s == so[p]
                       t == so[best]
                       u == so[best + 1]
            <4>1. s \in Texts /\ t \in Texts /\ u \in Texts /\ IsPrefix(s, t) /\ IsPrefix(t, u)
                BY <1>1, <1>2, <1>3, <2>3, <3>1
            <4> HIDE DEF s, t, u
            <4>2. Len(s) <= Len(t) /\ (\A i \in 1..Len(s) : s[i] = t[i])
                  /\ Len(t) <= Len(u) /\ (\A i \in 1..Len(t) : t[i] = u[i])
                BY <4>1, PrefixIs
            <4>3. Len(s) \in Nat /\ Len(t) \in Nat /\ Len(u) \in Nat
                BY <4>1, CodesOf
            <4>4. Len(s) <= Len(u) /\ \A i \in 1..Len(s) : i \in 1..Len(t)
                BY <4>2, <4>3
            <4>5. IsPrefix(s, u)
                BY <4>1, <4>2, <4>4, PrefixIs
            <4>6. QED
                BY <4>5 DEF s, u
        <3>3. QED
            BY <2>3, <3>2 DEF IsBest
    <2>4. QED
        BY <2>1, <2>2, <2>3 DEF IsBest
<1>8. ASSUME best = p, NEW l \in 1..Len(so), IsPrefix(so[p], so[l]), l # p
      PROVE  FALSE
    <2>1. Less(so[p], so[l])
        BY <1>5, <1>6, <1>8
    <2>2. p < l
        BY <1>4, <1>8, <2>1
    <2>3. p + 1 \in 1..Len(so) /\ p < Len(so) /\ p < p + 1 /\ ~ (l < p + 1)
        BY <1>1, <2>2
    <2>4. Less(so[p], so[p + 1]) /\ ~ Less(so[l], so[p + 1])
        BY <1>4, <2>3
    <2>5. IsPrefix(so[p], so[p + 1])
        BY <1>2, <1>8, <2>3, <2>4, BetweenPrefixes
    <2>6. QED
        BY <1>8, <2>3, <2>5 DEF IsBest
<1>9. QED
    BY <1>1, <1>3, <1>6, <1>7, <1>8

-----------------------------------------------------------------------------
(* FoldedIntoWritten. *)

Before == {"add", "fold"}   \* until all strings have been folded

\* What a step does to the strings and the folding.
LEMMA FoldingSteps ==
    ASSUME [Next]_vars
    PROVE  \/ \E e \in Entries : ReadEntry(e)
           \/ Compute
           \/ FoldString
           \/ FoldEnds
           \/ /\ UNCHANGED <<strings, sorted, pos, folded>>
              /\ pc' = pc \/ (pc \notin Before /\ pc' \notin Before)
<1>1. CASE \E e \in Entries : ReadEntry(e)
    BY <1>1
<1>2. CASE ComputeStrings
    <2>1. CASE Compute \/ FoldString \/ FoldEnds
        BY <2>1
    <2>2. CASE EmitString \/ EmitEnds \/ PlaceFolded \/ PlaceEnds
        BY <2>2 DEF EmitString, EmitEnds, PlaceFolded, PlaceEnds, Before
    <2>3. QED
        BY <1>2, <2>1, <2>2 DEF ComputeStrings, BcsStep
<1>3. CASE StartEvents \/ PrintEntry \/ PrintRaises \/ StartMetrics \/ PrintEnds
    <2>1. CASE PrintEntry
        <3>1. UNCHANGED <<strings, sorted, pos, folded>> /\ pc' = pc
            BY <2>1 DEF PrintEntry, bcsVars
        <3>2. QED
            BY <3>1
    <2>2. CASE StartEvents \/ PrintRaises
        BY <2>2 DEF StartEvents, PrintRaises, Printing, Before, bcsVars
    <2>3. CASE StartMetrics \/ PrintEnds
        BY <2>3 DEF StartMetrics, PrintEnds, Before, bcsVars
    <2>4. QED
        BY <1>3, <2>1, <2>2, <2>3
<1>4. CASE UNCHANGED vars
    <2>1. UNCHANGED <<strings, sorted, pos, folded>> /\ pc' = pc
        BY <1>4 DEF vars, bcsVars
    <2>2. QED
        BY <2>1
<1>5. QED
    BY <1>1, <1>2, <1>3, <1>4 DEF Next

\* The first pos strings have been folded into the last string that begins with them.
Folds(so, n, f) ==
    /\ \A s \in DOMAIN f : \E k \in 1..n : \E best \in 1..Len(so) :
            /\ IsBest(so, k, best) /\ best # k
            /\ s = Reverse(so[k]) /\ f[s] = Reverse(so[best])
    /\ \A k \in 1..n : Reverse(so[k]) \in DOMAIN f \/ IsBest(so, k, k)

FoldingInv ==
    /\ strings \in Seq(Texts)
    /\ pc = "add" => sorted = <<>> /\ pos = 0 /\ folded = <<>>
    /\ pc # "add" => Lists(sorted, Range(strings)) /\ pos \in 0..Len(sorted) /\ Folds(sorted, pos, folded)
    /\ pc \notin Before => pos = Len(sorted)

LEMMA FoldingInit ==
    Init => FoldingInv
<1> SUFFICES ASSUME Init
             PROVE  FoldingInv
    OBVIOUS
<1>1. strings = <<>> /\ sorted = <<>> /\ pos = 0 /\ folded = <<>> /\ pc = "add"
    BY DEF Init, BcsInit
<1>2. strings \in Seq(Texts)
    BY <1>1, EmptySeq
<1>3. QED
    BY <1>1, <1>2 DEF FoldingInv, Before

\* Folding one more string.
LEMMA FoldStringStep ==
    ASSUME NEW S, Lists(sorted, S), pos \in 0..Len(sorted), Folds(sorted, pos, folded), FoldString
    PROVE  pos' \in 0..Len(sorted) /\ Folds(sorted, pos', folded')
<1> DEFINE p == pos + 1
           best == BestPos(p)
           s == Reverse(sorted[p])
<1>1. Len(sorted) \in Nat /\ p \in 1..Len(sorted) /\ pos' = p /\ sorted \in Seq(Texts)
    BY DEF FoldString, Lists
<1>2. IsBest(sorted, p, best) /\ best \in 1..Len(sorted)
    <2>1. PICK b \in p..Len(sorted) : IsBest(sorted, p, b)
        BY <1>1, BestIs
    <2> HIDE DEF p
    <2>2. b \in p..Len(sorted) /\ (\A q \in p..b : IsPrefix(sorted[p], sorted[q]))
          /\ (b < Len(sorted) => ~ IsPrefix(sorted[p], sorted[b + 1]))
        BY <2>1 DEF IsBest
    <2>3. best \in p..Len(sorted) /\ (\A q \in p..best : IsPrefix(sorted[p], sorted[q]))
          /\ (best < Len(sorted) => ~ IsPrefix(sorted[p], sorted[best + 1]))
        BY <2>2 DEF BestPos
    <2> HIDE DEF best
    <2>4. best \in 1..Len(sorted)
        BY <1>1, <2>3
    <2>5. QED
        BY <2>3, <2>4 DEF IsBest
<1>3. folded' = IF best = p THEN folded ELSE Extended(folded, s, Reverse(sorted[best]))
    BY DEF FoldString
<1> HIDE DEF best
<1>4. \A k \in 1..p : k = p \/ k \in 1..pos
    <2>1. pos \in Nat
        OBVIOUS
    <2>2. QED
        BY <2>1
<1>5. \A k \in 1..pos : k \in 1..p
    <2>1. pos \in Nat
        OBVIOUS
    <2>2. QED
        BY <2>1
<1>6. p \in 1..p
    BY <1>1
<1> HIDE DEF p, s
<1>7. CASE best = p
    <2>1. folded' = folded /\ IsBest(sorted, p, p)
        BY <1>2, <1>3, <1>7
    <2>2. \A t \in DOMAIN folded' : \E k \in 1..p : \E b \in 1..Len(sorted) :
            /\ IsBest(sorted, k, b) /\ b # k
            /\ t = Reverse(sorted[k]) /\ folded'[t] = Reverse(sorted[b])
        BY <1>5, <2>1 DEF Folds
    <2>3. \A k \in 1..p : Reverse(sorted[k]) \in DOMAIN folded' \/ IsBest(sorted, k, k)
        BY <1>4, <2>1 DEF Folds
    <2>4. QED
        BY <1>1, <2>2, <2>3 DEF Folds
<1>8. CASE best # p
    <2>1. DOMAIN folded' = DOMAIN folded \cup {s} /\ folded'[s] = Reverse(sorted[best])
          /\ \A t \in DOMAIN folded : t # s => folded'[t] = folded[t]
        BY <1>3, <1>8 DEF Extended
    <2>2. ASSUME NEW t \in DOMAIN folded'
          PROVE  \E k \in 1..p : \E b \in 1..Len(sorted) :
                    /\ IsBest(sorted, k, b) /\ b # k
                    /\ t = Reverse(sorted[k]) /\ folded'[t] = Reverse(sorted[b])
        <3>1. CASE t = s
            BY <1>2, <1>6, <1>8, <2>1, <3>1 DEF s
        <3>2. CASE t # s
            <4>1. t \in DOMAIN folded /\ folded'[t] = folded[t]
                BY <2>1, <3>2
            <4>2. QED
                BY <1>5, <4>1 DEF Folds
        <3>3. QED
            BY <3>1, <3>2
    <2>3. ASSUME NEW k \in 1..p
          PROVE  Reverse(sorted[k]) \in DOMAIN folded' \/ IsBest(sorted, k, k)
        <3>1. CASE k = p
            BY <2>1, <3>1 DEF s
        <3>2. CASE k # p
            BY <1>4, <2>1, <3>2 DEF Folds
        <3>3. QED
            BY <3>1, <3>2
    <2>4. QED
        BY <1>1, <2>2, <2>3 DEF Folds
<1>9. QED
    BY <1>7, <1>8

LEMMA FoldingStep ==
    FoldingInv /\ [Next]_vars => FoldingInv'
<1> SUFFICES ASSUME FoldingInv, [Next]_vars
             PROVE  FoldingInv'
    OBVIOUS
<1>1. ASSUME NEW e \in Entries, ReadEntry(e)
      PROVE  FoldingInv'
    <2> DEFINE new(metric) == IF IF metric THEN IsMetric(e) ELSE IsEvent(e) THEN StringsOf(e, metric) ELSE <<>>
    <2>1. pc = "add" /\ pc' = "add" /\ UNCHANGED <<sorted, pos, folded>>
          /\ strings' = Added(new(FALSE) \o new(TRUE))
        BY <1>1 DEF ReadEntry, AddAll
    <2>2. new(FALSE) \in Seq(Texts) /\ new(TRUE) \in Seq(Texts)
        <3>1. \A metric \in BOOLEAN : StringsOf(e, metric) \in Seq(Texts)
            BY NewStrings
        <3>2. <<>> \in Seq(Texts)
            BY EmptySeq
        <3>3. QED
            BY <3>1, <3>2
    <2> HIDE DEF new
    <2>3. new(FALSE) \o new(TRUE) \in Seq(Texts)
        BY <2>2, ConcatProperties
    <2>4. strings' \in Seq(Texts)
        BY <2>1, <2>3, AddedIs DEF FoldingInv
    <2>5. QED
        BY <2>1, <2>4 DEF FoldingInv, Before
<1>2. CASE Compute
    <2>1. pc = "add" /\ pc' = "fold" /\ UNCHANGED <<strings, pos, folded>> /\ pos = 0 /\ folded = <<>>
        BY <1>2 DEF Compute, FoldingInv
    <2>2. Lists(sorted', Range(strings))
        BY <1>2, SortedLists DEF Compute, FoldingInv
    <2>3. 0 \in 0..Len(sorted') /\ Folds(sorted', 0, <<>>)
        <3>1. Len(sorted') \in Nat
            BY <2>2 DEF Lists
        <3>2. DOMAIN <<>> = {} /\ 1..0 = {}
            OBVIOUS
        <3>3. QED
            BY <3>1, <3>2 DEF Folds
    <2>4. QED
        BY <2>1, <2>2, <2>3 DEF FoldingInv, Before
<1>3. CASE FoldString
    <2>1. pc = "fold" /\ pc' = "fold" /\ UNCHANGED <<strings, sorted>>
        BY <1>3 DEF FoldString
    <2>2. pos' \in 0..Len(sorted) /\ Folds(sorted, pos', folded')
        BY <1>3, <2>1, FoldStringStep DEF FoldingInv
    <2>3. QED
        BY <2>1, <2>2 DEF FoldingInv, Before
<1>4. CASE FoldEnds
    BY <1>4 DEF FoldEnds, FoldingInv, Before
<1>5. CASE /\ UNCHANGED <<strings, sorted, pos, folded>>
           /\ pc' = pc \/ (pc \notin Before /\ pc' \notin Before)
    <2>1. CASE pc' = pc
        BY <1>5, <2>1 DEF FoldingInv
    <2>2. CASE pc \notin Before /\ pc' \notin Before
        BY <1>5, <2>2 DEF FoldingInv, Before
    <2>3. QED
        BY <1>5, <2>1, <2>2
<1>6. QED
    BY <1>1, <1>2, <1>3, <1>4, <1>5, FoldingSteps

\* While compute scans the sorted strings, those behind it are folded into the last string
\* that begins with them, and no others.
THEOREM AlwaysFoldingInv ==
    Spec => []FoldingInv
BY FoldingInit, FoldingStep, PTL DEF Spec

\* When all strings have been folded, those that are the end of another one are.
LEMMA FoldedIs ==
    ASSUME strings \in Seq(Texts), Lists(sorted, Range(strings)), Folds(sorted, Len(sorted), folded)
    PROVE  /\ DOMAIN folded = {s \in Range(strings) : \E t \in Range(strings) \ {s} : IsSuffix(s, t)}
           /\ \A s \in DOMAIN folded :
                folded[s] \in Range(strings) \ DOMAIN folded /\ IsSuffix(s, folded[s])
<1> DEFINE S == Range(strings)
           n == Len(sorted)
<1>1. \A k \in 1..n : sorted[k] \in Texts /\ Reverse(sorted[k]) \in S /\ Reverse(Reverse(sorted[k])) = sorted[k]
    <2>1. \A k \in 1..n : sorted[k] \in Texts
        BY ElementOfSeq DEF Lists
    <2>2. QED
        BY <2>1, ReverseIs DEF Lists
<1>2. \A s \in S : s \in Texts /\ Reverse(Reverse(s)) = s
    <2>1. \A s \in S : s \in Texts
        BY LenProperties, ElementOfSeq DEF Range
    <2>2. QED
        BY <2>1, ReverseIs
<1> HIDE DEF S, n
<1>3. ASSUME NEW s \in DOMAIN folded
      PROVE  /\ s \in S /\ folded[s] \in S \ DOMAIN folded
             /\ folded[s] # s /\ IsSuffix(s, folded[s])
    <2>1. PICK k \in 1..n : \E best \in 1..n :
            /\ IsBest(sorted, k, best) /\ best # k
            /\ s = Reverse(sorted[k]) /\ folded[s] = Reverse(sorted[best])
        BY <1>3 DEF Folds, n
    <2>2. PICK best \in 1..n :
            /\ IsBest(sorted, k, best) /\ best # k
            /\ s = Reverse(sorted[k]) /\ folded[s] = Reverse(sorted[best])
        BY <2>1
    <2>3. IsPrefix(sorted[k], sorted[best]) /\ IsBest(sorted, best, best) /\ sorted[best] # sorted[k]
        BY <2>2, BestIsLast DEF n
    <2>4. s \in S /\ folded[s] \in S /\ Reverse(s) = sorted[k] /\ Reverse(folded[s]) = sorted[best]
        BY <1>1, <2>2
    <2>5. IsSuffix(s, folded[s])
        BY <2>3, <2>4 DEF IsSuffix
    <2>6. ASSUME folded[s] \in DOMAIN folded
          PROVE  FALSE
        <3>1. PICK l \in 1..n : \E b \in 1..n :
                IsBest(sorted, l, b) /\ b # l /\ folded[s] = Reverse(sorted[l])
            BY <2>6 DEF Folds, n
        <3>2. PICK b \in 1..n : IsBest(sorted, l, b) /\ b # l /\ folded[s] = Reverse(sorted[l])
            BY <3>1
        <3>3. sorted[l] = sorted[best]
            BY <1>1, <2>4, <3>2
        <3>4. sorted[b] # sorted[l] /\ IsPrefix(sorted[l], sorted[b])
            BY <3>2, BestIsLast DEF n
        <3>5. \A m \in 1..n : IsPrefix(sorted[best], sorted[m]) => m = best
            BY <2>3, BestIsLast DEF n
        <3>6. b = best
            BY <3>3, <3>4, <3>5
        <3>7. QED
            BY <3>3, <3>4, <3>6
    <2>7. QED
        BY <2>3, <2>4, <2>5, <2>6
<1>4. ASSUME NEW s \in S, NEW t \in S, t # s, IsSuffix(s, t), s \notin DOMAIN folded
      PROVE  FALSE
    <2>1. PICK k \in 1..n : sorted[k] = Reverse(s)
        BY DEF Lists, S, n
    <2>2. PICK l \in 1..n : sorted[l] = Reverse(t)
        BY DEF Lists, S, n
    <2>3. Reverse(sorted[k]) = s
        BY <1>2, <2>1
    <2>4. IsBest(sorted, k, k)
        BY <1>4, <2>3 DEF Folds, n
    <2>5. IsPrefix(sorted[k], sorted[l])
        BY <1>4, <2>1, <2>2 DEF IsSuffix
    <2>6. l = k
        BY <2>4, <2>5, BestIsLast DEF n
    <2>7. s = t
        BY <1>2, <2>1, <2>2, <2>6
    <2>8. QED
        BY <1>4, <2>7
<1>5. DOMAIN folded = {s \in S : \E t \in S \ {s} : IsSuffix(s, t)}
    <2>1. ASSUME NEW s \in DOMAIN folded
          PROVE  s \in S /\ \E t \in S \ {s} : IsSuffix(s, t)
        BY <1>3
    <2>2. ASSUME NEW s \in S, NEW t \in S \ {s}, IsSuffix(s, t)
          PROVE  s \in DOMAIN folded
        BY <1>4, <2>2
    <2>3. QED
        BY <2>1, <2>2
<1>6. QED
    BY <1>3, <1>5 DEF S

\* FoldedIntoWritten of BigCString: when the strings have been sorted by their ends and
\* folded, a string is folded if and only if it is the end of another one, and then into
\* one that is written itself.
THEOREM AlwaysFoldedIntoWritten ==
    Spec => []FoldedIntoWritten
<1>1. FoldingInv => FoldedIntoWritten
    BY FoldedIs DEF FoldingInv, FoldedIntoWritten, Before
<1>2. QED
    BY <1>1, AlwaysFoldingInv, PTL

-----------------------------------------------------------------------------
(* What the C compiler makes of a source. *)

Drop(s, k) == SubSeq(s, k + 1, Len(s))

LEMMA DropIs ==
    ASSUME NEW X, NEW s \in Seq(X), NEW k \in 0..Len(s)
    PROVE  /\ Drop(s, k) \in Seq(X)
           /\ Len(Drop(s, k)) = Len(s) - k
           /\ \A i \in 1..(Len(s) - k) : Drop(s, k)[i] = s[k + i]
           /\ Drop(s, 0) = s /\ Drop(s, Len(s)) = <<>>
<1>1. Len(s) \in Nat /\ \A i \in 1..Len(s) : s[i] \in X
    OBVIOUS
<1>2. \A i \in (k + 1)..Len(s) : s[i] \in X
    BY <1>1
<1>3. /\ Drop(s, k) \in Seq(X)
      /\ Len(Drop(s, k)) = IF k + 1 <= Len(s) THEN Len(s) - (k + 1) + 1 ELSE 0
      /\ \A i \in 1..(Len(s) - (k + 1) + 1) : Drop(s, k)[i] = s[(k + 1) + i - 1]
    <2>1. k + 1 \in Int /\ Len(s) \in Int
        BY <1>1
    <2> HIDE DEF Drop
    <2>2. QED
        BY <1>2, <2>1, SubSeqProperties DEF Drop
<1>4. Len(Drop(s, k)) = Len(s) - k
    BY <1>1, <1>3
<1>5. ASSUME NEW i \in 1..(Len(s) - k)
      PROVE  Drop(s, k)[i] = s[k + i]
    <2>1. i \in 1..(Len(s) - (k + 1) + 1) /\ (k + 1) + i - 1 = k + i
        BY <1>1
    <2>2. QED
        BY <1>3, <2>1
<1>6. Drop(s, 0) = s
    BY SubSeqFull DEF Drop
<1>7. Drop(s, Len(s)) = <<>>
    BY <1>1, SubSeqEmpty DEF Drop
<1>8. QED
    BY <1>3, <1>4, <1>5, <1>6, <1>7

\* An escape stands at i and ends in the source.
LEMMA SourceLenIs ==
    ASSUME NEW s \in Texts, NEW i \in 1..Len(s)
    PROVE  SourceLen(s, i) \in 1..4 /\ i + SourceLen(s, i) - 1 <= Len(s)
<1>1. Len(s) \in Nat
    BY CodesOf
<1>2. QED
    BY <1>1 DEF SourceLen

\* The recursion of Compiled.
CompiledLast(s) ==
    CHOOSE last : last = [n \in 0..Len(s) |->
        LET i == Len(s) - n + 1
        IN  IF n = 0 THEN <<>>
            ELSE <<SubSeq(s, i, i + SourceLen(s, i) - 1)>> \o last[n - SourceLen(s, i)]]

Token(s, k) == SubSeq(s, k + 1, k + SourceLen(s, k + 1))

LEMMA CompiledLastIs ==
    ASSUME NEW s \in Texts
    PROVE  /\ Compiled(s) = CompiledLast(s)[Len(s)]
           /\ CompiledLast(s) \in [0..Len(s) -> Seq(Texts)]
           /\ CompiledLast(s)[0] = <<>>
           /\ \A k \in 0..(Len(s) - 1) :
                CompiledLast(s)[Len(s) - k]
                    = <<Token(s, k)>> \o CompiledLast(s)[Len(s) - k - SourceLen(s, k + 1)]
<1> DEFINE N == Len(s)
           S == Seq(Texts)
           At(n) == Len(s) - n + 1
           Width(n) == SourceLen(s, At(n))
           Char(n) == SubSeq(s, At(n), At(n) + Width(n) - 1)
           Fits(f) == f = [n \in 0..N |-> IF n = 0 THEN <<>> ELSE <<Char(n)>> \o f[n - Width(n)]]
           back == [n \in 1..N |-> n - Width(n)]
           step == [n \in 1..N |-> [x \in S |-> <<Char(n)>> \o x]]
           last == CHOOSE f : Fits(f)
<1>1. N \in Nat /\ \A n \in 1..N : At(n) \in 1..N /\ n = N - At(n) + 1
    <2>1. N \in Nat
        BY CodesOf
    <2>2. QED
        BY <2>1
<1>2. \A n \in 1..N : Width(n) \in 1..4 /\ At(n) + Width(n) - 1 <= N
    <2> HIDE DEF At
    <2>1. QED
        BY <1>1, SourceLenIs
<1>3. last = CompiledLast(s)
    BY DEF CompiledLast
<1>4. Compiled(s) = last[N]
    BY DEF Compiled
<1>5. \A n \in 1..N : Char(n) \in Texts
    <2> SUFFICES ASSUME NEW n \in 1..N
                 PROVE  Char(n) \in Texts
        OBVIOUS
    <2> DEFINE a == At(n)
               b == At(n) + Width(n) - 1
    <2>1. a \in 1..N /\ b \in Int /\ b <= N
        <3> HIDE DEF At, Width
        <3>1. QED
            BY <1>1, <1>2
    <2> HIDE DEF a, b
    <2>2. \A i \in 1..N : s[i] \in Range(Chars)
        BY CodesOf
    <2>3. \A i \in a..b : s[i] \in Range(Chars)
        BY <1>1, <2>1, <2>2
    <2>4. SubSeq(s, a, b) \in Seq(Range(Chars))
        BY <2>1, <2>3, SubSeqProperties
    <2>5. QED
        BY <2>4 DEF a, b, Texts
<1> HIDE DEF N, S, At, Width, Char, last
<1>6. back \in Earlier(N) /\ \A n \in 1..N : back[n] = n - Width(n)
    <2>1. \A n \in 1..N : n - Width(n) \in 0..(n - 1)
        <3> SUFFICES ASSUME NEW n \in 1..N
                     PROVE  n - Width(n) \in 0..(n - 1)
            OBVIOUS
        <3> DEFINE a == At(n)
                   w == Width(n)
        <3>1. w \in 1..4 /\ a + w - 1 <= N /\ n = N - a + 1 /\ a \in 1..N /\ N \in Nat
            BY <1>1, <1>2
        <3> HIDE DEF a, w
        <3>2. n - w \in 0..(n - 1)
            BY <3>1
        <3>3. QED
            BY <3>2 DEF w
    <2>2. QED
        BY <1>1, <2>1 DEF Earlier
<1>7. \A c \in Texts, x \in S : <<c>> \o x \in S
    <2>1. \A c \in Texts : <<c>> \in Seq(Texts)
        OBVIOUS
    <2>2. QED
        BY <2>1, ConcatProperties DEF S
<1>8. step \in [1..N -> [S -> S]]
    BY <1>5, <1>7
<1>9. \E f \in [0..N -> S] : Fits(f)
    <2> HIDE DEF back
    <2>1. PICK f \in [0..N -> S] : f[0] = <<>> /\ \A n \in 1..N : f[n] = step[n][f[back[n]]]
        <3> HIDE DEF step
        <3>1. <<>> \in S
            BY EmptySeq DEF S
        <3>2. Recursive(S, <<>>, N, back, step) # {}
            BY <1>1, <1>6, <1>8, <3>1, RecursionDefines
        <3>3. QED
            BY <3>2 DEF Recursive
    <2>2. ASSUME NEW n \in 1..N
          PROVE  f[n] = <<Char(n)>> \o f[n - Width(n)]
        <3>1. n - Width(n) \in 0..N
            BY <1>1, <1>6 DEF Earlier
        <3>2. QED
            BY <1>6, <2>1, <3>1
    <2>3. \A n \in 0..N : n # 0 => n \in 1..N
        BY <1>1
    <2>4. Fits(f)
        BY <2>1, <2>2, <2>3
    <2>5. QED
        BY <2>4
<1>10. Fits(last)
    BY <1>9 DEF last
<1>11. last[0] = <<>> /\ \A n \in 1..N : last[n] = <<Char(n)>> \o last[n - Width(n)]
    <2>1. 0 \in 0..N /\ \A n \in 1..N : n \in 0..N /\ n # 0
        BY <1>1
    <2>2. QED
        BY <1>10, <2>1
<1>12. \A n \in 0..N : last[n] \in S
    <2>1. last[0] \in S
        BY <1>11, EmptySeq DEF S
    <2>2. \A n \in 1..N : last[back[n]] \in S => last[n] \in S
        BY <1>5, <1>6, <1>7, <1>11
    <2> HIDE DEF back
    <2>3. QED
        BY <1>1, <1>6, <2>1, <2>2, RecursionStays
<1>13. last \in [0..N -> S]
    BY <1>10, <1>12
<1>14. ASSUME NEW k \in 0..(N - 1)
       PROVE  last[N - k] = <<Token(s, k)>> \o last[N - k - SourceLen(s, k + 1)]
    <2>1. N - k \in 1..N /\ N - (N - k) + 1 = k + 1
        BY <1>1
    <2>2. At(N - k) = k + 1
        BY <2>1 DEF At, N
    <2>3. Width(N - k) = SourceLen(s, k + 1)
        BY <2>2 DEF Width
    <2>4. Width(N - k) \in 1..4
        BY <1>2, <2>1
    <2>5. (k + 1) + SourceLen(s, k + 1) - 1 = k + SourceLen(s, k + 1)
        BY <1>1, <2>3, <2>4
    <2>6. Char(N - k) = Token(s, k)
        BY <2>2, <2>3, <2>5 DEF Char, Token
    <2>7. QED
        BY <1>11, <2>1, <2>3, <2>6
<1>15. QED
    BY <1>3, <1>4, <1>11, <1>13, <1>14 DEF N, S

\* r is the end of s behind k elements.
EndsWith(X, s, k, r) ==
    /\ s \in Seq(X) /\ r \in Seq(X) /\ k \in Nat
    /\ Len(s) = k + Len(r)
    /\ \A i \in 1..Len(r) : r[i] = s[k + i]

\* Equal parts of sequences.
LEMMA SameParts ==
    ASSUME NEW C, NEW s \in Seq(C), NEW r \in Seq(C), NEW k \in Nat, NEW a \in Nat \ {0}, NEW b \in Nat,
           k + b <= Len(s), b <= Len(r), \A i \in a..b : r[i] = s[k + i]
    PROVE  SubSeq(s, k + a, k + b) = SubSeq(r, a, b)
<1> DEFINE x == SubSeq(s, k + a, k + b)
           y == SubSeq(r, a, b)
           n == IF a <= b THEN b - a + 1 ELSE 0
<1>1. (\A i \in 1..Len(s) : s[i] \in C) /\ (\A i \in 1..Len(r) : r[i] \in C) /\ Len(s) \in Nat /\ Len(r) \in Nat
    OBVIOUS
<1>2. (\A i \in (k + a)..(k + b) : s[i] \in C) /\ (\A i \in a..b : r[i] \in C)
    BY <1>1
<1>3. x \in Seq(C) /\ Len(x) = (IF k + a <= k + b THEN k + b - (k + a) + 1 ELSE 0)
      /\ \A i \in 1..(k + b - (k + a) + 1) : x[i] = s[(k + a) + i - 1]
    <2> DEFINE c == k + a
               d == k + b
    <2>1. c \in Int /\ d \in Int /\ \A i \in c..d : s[i] \in C
        BY <1>2
    <2> HIDE DEF c, d
    <2>2. SubSeq(s, c, d) \in Seq(C) /\ Len(SubSeq(s, c, d)) = (IF c <= d THEN d - c + 1 ELSE 0)
          /\ \A i \in 1..(d - c + 1) : SubSeq(s, c, d)[i] = s[c + i - 1]
        BY <2>1, SubSeqProperties
    <2>3. QED
        BY <2>2 DEF c, d
<1>4. y \in Seq(C) /\ Len(y) = n /\ \A i \in 1..(b - a + 1) : y[i] = r[a + i - 1]
    <2>1. a \in Int /\ b \in Int /\ \A i \in a..b : r[i] \in C
        BY <1>2
    <2>2. y \in Seq(C) /\ Len(y) = (IF a <= b THEN b - a + 1 ELSE 0)
          /\ \A i \in 1..(b - a + 1) : y[i] = r[a + i - 1]
        BY <2>1, SubSeqProperties
    <2>3. QED
        BY <2>2
<1> HIDE DEF x, y
<1>5. Len(x) = n
    BY <1>3
<1>6. ASSUME NEW i \in 1..n
      PROVE  x[i] = y[i]
    <2>1. i \in 1..(b - a + 1) /\ i \in 1..(k + b - (k + a) + 1)
        OBVIOUS
    <2>2. x[i] = s[(k + a) + i - 1] /\ y[i] = r[a + i - 1]
        BY <1>3, <1>4, <2>1
    <2>3. a + i - 1 \in a..b /\ (k + a) + i - 1 = k + (a + i - 1)
        BY <2>1
    <2>4. QED
        BY <2>2, <2>3
<1> HIDE DEF n
<1>7. x = y
    BY <1>3, <1>4, <1>5, <1>6, SeqEqual
<1>8. QED
    BY <1>7 DEF x, y

\* What an escape is does not depend on what is in front of it.
LEMMA SameSource ==
    ASSUME NEW s, NEW k, NEW r, EndsWith(Range(Chars), s, k, r), NEW j \in 0..(Len(r) - 1)
    PROVE  SourceLen(s, k + j + 1) = SourceLen(r, j + 1) /\ Token(s, k + j) = Token(r, j)
<1>1. s \in Texts /\ r \in Texts /\ k \in Nat /\ Len(s) = k + Len(r) /\ Len(r) \in Nat /\ Len(s) \in Nat
      /\ \A i \in 1..Len(r) : r[i] = s[k + i]
    BY CodesOf DEF EndsWith, Texts
<1>2. j + 1 \in 1..Len(r) /\ k + j + 1 \in 1..Len(s) /\ k + j + 1 = k + (j + 1) /\ j \in Nat
    BY <1>1
<1>3. s[k + j + 1] = r[j + 1]
    BY <1>1, <1>2
<1>4. \A b \in Nat : b <= Len(r) => SubSeq(s, k + (j + 1), k + b) = SubSeq(r, j + 1, b)
    <2> SUFFICES ASSUME NEW b \in Nat, b <= Len(r)
                 PROVE  SubSeq(s, k + (j + 1), k + b) = SubSeq(r, j + 1, b)
        OBVIOUS
    <2>1. j + 1 \in Nat \ {0} /\ k + b <= Len(s) /\ \A i \in (j + 1)..b : i \in 1..Len(r)
        BY <1>1, <1>2
    <2>2. QED
        BY <1>1, <2>1, SameParts DEF Texts
<1>5. (j + 1) + 3 <= Len(r) => SubSeq(s, k + j + 1, k + j + 1 + 3) = SubSeq(r, j + 1, j + 1 + 3)
    <2>1. j + 1 + 3 \in Nat /\ k + (j + 1 + 3) = k + j + 1 + 3
        BY <1>1
    <2>2. QED
        BY <1>2, <1>4, <2>1
<1>6. (k + j + 1 = Len(s) <=> j + 1 = Len(r)) /\ (k + j + 1 + 3 <= Len(s) <=> j + 1 + 3 <= Len(r))
    BY <1>1, <1>2
<1>7. SourceLen(s, k + j + 1) = SourceLen(r, j + 1)
    BY <1>3, <1>5, <1>6 DEF SourceLen
<1>8. SourceLen(r, j + 1) \in 1..4 /\ (j + 1) + SourceLen(r, j + 1) - 1 <= Len(r)
    BY <1>1, <1>2, SourceLenIs
<1> DEFINE b == j + SourceLen(r, j + 1)
<1>9. b \in Nat /\ b <= Len(r) /\ k + b = k + j + SourceLen(r, j + 1)
    <2> DEFINE w == SourceLen(r, j + 1)
    <2>1. w \in 1..4 /\ (j + 1) + w - 1 <= Len(r) /\ Len(r) \in Nat /\ k \in Nat /\ j \in Nat
        BY <1>1, <1>2, <1>8
    <2> HIDE DEF w
    <2>2. j + w \in Nat /\ j + w <= Len(r) /\ k + (j + w) = k + j + w
        BY <2>1
    <2>3. QED
        BY <2>2 DEF w
<1>10. Token(s, k + j) = SubSeq(s, k + j + 1, k + j + SourceLen(s, k + j + 1))
    BY DEF Token
<1>11. Token(r, j) = SubSeq(r, j + 1, b)
    BY DEF Token
<1> HIDE DEF b
<1>12. Token(s, k + j) = Token(r, j)
    BY <1>2, <1>4, <1>7, <1>9, <1>10, <1>11
<1>13. QED
    BY <1>7, <1>12

LEMMA LastOfEnd ==
    ASSUME NEW s, NEW k, NEW r, EndsWith(Range(Chars), s, k, r)
    PROVE  \A n \in 0..Len(r) : CompiledLast(s)[n] = CompiledLast(r)[n]
<1>1. s \in Texts /\ r \in Texts /\ k \in Nat /\ Len(s) = k + Len(r) /\ Len(r) \in Nat /\ Len(s) \in Nat
    BY CodesOf DEF EndsWith, Texts
<1> DEFINE Good == {n \in Nat : n <= Len(r) => CompiledLast(s)[n] = CompiledLast(r)[n]}
<1>2. ASSUME NEW n \in Nat, \A m \in 0..(n - 1) : m \in Good
      PROVE  n \in Good
    <2>1. CASE n = 0
        BY <1>1, <2>1, CompiledLastIs
    <2>2. CASE n # 0 /\ n <= Len(r)
        <3> DEFINE j == Len(r) - n
                   w == SourceLen(r, j + 1)
        <3>1. j \in 0..(Len(r) - 1) /\ k + j \in 0..(Len(s) - 1) /\ Len(s) - (k + j) = n /\ Len(r) - j = n
              /\ j + 1 \in 1..Len(r)
            BY <1>1, <2>2
        <3> HIDE DEF j
        <3>2. SourceLen(s, k + j + 1) = w /\ Token(s, k + j) = Token(r, j)
            BY <3>1, SameSource
        <3>3. w \in 1..4 /\ j + 1 + w - 1 <= Len(r)
            BY <1>1, <3>1, SourceLenIs
        <3> HIDE DEF w
        <3>4. n - w \in 0..(n - 1) /\ n - w \in Nat /\ n - w <= Len(r)
            BY <1>1, <2>2, <3>1, <3>3
        <3>5. CompiledLast(r)[n] = <<Token(r, j)>> \o CompiledLast(r)[n - w]
            BY <1>1, <3>1, CompiledLastIs DEF w
        <3>6. CompiledLast(s)[n] = <<Token(s, k + j)>> \o CompiledLast(s)[n - w]
            BY <1>1, <3>1, <3>2, CompiledLastIs
        <3>7. CompiledLast(s)[n - w] = CompiledLast(r)[n - w]
            BY <1>2, <3>4
        <3>8. QED
            BY <3>2, <3>5, <3>6, <3>7
    <2>3. QED
        BY <2>1, <2>2
<1> HIDE DEF Good
<1>3. \A n \in Nat : n \in Good
    BY <1>2, Induction
<1>4. QED
    BY <1>1, <1>3 DEF Good

\* The first character that is compiled, and the others.
LEMMA CompiledStep ==
    ASSUME NEW s \in Texts
    PROVE  /\ Compiled(s) \in Seq(Texts)
           /\ s = <<>> => Compiled(s) = <<>>
           /\ s # <<>> => /\ SourceLen(s, 1) \in 1..4 /\ SourceLen(s, 1) <= Len(s)
                          /\ Drop(s, SourceLen(s, 1)) \in Texts
                          /\ Compiled(s) = <<SubSeq(s, 1, SourceLen(s, 1))>> \o Compiled(Drop(s, SourceLen(s, 1)))
<1>1. Len(s) \in Nat /\ Len(s) \in 0..Len(s) /\ (s = <<>> <=> Len(s) = 0)
    BY EmptySeq, CodesOf DEF Texts
<1>2. Compiled(s) \in Seq(Texts)
    BY <1>1, CompiledLastIs
<1>3. s = <<>> => Compiled(s) = <<>>
    BY <1>1, CompiledLastIs
<1>4. ASSUME s # <<>>
      PROVE  /\ SourceLen(s, 1) \in 1..4 /\ SourceLen(s, 1) <= Len(s)
             /\ Drop(s, SourceLen(s, 1)) \in Texts
             /\ Compiled(s) = <<SubSeq(s, 1, SourceLen(s, 1))>> \o Compiled(Drop(s, SourceLen(s, 1)))
    <2> DEFINE w == SourceLen(s, 1)
               r == Drop(s, w)
    <2>1. 1 \in 1..Len(s) /\ 0 \in 0..(Len(s) - 1) /\ Len(s) - 0 = Len(s)
        BY <1>1, <1>4
    <2>2. w \in 1..4 /\ 1 + w - 1 <= Len(s)
        BY <2>1, SourceLenIs
    <2>3. Compiled(s) = CompiledLast(s)[Len(s) - 0]
        BY <2>1, CompiledLastIs
    <2>4. Compiled(s) = <<Token(s, 0)>> \o CompiledLast(s)[Len(s) - 0 - SourceLen(s, 0 + 1)]
        BY <2>1, <2>3, CompiledLastIs
    <2>5. Token(s, 0) = SubSeq(s, 1, w)
        <3>1. 0 + 1 = 1
            OBVIOUS
        <3>2. 0 + w = w
            BY <2>2
        <3>3. QED
            BY <3>1, <3>2 DEF Token
    <2>6. SourceLen(s, 0 + 1) = w
        OBVIOUS
    <2> HIDE DEF w
    <2>7. w \in 0..Len(s) /\ w <= Len(s) /\ w \in Nat
        BY <1>1, <2>2
    <2>8. r \in Texts /\ Len(r) = Len(s) - w /\ \A i \in 1..(Len(s) - w) : r[i] = s[w + i]
        BY <2>7, DropIs DEF Texts
    <2> HIDE DEF r
    <2>9. Len(r) \in 0..Len(r) /\ Len(s) - 0 - w = Len(r) /\ EndsWith(Range(Chars), s, w, r)
        BY <1>1, <2>7, <2>8 DEF EndsWith, Texts
    <2>10. CompiledLast(s)[Len(r)] = CompiledLast(r)[Len(r)]
        BY <2>9, LastOfEnd
    <2>11. Compiled(s) = <<SubSeq(s, 1, w)>> \o Compiled(r)
        BY <2>4, <2>5, <2>6, <2>8, <2>9, <2>10, CompiledLastIs
    <2>12. QED
        BY <2>2, <2>7, <2>8, <2>11 DEF w, r
<1>5. QED
    BY <1>2, <1>3, <1>4

-----------------------------------------------------------------------------
(* Counting. *)

\* The recursion of CountOf.
CountLast(pattern, s) ==
    CHOOSE inLast : inLast = [n \in 0..Len(s) |->
        LET i == Len(s) - n + 1
        IN  IF n < Len(pattern) THEN 0
            ELSE IF SubSeq(s, i, i + Len(pattern) - 1) = pattern THEN 1 + inLast[n - Len(pattern)]
            ELSE inLast[n - 1]]

LEMMA CountLastIs ==
    ASSUME NEW X, NEW s \in Seq(X), NEW p \in Seq(X), p # <<>>
    PROVE  /\ CountOf(p, s) = CountLast(p, s)[Len(s)]
           /\ CountLast(p, s) \in [0..Len(s) -> Nat]
           /\ \A n \in 0..Len(s) :
                CountLast(p, s)[n] =
                    IF n < Len(p) THEN 0
                    ELSE IF SubSeq(s, Len(s) - n + 1, Len(s) - n + Len(p)) = p
                         THEN 1 + CountLast(p, s)[n - Len(p)]
                    ELSE CountLast(p, s)[n - 1]
<1> DEFINE N == Len(s)
           m == Len(p)
           At(n) == Len(s) - n + 1
           Here(n) == SubSeq(s, At(n), At(n) + m - 1) = p
           Fits(f) == f = [n \in 0..N |-> IF n < m THEN 0 ELSE IF Here(n) THEN 1 + f[n - m] ELSE f[n - 1]]
           back == [n \in 1..N |-> IF m <= n /\ Here(n) THEN n - m ELSE n - 1]
           step == [n \in 1..N |-> [x \in Nat |-> IF n < m THEN 0 ELSE IF Here(n) THEN 1 + x ELSE x]]
           last == CHOOSE f : Fits(f)
<1>1. N \in Nat /\ m \in Nat /\ m # 0
    BY EmptySeq, LenProperties
<1>2. last = CountLast(p, s) /\ CountOf(p, s) = last[N]
    BY DEF CountLast, CountOf
<1>3. \A n \in 0..N : Here(n) <=> SubSeq(s, N - n + 1, N - n + m) = p
    <2>1. \A n \in 0..N : At(n) + m - 1 = N - n + m /\ At(n) = N - n + 1
        BY <1>1
    <2>2. QED
        BY <2>1
<1> HIDE DEF N, m, Here, At, last
<1>4. back \in Earlier(N)
    <2>1. \A n \in 1..N : (m <= n => n - m \in 0..(n - 1)) /\ n - 1 \in 0..(n - 1)
        BY <1>1
    <2>2. \A n \in 1..N : back[n] \in 0..(n - 1)
        BY <2>1
    <2>3. \A n \in 1..N : \A k \in 0..(n - 1) : k \in Nat
        OBVIOUS
    <2>4. back \in [1..N -> Nat]
        BY <2>2, <2>3
    <2> HIDE DEF back
    <2>5. QED
        BY <2>2, <2>4 DEF Earlier
<1>5. step \in [1..N -> [Nat -> Nat]]
    OBVIOUS
<1>6. \E f \in [0..N -> Nat] : Fits(f)
    <2>1. PICK f \in [0..N -> Nat] : f[0] = 0 /\ \A n \in 1..N : f[n] = step[n][f[back[n]]]
        <3> HIDE DEF back, step
        <3>1. Recursive(Nat, 0, N, back, step) # {}
            BY <1>1, <1>4, <1>5, RecursionDefines
        <3>2. QED
            BY <3>1 DEF Recursive
    <2>2. ASSUME NEW n \in 0..N
          PROVE  f[n] = IF n < m THEN 0 ELSE IF Here(n) THEN 1 + f[n - m] ELSE f[n - 1]
        <3>1. CASE n = 0
            BY <1>1, <2>1, <3>1
        <3>2. CASE n # 0
            <4>1. n \in 1..N /\ n - 1 \in 0..N /\ (m <= n => n - m \in 0..N) /\ (n < m <=> ~ (m <= n))
                BY <1>1, <3>2
            <4>2. CASE n < m
                BY <2>1, <4>1, <4>2
            <4>3. CASE m <= n /\ Here(n)
                BY <2>1, <4>1, <4>3
            <4>4. CASE m <= n /\ ~ Here(n)
                BY <2>1, <4>1, <4>4
            <4>5. QED
                BY <4>1, <4>2, <4>3, <4>4
        <3>3. QED
            BY <3>1, <3>2
    <2>3. Fits(f)
        BY <2>1, <2>2
    <2>4. QED
        BY <2>3
<1>7. Fits(last)
    BY <1>6 DEF last
<1>8. \A n \in 0..N : last[n] = IF n < m THEN 0 ELSE IF Here(n) THEN 1 + last[n - m] ELSE last[n - 1]
    BY <1>7
<1>9. \A n \in 0..N : last[n] \in Nat
    <2>1. last[0] \in Nat
        <3>1. 0 < m /\ 0 \in 0..N
            BY <1>1
        <3>2. QED
            BY <1>8, <3>1
    <2>2. ASSUME NEW n \in 1..N, last[back[n]] \in Nat
          PROVE  last[n] \in Nat
        <3>1. n \in 0..N /\ (n < m <=> ~ (m <= n))
            BY <1>1
        <3>2. CASE n < m
            BY <1>8, <3>1, <3>2
        <3>3. CASE m <= n /\ Here(n)
            BY <1>8, <2>2, <3>1, <3>3
        <3>4. CASE m <= n /\ ~ Here(n)
            BY <1>8, <2>2, <3>1, <3>4
        <3>5. QED
            BY <3>1, <3>2, <3>3, <3>4
    <2> HIDE DEF back
    <2>3. QED
        BY <1>1, <1>4, <2>1, <2>2, RecursionStays
<1>10. last \in [0..N -> Nat]
    BY <1>7, <1>9
<1>11. QED
    BY <1>2, <1>3, <1>8, <1>10 DEF N, m

\* What is counted behind a place does not depend on what is in front of it.
LEMMA CountOfEnd ==
    ASSUME NEW X, NEW s, NEW k, NEW r, EndsWith(X, s, k, r), NEW p \in Seq(X), p # <<>>
    PROVE  \A n \in 0..Len(r) : CountLast(p, s)[n] = CountLast(p, r)[n]
<1> DEFINE m == Len(p)
<1>1. s \in Seq(X) /\ r \in Seq(X) /\ k \in Nat /\ Len(s) = k + Len(r) /\ Len(r) \in Nat /\ Len(s) \in Nat
      /\ m \in Nat /\ m # 0 /\ \A i \in 1..Len(r) : r[i] = s[k + i]
    BY EmptySeq, LenProperties DEF EndsWith
<1>2. ASSUME NEW n \in 0..Len(r), m <= n
      PROVE  SubSeq(s, Len(s) - n + 1, Len(s) - n + m) = SubSeq(r, Len(r) - n + 1, Len(r) - n + m)
    <2> DEFINE a == Len(r) - n + 1
               b == Len(r) - n + m
    <2>1. a \in Nat \ {0} /\ b \in Nat /\ b <= Len(r) /\ k + a = Len(s) - n + 1 /\ k + b = Len(s) - n + m
          /\ k + b <= Len(s) /\ \A i \in a..b : i \in 1..Len(r)
        BY <1>1, <1>2
    <2> HIDE DEF a, b
    <2>2. SubSeq(s, k + a, k + b) = SubSeq(r, a, b)
        BY <1>1, <2>1, SameParts
    <2>3. QED
        BY <2>1, <2>2 DEF a, b
<1> DEFINE Good == {n \in Nat : n <= Len(r) => CountLast(p, s)[n] = CountLast(p, r)[n]}
           L(x) == CountLast(p, x)
<1>3. \A n \in 0..Len(r) : L(r)[n] =
            IF n < m THEN 0
            ELSE IF SubSeq(r, Len(r) - n + 1, Len(r) - n + m) = p THEN 1 + L(r)[n - m] ELSE L(r)[n - 1]
    <2>1. r \in Seq(X)
        BY <1>1
    <2>2. QED
        BY <2>1, CountLastIs
<1>4. \A n \in 0..Len(s) : L(s)[n] =
            IF n < m THEN 0
            ELSE IF SubSeq(s, Len(s) - n + 1, Len(s) - n + m) = p THEN 1 + L(s)[n - m] ELSE L(s)[n - 1]
    <2>1. s \in Seq(X)
        BY <1>1
    <2>2. QED
        BY <2>1, CountLastIs
<1> HIDE DEF m, L
<1>5. ASSUME NEW n \in Nat, \A i \in 0..(n - 1) : i \in Good
      PROVE  n \in Good
    <2> SUFFICES ASSUME n <= Len(r)
                 PROVE  L(s)[n] = L(r)[n]
        BY DEF L
    <2>1. n \in 0..Len(r) /\ n \in 0..Len(s) /\ (n < m <=> ~ (m <= n))
        BY <1>1
    <2>2. CASE n < m
        BY <1>3, <1>4, <2>1, <2>2
    <2>3. CASE m <= n
        <3>1. n - m \in 0..(n - 1) /\ n - 1 \in 0..(n - 1) /\ n - m <= Len(r) /\ n - 1 <= Len(r)
            BY <1>1, <2>1, <2>3
        <3>2. L(s)[n - m] = L(r)[n - m] /\ L(s)[n - 1] = L(r)[n - 1]
            BY <1>5, <3>1 DEF L
        <3>3. SubSeq(s, Len(s) - n + 1, Len(s) - n + m) = SubSeq(r, Len(r) - n + 1, Len(r) - n + m)
            BY <1>2, <2>1, <2>3
        <3>4. QED
            BY <1>3, <1>4, <2>1, <2>3, <3>2, <3>3
    <2>4. QED
        BY <2>1, <2>2, <2>3
<1> HIDE DEF Good
<1>6. \A n \in Nat : n \in Good
    BY <1>5, Induction
<1>7. QED
    BY <1>1, <1>6 DEF Good

\* Counting from a place on.
LEMMA CountAt ==
    ASSUME NEW X, NEW s \in Seq(X), NEW p \in Seq(X), p # <<>>
    PROVE  /\ CountOf(p, s) \in Nat
           /\ CountOf(p, <<>>) = 0
           /\ \A k \in 0..Len(s) : CountOf(p, Drop(s, k)) \in Nat
           /\ \A k \in 0..(Len(s) - 1) :
                CountOf(p, Drop(s, k)) =
                    IF k + Len(p) <= Len(s) /\ SubSeq(s, k + 1, k + Len(p)) = p
                    THEN 1 + CountOf(p, Drop(s, k + Len(p)))
                    ELSE CountOf(p, Drop(s, k + 1))
<1> DEFINE m == Len(p)
           N == Len(s)
           L == CountLast(p, s)
<1>1. N \in Nat /\ N \in 0..N /\ m \in Nat /\ m # 0
    BY EmptySeq, LenProperties
<1>2. \A n \in 0..N : L[n] = IF n < m THEN 0
                             ELSE IF SubSeq(s, N - n + 1, N - n + m) = p THEN 1 + L[n - m] ELSE L[n - 1]
    BY CountLastIs
<1>3. L \in [0..N -> Nat] /\ CountOf(p, s) = L[N]
    BY CountLastIs
<1>4. ASSUME NEW k \in 0..N
      PROVE  CountOf(p, Drop(s, k)) = L[N - k] /\ N - k \in 0..N
    <2> DEFINE r == Drop(s, k)
    <2>1. r \in Seq(X) /\ Len(r) = N - k /\ \A i \in 1..(N - k) : r[i] = s[k + i]
        BY DropIs
    <2> HIDE DEF r, L
    <2>2. k \in Nat /\ N = k + Len(r) /\ Len(r) \in 0..Len(r) /\ N - k \in 0..N
        BY <1>1, <2>1
    <2> HIDE DEF N
    <2>3. EndsWith(X, s, k, r)
        BY <2>1, <2>2 DEF EndsWith, N
    <2>4. CountLast(p, s)[Len(r)] = CountLast(p, r)[Len(r)]
        BY <2>2, <2>3, CountOfEnd
    <2>5. CountOf(p, r) = CountLast(p, r)[Len(r)]
        BY <2>1, CountLastIs
    <2>6. QED
        BY <2>1, <2>2, <2>4, <2>5 DEF r, L
<1>5. CountOf(p, <<>>) = 0
    <2>1. N - N = 0 /\ 0 \in 0..N /\ 0 < m
        BY <1>1
    <2>2. CountOf(p, Drop(s, N)) = L[N - N] /\ Drop(s, N) = <<>>
        BY <1>1, <1>4, DropIs
    <2> HIDE DEF L, N, m
    <2>3. QED
        BY <1>2, <2>1, <2>2
<1> HIDE DEF L, N, m
<1>6. ASSUME NEW k \in 0..(N - 1)
      PROVE  CountOf(p, Drop(s, k)) =
                IF k + m <= N /\ SubSeq(s, k + 1, k + m) = p
                THEN 1 + CountOf(p, Drop(s, k + m))
                ELSE CountOf(p, Drop(s, k + 1))
    <2> DEFINE n == N - k
    <2>1. n \in 0..N /\ k \in 0..N /\ k + 1 \in 0..N /\ N - (k + 1) = n - 1 /\ n - 1 \in 0..N
          /\ N - n + 1 = k + 1 /\ N - n + m = k + m /\ (n < m <=> ~ (k + m <= N))
        BY <1>1
    <2>2. CountOf(p, Drop(s, k)) = L[n] /\ CountOf(p, Drop(s, k + 1)) = L[n - 1]
        BY <1>4, <2>1
    <2> HIDE DEF n
    <2>3. CASE n < m
        <3>1. n - 1 < m
            BY <1>1, <2>1, <2>3
        <3>2. L[n] = 0 /\ L[n - 1] = 0
            BY <1>2, <2>1, <2>3, <3>1
        <3>3. QED
            BY <2>1, <2>2, <2>3, <3>2
    <2>4. CASE ~ (n < m)
        <3>1. k + m \in 0..N /\ N - (k + m) = n - m
            BY <1>1, <2>1, <2>4 DEF n
        <3>2. CountOf(p, Drop(s, k + m)) = L[n - m]
            BY <1>4, <3>1
        <3>3. L[n] = IF SubSeq(s, k + 1, k + m) = p THEN 1 + L[n - m] ELSE L[n - 1]
            BY <1>2, <2>1, <2>4
        <3>4. QED
            BY <2>1, <2>2, <2>4, <3>2, <3>3
    <2>5. QED
        BY <2>3, <2>4
<1>7. QED
    BY <1>1, <1>3, <1>4, <1>5, <1>6 DEF N, m

\* Counting in a sequence of which the first element is known.
LEMMA CountFirst ==
    ASSUME NEW X, NEW x \in X, NEW y \in X, NEW l \in Seq(X)
    PROVE  /\ CountOf(<<x>>, l) \in Nat
           /\ CountOf(<<x>>, <<y>> \o l) = (IF y = x THEN 1 ELSE 0) + CountOf(<<x>>, l)
<1> DEFINE p == <<x>>
           s == <<y>> \o l
<1>1. p \in Seq(X) /\ Len(p) = 1 /\ p[1] = x /\ p # <<>> /\ <<y>> \in Seq(X) /\ Len(<<y>>) = 1 /\ <<y>>[1] = y
    OBVIOUS
<1>2. Len(l) \in Nat
    BY LenProperties
<1>3. s \in Seq(X) /\ Len(s) = 1 + Len(l) /\ s[1] = y /\ \A i \in 1..Len(l) : s[1 + i] = l[i]
    <2>1. s \in Seq(X) /\ Len(s) = 1 + Len(l)
          /\ \A i \in 1..(1 + Len(l)) : s[i] = IF i <= 1 THEN <<y>>[i] ELSE l[i - 1]
        BY <1>1, ConcatProperties
    <2> HIDE DEF s
    <2>2. 1 \in 1..(1 + Len(l))
        BY <1>2
    <2>3. \A i \in 1..Len(l) : 1 + i \in 1..(1 + Len(l)) /\ ~ (1 + i <= 1) /\ 1 + i - 1 = i
        BY <1>2
    <2>4. QED
        BY <1>1, <2>1, <2>2, <2>3
<1> HIDE DEF s, p
<1>4. 0 \in 0..(Len(s) - 1) /\ 0 \in 0..Len(s) /\ 1 \in 0..Len(s) /\ Len(s) \in Nat /\ 1 \in 1..Len(s)
    BY <1>2, <1>3
<1>5. Drop(s, 0) = s
    BY <1>3, <1>4, DropIs
<1>6. Drop(s, 1) = l
    <2>1. Drop(s, 1) \in Seq(X) /\ Len(Drop(s, 1)) = Len(s) - 1 /\ \A i \in 1..(Len(s) - 1) : Drop(s, 1)[i] = s[1 + i]
        <3>1. PICK k \in 0..Len(s) : k = 1
            BY <1>4
        <3>2. /\ Drop(s, k) \in Seq(X) /\ Len(Drop(s, k)) = Len(s) - k
              /\ \A i \in 1..(Len(s) - k) : Drop(s, k)[i] = s[k + i]
            BY <1>3, DropIs
        <3>3. QED
            BY <3>1, <3>2
    <2>2. Len(s) - 1 = Len(l)
        BY <1>2, <1>3
    <2>3. QED
        BY <1>3, <2>1, <2>2, SeqEqual
<1>7. SubSeq(s, 1, 1) = p <=> y = x
    <2>1. \A i \in 1..1 : s[i] \in X
        BY <1>3
    <2>2. SubSeq(s, 1, 1) \in Seq(X) /\ Len(SubSeq(s, 1, 1)) = 1 /\ SubSeq(s, 1, 1)[1] = s[1]
        BY <2>1, SubSeqProperties
    <2>3. s[1] = x => SubSeq(s, 1, 1) = p
        <3>1. SUFFICES ASSUME s[1] = x
                       PROVE  SubSeq(s, 1, 1) = p
            OBVIOUS
        <3>2. \A i \in 1..1 : i = 1
            OBVIOUS
        <3>3. QED
            BY <1>1, <2>2, <3>1, <3>2, SeqEqual
    <2>4. QED
        BY <1>1, <1>3, <2>2, <2>3
<1>8. CountOf(p, Drop(s, 0)) = IF 0 + Len(p) <= Len(s) /\ SubSeq(s, 0 + 1, 0 + Len(p)) = p
                               THEN 1 + CountOf(p, Drop(s, 0 + Len(p))) ELSE CountOf(p, Drop(s, 0 + 1))
    BY <1>1, <1>3, <1>4, CountAt
<1>9. CountOf(p, s) = IF SubSeq(s, 1, 1) = p THEN 1 + CountOf(p, l) ELSE CountOf(p, l)
    <2>1. 0 + Len(p) = 1 /\ 0 + 1 = 1 /\ 1 <= Len(s)
        BY <1>1, <1>4
    <2>2. QED
        BY <1>5, <1>6, <1>8, <2>1
<1>10. CountOf(p, l) \in Nat
    BY <1>1, CountAt
<1>11. CountOf(p, s) = (IF y = x THEN 1 ELSE 0) + CountOf(p, l)
    BY <1>7, <1>9, <1>10
<1>12. QED
    BY <1>10, <1>11 DEF p, s

\* The patterns that are counted, and where they stand.
LEMMA Patterns ==
    /\ NulEscape \in Texts /\ Len(NulEscape) = 4 /\ NulEscape # <<>>
    /\ <<Backslash>> \in Texts /\ Len(<<Backslash>>) = 1 /\ <<Backslash>> # <<>>
    /\ <<Backslash, Backslash>> \in Texts /\ Len(<<Backslash, Backslash>>) = 2 /\ <<Backslash, Backslash>> # <<>>
    /\ \A s \in Texts : \A k \in Nat :
        /\ k + 1 <= Len(s) => (SubSeq(s, k + 1, k + 1) = <<Backslash>> <=> s[k + 1] = Backslash)
        /\ k + 2 <= Len(s) => (SubSeq(s, k + 1, k + 2) = <<Backslash, Backslash>>
                                    <=> s[k + 1] = Backslash /\ s[k + 2] = Backslash)
        /\ k + 4 <= Len(s) => (SubSeq(s, k + 1, k + 4) = NulEscape
                                    <=> s[k + 1] = Backslash /\ s[k + 2] = "0" /\ s[k + 3] = "0" /\ s[k + 4] = "0")
<1>1. ASSUME NEW b
      PROVE  Len(<<b>>) = 1 /\ Len(<<b, b>>) = 2 /\ <<b>> # <<>> /\ <<b, b>> # <<>>
             /\ <<b>>[1] = b /\ <<b, b>>[1] = b /\ <<b, b>>[2] = b
    OBVIOUS
<1>2. NulEscape \in Texts /\ Len(NulEscape) = 4 /\ <<Backslash>> \in Texts /\ <<Backslash, Backslash>> \in Texts
      /\ Len(<<Backslash>>) = 1 /\ Len(<<Backslash, Backslash>>) = 2
    <2>1. Backslash \in Range(Chars)
        BY CharsAssumption
    <2>2. QED
        BY <1>1, <2>1, TextParts
<1>3. ASSUME NEW b, NEW z
      PROVE  LET q == <<b, z, z, z>> IN q # <<>> /\ q[1] = b /\ q[2] = z /\ q[3] = z /\ q[4] = z
    OBVIOUS
<1>4. NulEscape # <<>> /\ NulEscape[1] = Backslash /\ NulEscape[2] = "0" /\ NulEscape[3] = "0" /\ NulEscape[4] = "0"
    BY <1>3 DEF NulEscape
<1>5. ASSUME NEW s \in Texts, NEW k \in Nat, NEW m \in 1..4, k + m <= Len(s),
             NEW p \in Texts, Len(p) = m
      PROVE  SubSeq(s, k + 1, k + m) = p <=> \A i \in 1..m : s[k + i] = p[i]
    <2> DEFINE a == k + 1
               b == k + m
               q == SubSeq(s, a, b)
    <2>1. Len(s) \in Nat /\ \A i \in 1..Len(s) : s[i] \in Range(Chars)
        BY CodesOf
    <2>2. a \in Int /\ b \in Int /\ \A i \in a..b : s[i] \in Range(Chars)
        BY <1>5, <2>1
    <2>3. a <= b /\ b - a + 1 = m /\ \A i \in 1..m : a + i - 1 = k + i
        BY <1>5
    <2> HIDE DEF a, b
    <2>4. q \in Seq(Range(Chars)) /\ Len(q) = (IF a <= b THEN b - a + 1 ELSE 0)
          /\ \A i \in 1..(b - a + 1) : q[i] = s[a + i - 1]
        BY <2>2, SubSeqProperties
    <2> HIDE DEF q
    <2>5. Len(q) = m /\ \A i \in 1..m : q[i] = s[k + i]
        BY <2>3, <2>4
    <2>6. (\A i \in 1..m : s[k + i] = p[i]) => q = p
        BY <1>5, <2>4, <2>5, SeqEqual DEF Texts
    <2>7. q = p => \A i \in 1..m : s[k + i] = p[i]
        BY <2>5
    <2>8. QED
        BY <2>6, <2>7 DEF q, a, b
<1>6. ASSUME NEW s \in Texts, NEW k \in Nat
      PROVE  /\ k + 1 <= Len(s) => (SubSeq(s, k + 1, k + 1) = <<Backslash>> <=> s[k + 1] = Backslash)
             /\ k + 2 <= Len(s) => (SubSeq(s, k + 1, k + 2) = <<Backslash, Backslash>>
                                    <=> s[k + 1] = Backslash /\ s[k + 2] = Backslash)
             /\ k + 4 <= Len(s) => (SubSeq(s, k + 1, k + 4) = NulEscape
                                    <=> s[k + 1] = Backslash /\ s[k + 2] = "0" /\ s[k + 3] = "0" /\ s[k + 4] = "0")
    <2>1. 1..1 = {1} /\ 1..2 = {1, 2} /\ 1..4 = {1, 2, 3, 4}
        OBVIOUS
    <2>2. ASSUME k + 1 <= Len(s)
          PROVE  SubSeq(s, k + 1, k + 1) = <<Backslash>> <=> s[k + 1] = Backslash
        <3> DEFINE p == <<Backslash>>
        <3>1. p \in Texts /\ Len(p) = 1 /\ 1 \in 1..4 /\ p[1] = Backslash
            BY <1>2, <1>1
        <3> HIDE DEF p
        <3>2. SubSeq(s, k + 1, k + 1) = p <=> \A i \in 1..1 : s[k + i] = p[i]
            BY <1>5, <2>2, <3>1
        <3>3. SubSeq(s, k + 1, k + 1) = p <=> s[k + 1] = Backslash
            BY <2>1, <3>1, <3>2
        <3>4. QED
            BY <3>3 DEF p
    <2>3. ASSUME k + 2 <= Len(s)
          PROVE  SubSeq(s, k + 1, k + 2) = <<Backslash, Backslash>> <=> s[k + 1] = Backslash /\ s[k + 2] = Backslash
        <3> DEFINE p == <<Backslash, Backslash>>
        <3>1. p \in Texts /\ Len(p) = 2 /\ 2 \in 1..4 /\ p[1] = Backslash /\ p[2] = Backslash
            BY <1>2, <1>1
        <3> HIDE DEF p
        <3>2. SubSeq(s, k + 1, k + 2) = p <=> \A i \in 1..2 : s[k + i] = p[i]
            BY <1>5, <2>3, <3>1
        <3>3. SubSeq(s, k + 1, k + 2) = p <=> s[k + 1] = Backslash /\ s[k + 2] = Backslash
            BY <2>1, <3>1, <3>2
        <3>4. QED
            BY <3>3 DEF p
    <2>4. ASSUME k + 4 <= Len(s)
          PROVE  SubSeq(s, k + 1, k + 4) = NulEscape
                    <=> s[k + 1] = Backslash /\ s[k + 2] = "0" /\ s[k + 3] = "0" /\ s[k + 4] = "0"
        <3>1. SubSeq(s, k + 1, k + 4) = NulEscape <=> \A i \in 1..4 : s[k + i] = NulEscape[i]
            BY <1>2, <1>5, <2>4
        <3>2. QED
            BY <1>4, <2>1, <3>1
    <2>5. QED
        BY <2>2, <2>3, <2>4
<1>7. QED
    BY <1>2, <1>1, <1>4, <1>6

-----------------------------------------------------------------------------
(* The length of what is compiled, and strings behind each other. *)

\* No escape of s can take a character that stands behind s.
Closed(s) == \A i \in 1..Len(s) : s[i] = Backslash => i + 3 <= Len(s)

LEMMA DropConcat ==
    ASSUME NEW X, NEW s \in Seq(X), NEW t \in Seq(X), NEW k \in 0..Len(s)
    PROVE  Drop(s \o t, k) = Drop(s, k) \o t
<1> DEFINE u == s \o t
<1>1. Len(s) \in Nat /\ Len(t) \in Nat /\ k \in Nat
    BY LenProperties
<1>2. u \in Seq(X) /\ Len(u) = Len(s) + Len(t)
      /\ \A i \in 1..(Len(s) + Len(t)) : u[i] = IF i <= Len(s) THEN s[i] ELSE t[i - Len(s)]
    BY ConcatProperties
<1> HIDE DEF u
<1>3. k \in 0..Len(u)
    BY <1>1, <1>2
<1> DEFINE a == Drop(u, k)
           d == Drop(s, k)
           b == d \o t
<1>4. a \in Seq(X) /\ Len(a) = Len(u) - k /\ \A i \in 1..(Len(u) - k) : a[i] = u[k + i]
    BY <1>2, <1>3, DropIs
<1>5. d \in Seq(X) /\ Len(d) = Len(s) - k /\ \A i \in 1..(Len(s) - k) : d[i] = s[k + i]
    BY DropIs
<1> HIDE DEF a, d
<1>6. b \in Seq(X) /\ Len(b) = Len(d) + Len(t)
      /\ \A i \in 1..(Len(d) + Len(t)) : b[i] = IF i <= Len(d) THEN d[i] ELSE t[i - Len(d)]
    BY <1>5, ConcatProperties
<1> HIDE DEF b
<1>7. Len(a) = Len(b)
    BY <1>1, <1>2, <1>4, <1>5, <1>6
<1>8. ASSUME NEW i \in 1..Len(a)
      PROVE  a[i] = b[i]
    <2>1. i \in 1..(Len(u) - k) /\ i \in 1..(Len(d) + Len(t)) /\ k + i \in 1..(Len(s) + Len(t))
          /\ (i <= Len(d) <=> k + i <= Len(s)) /\ k + i - Len(s) = i - Len(d)
        BY <1>1, <1>2, <1>4, <1>5, <1>6, <1>7
    <2>2. a[i] = u[k + i] /\ u[k + i] = IF k + i <= Len(s) THEN s[k + i] ELSE t[k + i - Len(s)]
        BY <1>2, <1>4, <2>1
    <2>3. b[i] = IF i <= Len(d) THEN d[i] ELSE t[i - Len(d)]
        BY <1>6, <2>1
    <2>4. i <= Len(d) => i \in 1..(Len(s) - k)
        BY <1>1, <1>5
    <2>5. i <= Len(d) => d[i] = s[k + i]
        BY <1>5, <2>4
    <2>6. QED
        BY <2>1, <2>2, <2>3, <2>5
<1>9. a = b
    BY <1>4, <1>6, <1>7, <1>8, SeqEqual
<1>10. QED
    BY <1>9 DEF a, b, d, u

\* A closed source in front of another one: its first character, and what is behind that one.
LEMMA FirstOfConcat ==
    ASSUME NEW s \in Texts, NEW t \in Texts, s # <<>>, Closed(s)
    PROVE  LET w == SourceLen(s, 1)
               r == Drop(s, w)
               u == s \o t
           IN  /\ w \in 1..4 /\ w <= Len(s) /\ r \in Texts /\ Len(r) = Len(s) - w /\ Closed(r)
               /\ u \in Texts /\ u # <<>> /\ Len(u) = Len(s) + Len(t) /\ \A i \in 1..Len(s) : u[i] = s[i]
               /\ SourceLen(u, 1) = w /\ SubSeq(u, 1, w) = SubSeq(s, 1, w) /\ Drop(u, w) = r \o t
<1> DEFINE u == s \o t
           w == SourceLen(s, 1)
           r == Drop(s, w)
<1>1. Len(s) \in Nat /\ Len(t) \in Nat /\ Len(s) # 0 /\ 1 \in 1..Len(s)
    <2>1. Len(s) \in Nat /\ Len(t) \in Nat /\ Len(s) # 0
        BY EmptySeq, CodesOf DEF Texts
    <2>2. QED
        BY <2>1
<1>2. w \in 1..4 /\ w <= Len(s) /\ r \in Texts /\ Compiled(s) = <<SubSeq(s, 1, w)>> \o Compiled(r)
    BY CompiledStep
<1>3. u \in Texts /\ Len(u) = Len(s) + Len(t) /\ \A i \in 1..Len(s) : u[i] = s[i]
    <2>1. u \in Texts /\ Len(u) = Len(s) + Len(t)
          /\ \A i \in 1..(Len(s) + Len(t)) : u[i] = IF i <= Len(s) THEN s[i] ELSE t[i - Len(s)]
        BY ConcatProperties DEF Texts
    <2>2. \A i \in 1..Len(s) : i \in 1..(Len(s) + Len(t)) /\ i <= Len(s)
        BY <1>1
    <2> HIDE DEF u
    <2>3. QED
        BY <2>1, <2>2
<1> HIDE DEF u
<1>4. SourceLen(u, 1) = w
    <2>1. CASE s[1] # Backslash
        BY <1>1, <1>3, <2>1 DEF SourceLen
    <2>2. CASE s[1] = Backslash
        <3>1. 1 + 3 <= Len(s)
            BY <1>1, <2>2 DEF Closed
        <3>2. 1 + 3 <= Len(u) /\ 1 # Len(u) /\ 1 # Len(s) /\ u[1] = Backslash
            BY <1>1, <1>3, <2>2, <3>1
        <3>3. SubSeq(u, 1, 1 + 3) = SubSeq(s, 1, 1 + 3)
            <4>1. 1 + 3 \in 1..Len(s)
                BY <1>1, <3>1
            <4>2. QED
                BY <1>1, <4>1, SubSeqOfConcat1 DEF u, Texts
        <3>4. QED
            BY <2>2, <3>1, <3>2, <3>3 DEF SourceLen
    <2>3. QED
        BY <2>1, <2>2
<1> HIDE DEF w
<1>5. w \in 1..Len(s) /\ w \in 0..Len(s) /\ Len(s) \in Nat
    BY <1>1, <1>2
<1>6. SubSeq(u, 1, w) = SubSeq(s, 1, w)
    BY <1>1, <1>5, SubSeqOfConcat1 DEF u, Texts
<1>7. Drop(u, w) = r \o t
    BY <1>5, DropConcat DEF u, r, Texts
<1>8. Len(r) = Len(s) - w /\ Closed(r)
    <2>1. Len(r) = Len(s) - w /\ \A i \in 1..(Len(s) - w) : r[i] = s[w + i]
        BY <1>5, DropIs DEF Texts
    <2> HIDE DEF r
    <2>2. ASSUME NEW i \in 1..Len(r), r[i] = Backslash
          PROVE  i + 3 <= Len(r)
        <3>1. w + i \in 1..Len(s) /\ s[w + i] = Backslash
            BY <1>1, <1>5, <2>1, <2>2
        <3>2. w + i + 3 <= Len(s)
            BY <3>1 DEF Closed
        <3>3. QED
            BY <1>1, <1>5, <2>1, <3>2
    <2>3. QED
        BY <2>1, <2>2 DEF Closed
<1>9. u # <<>>
    <2>1. Len(u) # 0
        BY <1>1, <1>3
    <2>2. QED
        BY <2>1
<1>10. QED
    BY <1>2, <1>3, <1>4, <1>6, <1>7, <1>8, <1>9 DEF u, w, r

\* Two sources behind each other are compiled to what is compiled of each.
LEMMA CompiledConcat ==
    ASSUME NEW t \in Texts
    PROVE  \A s \in Texts : Closed(s) => Compiled(s \o t) = Compiled(s) \o Compiled(t)
<1> DEFINE Good == {n \in Nat : \A s \in Texts :
                        Len(s) = n /\ Closed(s) => Compiled(s \o t) = Compiled(s) \o Compiled(t)}
<1>1. ASSUME NEW n \in Nat, \A m \in 0..(n - 1) : m \in Good
      PROVE  n \in Good
    <2> SUFFICES ASSUME NEW s \in Texts, Len(s) = n, Closed(s)
                 PROVE  Compiled(s \o t) = Compiled(s) \o Compiled(t)
        OBVIOUS
    <2>1. CASE s = <<>>
        <3>1. s \o t = t /\ Compiled(s) = <<>> /\ Compiled(t) \in Seq(Texts)
            BY <2>1, ConcatEmptySeq, CompiledStep DEF Texts
        <3>2. <<>> \o Compiled(t) = Compiled(t)
            BY <3>1, ConcatEmptySeq
        <3>3. QED
            BY <3>1, <3>2
    <2>2. CASE s # <<>>
        <3> DEFINE u == s \o t
                   w == SourceLen(s, 1)
                   r == Drop(s, w)
        <3>1. Len(s) \in Nat
            BY CodesOf
        <3>2. w \in 1..4 /\ w <= Len(s) /\ r \in Texts /\ Compiled(s) = <<SubSeq(s, 1, w)>> \o Compiled(r)
            BY <2>2, CompiledStep
        <3>3. /\ Len(r) = Len(s) - w /\ Closed(r)
              /\ u \in Texts /\ u # <<>>
              /\ SourceLen(u, 1) = w /\ SubSeq(u, 1, w) = SubSeq(s, 1, w) /\ Drop(u, w) = r \o t
            BY <2>2, FirstOfConcat
        <3> HIDE DEF u, w, r
        <3>4. w \in 1..Len(s) /\ Len(s) - w \in 0..(n - 1)
            BY <3>1, <3>2
        <3>5. Compiled(r \o t) = Compiled(r) \o Compiled(t)
            BY <1>1, <3>2, <3>3, <3>4
        <3>6. Compiled(u) = <<SubSeq(u, 1, w)>> \o Compiled(r \o t)
            BY <3>3, CompiledStep
        <3>7. Compiled(u) = <<SubSeq(s, 1, w)>> \o (Compiled(r) \o Compiled(t))
            BY <3>3, <3>5, <3>6
        <3>8. <<SubSeq(s, 1, w)>> \in Seq(Texts)
            <4>1. s \in Seq(Range(Chars)) /\ w \in Int /\ \A i \in 1..w : s[i] \in Range(Chars)
                BY <3>1, <3>4 DEF Texts
            <4>2. SubSeq(s, 1, w) \in Texts
                BY <4>1, SubSeqProperties DEF Texts
            <4>3. QED
                BY <4>2
        <3>9. Compiled(r) \in Seq(Texts) /\ Compiled(t) \in Seq(Texts)
            BY <3>2, CompiledStep
        <3>10. QED
            BY <3>2, <3>7, <3>8, <3>9, ConcatAssociative DEF u
    <2>3. QED
        BY <2>1, <2>2
<1> HIDE DEF Good
<1>2. \A n \in Nat : n \in Good
    BY <1>1, Induction
<1>3. \A s \in Texts : Len(s) \in Good
    BY <1>2, CodesOf
<1>4. QED
    BY <1>3 DEF Good

\* The backslashes that are counted in the source of one character.
LEMMA CountsOfSource ==
    ASSUME NEW s \in Texts, s # <<>>, s[Len(s)] # Backslash
    PROVE  LET w == SourceLen(s, 1)
               one == <<Backslash>>
               two == <<Backslash, Backslash>>
           IN  /\ CountOf(one, s) \in Nat /\ CountOf(two, s) \in Nat
               /\ CountOf(one, Drop(s, w)) \in Nat /\ CountOf(two, Drop(s, w)) \in Nat
               /\ CountOf(one, s) - CountOf(two, s) - CountOf(one, Drop(s, w)) + CountOf(two, Drop(s, w))
                    = w - 1 - (IF SubSeq(s, 1, w) = NulEscape THEN 2 ELSE 0)
<1> DEFINE w == SourceLen(s, 1)
           N == Len(s)
           C(k) == CountOf(<<Backslash>>, Drop(s, k))
           D(k) == CountOf(<<Backslash, Backslash>>, Drop(s, k))
<1>1. N \in Nat /\ N # 0 /\ 1 \in 1..N
    <2>1. N \in Nat /\ N # 0
        BY EmptySeq, CodesOf DEF Texts
    <2> HIDE DEF N
    <2>2. QED
        BY <2>1
<1>2. \A k \in 0..(N - 1) : C(k) = IF s[k + 1] = Backslash THEN 1 + C(k + 1) ELSE C(k + 1)
    <2> SUFFICES ASSUME NEW k \in 0..(N - 1)
                 PROVE  C(k) = IF s[k + 1] = Backslash THEN 1 + C(k + 1) ELSE C(k + 1)
        OBVIOUS
    <2> DEFINE p == <<Backslash>>
    <2>1. p \in Seq(Range(Chars)) /\ Len(p) = 1 /\ p # <<>> /\ s \in Seq(Range(Chars))
        BY Patterns DEF Texts
    <2>2. k + 1 <= N /\ k \in Nat
        BY <1>1
    <2>3. SubSeq(s, k + 1, k + 1) = p <=> s[k + 1] = Backslash
        BY <2>2, Patterns
    <2> HIDE DEF p
    <2>4. CountOf(p, Drop(s, k)) = IF k + Len(p) <= Len(s) /\ SubSeq(s, k + 1, k + Len(p)) = p
                                   THEN 1 + CountOf(p, Drop(s, k + Len(p))) ELSE CountOf(p, Drop(s, k + 1))
        BY <2>1, CountAt
    <2>5. QED
        BY <2>1, <2>2, <2>3, <2>4 DEF p
<1>3. \A k \in 0..(N - 1) : D(k) = IF k + 2 <= N /\ s[k + 1] = Backslash /\ s[k + 2] = Backslash
                                   THEN 1 + D(k + 2) ELSE D(k + 1)
    <2> SUFFICES ASSUME NEW k \in 0..(N - 1)
                 PROVE  D(k) = IF k + 2 <= N /\ s[k + 1] = Backslash /\ s[k + 2] = Backslash
                               THEN 1 + D(k + 2) ELSE D(k + 1)
        OBVIOUS
    <2> DEFINE p == <<Backslash, Backslash>>
    <2>1. p \in Seq(Range(Chars)) /\ Len(p) = 2 /\ p # <<>> /\ s \in Seq(Range(Chars))
        BY Patterns DEF Texts
    <2>2. k \in Nat
        BY <1>1
    <2>3. k + 2 <= N => (SubSeq(s, k + 1, k + 2) = p <=> s[k + 1] = Backslash /\ s[k + 2] = Backslash)
        BY <2>2, Patterns
    <2> HIDE DEF p
    <2>4. CountOf(p, Drop(s, k)) = IF k + Len(p) <= Len(s) /\ SubSeq(s, k + 1, k + Len(p)) = p
                                   THEN 1 + CountOf(p, Drop(s, k + Len(p))) ELSE CountOf(p, Drop(s, k + 1))
        BY <2>1, CountAt
    <2>5. QED
        BY <2>1, <2>3, <2>4 DEF p
<1>4. \A k \in 0..N : C(k) \in Nat /\ D(k) \in Nat
    <2>1. s \in Seq(Range(Chars)) /\ <<Backslash>> \in Seq(Range(Chars)) /\ <<Backslash>> # <<>>
          /\ <<Backslash, Backslash>> \in Seq(Range(Chars)) /\ <<Backslash, Backslash>> # <<>>
        BY Patterns DEF Texts
    <2> DEFINE p == <<Backslash>>
               q == <<Backslash, Backslash>>
    <2> HIDE DEF p, q
    <2>2. \A k \in 0..N : CountOf(p, Drop(s, k)) \in Nat
        BY <2>1, CountAt DEF p
    <2>3. \A k \in 0..N : CountOf(q, Drop(s, k)) \in Nat
        BY <2>1, CountAt DEF q
    <2>4. QED
        BY <2>2, <2>3 DEF p, q
<1>5. Drop(s, 0) = s
    <2>1. 0 \in 0..N /\ s \in Seq(Range(Chars))
        BY <1>1 DEF Texts
    <2>2. QED
        BY <2>1, DropIs
<1>6. w \in 1..4 /\ w <= N
    BY CompiledStep
<1>7. s[N] # Backslash
    OBVIOUS
<1> DEFINE nul == SubSeq(s, 1, w) = NulEscape
<1>8. CASE s[1] # Backslash
    <2>1. w = 1
        BY <1>8 DEF SourceLen
    <2>2. ~ nul
        <3>1. s \in Seq(Range(Chars)) /\ 1 \in Int /\ \A i \in 1..1 : s[i] \in Range(Chars)
            BY <1>1, CodesOf DEF Texts
        <3>2. Len(SubSeq(s, 1, 1)) = 1
            BY <3>1, SubSeqProperties
        <3>3. Len(NulEscape) = 4
            BY Patterns
        <3>4. SubSeq(s, 1, 1) # NulEscape
            BY <3>2, <3>3
        <3>5. QED
            BY <2>1, <3>4
    <2> HIDE DEF w, C, D, nul, N
    <2>3. C(0) = C(1) /\ D(0) = D(1) /\ C(1) \in Nat /\ D(1) \in Nat
        <3>1. 0 \in 0..(N - 1) /\ 1 \in 0..N /\ 0 + 1 = 1
            BY <1>1
        <3>2. QED
            BY <1>2, <1>3, <1>4, <1>8, <3>1
    <2>4. C(0) - D(0) - C(w) + D(w) = w - 1 - (IF nul THEN 2 ELSE 0) /\ C(0) \in Nat /\ D(0) \in Nat
          /\ C(w) \in Nat /\ D(w) \in Nat
        BY <2>1, <2>2, <2>3
    <2>5. QED
        BY <1>5, <2>4 DEF w, C, D, nul
<1>9. CASE s[1] = Backslash
    <2>1. 1 # N /\ 2 \in 1..N
        <3> HIDE DEF N
        <3>1. 1 # N
            BY <1>7, <1>9
        <3>2. QED
            BY <1>1, <3>1
    <2>2. CASE 4 <= N /\ SubSeq(s, 1, 4) = NulEscape
        <3>1. w = 4 /\ nul
            <4>1. 1 + 3 = 4
                OBVIOUS
            <4>2. w = 4
                BY <1>9, <2>1, <2>2, <4>1 DEF SourceLen
            <4>3. QED
                BY <2>2, <4>2
        <3>2. s[2] = "0" /\ s[3] = "0" /\ s[4] = "0"
            <4>1. PICK k \in Nat : k + 4 <= Len(s) /\ k + 1 = 1 /\ k + 2 = 2 /\ k + 3 = 3 /\ k + 4 = 4
                <5>1. 0 \in Nat /\ 0 + 4 <= Len(s) /\ 0 + 1 = 1 /\ 0 + 2 = 2 /\ 0 + 3 = 3 /\ 0 + 4 = 4
                    BY <2>2
                <5>2. QED
                    BY <5>1
            <4>2. SubSeq(s, k + 1, k + 4) = NulEscape
                BY <2>2, <4>1
            <4>3. s[k + 2] = "0" /\ s[k + 3] = "0" /\ s[k + 4] = "0"
                BY <4>1, <4>2, Patterns
            <4>4. QED
                BY <4>1, <4>3
        <3>3. s[2] # Backslash /\ s[3] # Backslash /\ s[4] # Backslash
            BY <3>2 DEF Backslash
        <3> HIDE DEF w, C, D, nul, N
        <3>4. 0 \in 0..(N - 1) /\ 1 \in 0..(N - 1) /\ 2 \in 0..(N - 1) /\ 3 \in 0..(N - 1) /\ 4 \in 0..N
              /\ 0 + 1 = 1 /\ 1 + 1 = 2 /\ 2 + 1 = 3 /\ 3 + 1 = 4 /\ 0 + 2 = 2 /\ 1 + 2 = 3 /\ 2 + 2 = 4
            BY <1>1, <2>2
        <3>5. C(0) = 1 + C(1) /\ C(1) = C(2) /\ C(2) = C(3) /\ C(3) = C(4)
            BY <1>2, <1>9, <3>3, <3>4
        <3>6. D(0) = D(1) /\ D(1) = D(2) /\ D(2) = D(3) /\ D(3) = D(4)
            BY <1>3, <3>3, <3>4
        <3>7. C(4) \in Nat /\ D(4) \in Nat
            BY <1>4, <3>4
        <3>8. C(0) - D(0) - C(w) + D(w) = w - 1 - (IF nul THEN 2 ELSE 0) /\ C(0) \in Nat /\ D(0) \in Nat
              /\ C(w) \in Nat /\ D(w) \in Nat
            BY <3>1, <3>5, <3>6, <3>7
        <3>9. QED
            BY <1>5, <3>8 DEF w, C, D, nul
    <2>3. CASE ~ (4 <= N /\ SubSeq(s, 1, 4) = NulEscape)
        <3>1. w = 2
            <4>1. 1 + 3 = 4
                OBVIOUS
            <4>2. QED
                BY <1>9, <2>1, <2>3, <4>1 DEF SourceLen
        <3>2. ~ nul
            <4>1. s \in Seq(Range(Chars)) /\ 1 \in Int /\ 2 \in Int /\ \A i \in 1..2 : s[i] \in Range(Chars)
                BY <1>1, <2>1, CodesOf DEF Texts
            <4>2. Len(SubSeq(s, 1, 2)) = 2
                BY <4>1, SubSeqProperties
            <4>3. Len(NulEscape) = 4
                BY Patterns
            <4>4. SubSeq(s, 1, 2) # NulEscape
                BY <4>2, <4>3
            <4>5. QED
                BY <3>1, <4>4
        <3> HIDE DEF w, C, D, nul, N
        <3>3. 0 \in 0..(N - 1) /\ 1 \in 0..(N - 1) /\ 2 \in 0..N
              /\ 0 + 1 = 1 /\ 1 + 1 = 2 /\ 0 + 2 = 2 /\ 2 <= N
            BY <1>1, <2>1
        <3>4. C(2) \in Nat /\ D(2) \in Nat
            BY <1>4, <3>3
        <3>5. CASE s[2] = Backslash
            <4>1. C(0) = 1 + C(1) /\ C(1) = 1 + C(2) /\ D(0) = 1 + D(2)
                BY <1>2, <1>3, <1>9, <3>3, <3>5
            <4>2. C(0) - D(0) - C(w) + D(w) = w - 1 - (IF nul THEN 2 ELSE 0) /\ C(0) \in Nat /\ D(0) \in Nat
                  /\ C(w) \in Nat /\ D(w) \in Nat
                BY <3>1, <3>2, <3>4, <4>1
            <4>3. QED
                BY <1>5, <4>2 DEF w, C, D, nul
        <3>6. CASE s[2] # Backslash
            <4>1. C(0) = 1 + C(1) /\ C(1) = C(2) /\ D(0) = D(1) /\ D(1) = D(2)
                BY <1>2, <1>3, <1>9, <3>3, <3>6
            <4>2. C(0) - D(0) - C(w) + D(w) = w - 1 - (IF nul THEN 2 ELSE 0) /\ C(0) \in Nat /\ D(0) \in Nat
                  /\ C(w) \in Nat /\ D(w) \in Nat
                BY <3>1, <3>2, <3>4, <4>1
            <4>3. QED
                BY <1>5, <4>2 DEF w, C, D, nul
        <3>7. QED
            BY <3>5, <3>6
    <2>4. QED
        BY <2>2, <2>3
<1>10. QED
    BY <1>8, <1>9

(***************************************************************************)
(* c_len is the number of characters that are compiled, of every source    *)
(* that does not end with a backslash and has no \000 behind a backslash.  *)
(***************************************************************************)
LEMMA CLenIs ==
    \A s \in Texts : (s # <<>> => s[Len(s)] # Backslash) /\ ~ LooksLikeNul(s) => c_len(s) = Len(Compiled(s))
<1> DEFINE Ends(s) == s # <<>> => s[Len(s)] # Backslash
           One(s) == CountOf(<<Backslash>>, s)
           Two(s) == CountOf(<<Backslash, Backslash>>, s)
           Nuls(s) == CountOf(<<NulEscape>>, Compiled(s))
           Good == {n \in Nat : \A s \in Texts :
                        Len(s) = n /\ Ends(s) => Len(Compiled(s)) = n - One(s) + Two(s) - 2 * Nuls(s)}
<1>1. ASSUME NEW n \in Nat, \A m \in 0..(n - 1) : m \in Good
      PROVE  n \in Good
    <2> SUFFICES ASSUME NEW s \in Texts, Len(s) = n, Ends(s)
                 PROVE  Len(Compiled(s)) = n - One(s) + Two(s) - 2 * Nuls(s)
        OBVIOUS
    <2>1. CASE s = <<>>
        <3>1. <<Backslash>> \in Seq(Range(Chars)) /\ <<Backslash>> # <<>>
              /\ <<Backslash, Backslash>> \in Seq(Range(Chars)) /\ <<Backslash, Backslash>> # <<>>
              /\ <<>> \in Seq(Range(Chars))
            BY Patterns, EmptySeq DEF Texts
        <3> DEFINE p == <<Backslash>>
                   q == <<Backslash, Backslash>>
                   z == <<NulEscape>>
        <3>2. z \in Seq(Texts) /\ z # <<>> /\ <<>> \in Seq(Texts)
            BY Patterns, EmptySeq
        <3> HIDE DEF p, q, z
        <3>3. CountOf(p, <<>>) = 0
            BY <3>1, CountAt DEF p
        <3>4. CountOf(q, <<>>) = 0
            BY <3>1, CountAt DEF q
        <3>5. CountOf(z, <<>>) = 0
            BY <3>2, CountAt
        <3>6. Compiled(s) = <<>> /\ n = 0 /\ Len(<<>>) = 0
            BY <2>1, CompiledStep
        <3>7. One(s) = 0 /\ Two(s) = 0 /\ Nuls(s) = 0
            BY <2>1, <3>3, <3>4, <3>5, <3>6 DEF p, q, z
        <3> HIDE DEF One, Two, Nuls
        <3>8. QED
            BY <3>6, <3>7
    <2>2. CASE s # <<>>
        <3> DEFINE w == SourceLen(s, 1)
                   r == Drop(s, w)
                   c == SubSeq(s, 1, w)
        <3>1. s[Len(s)] # Backslash /\ Len(s) \in Nat
            BY <2>2, CodesOf
        <3>2. w \in 1..4 /\ w <= Len(s) /\ r \in Texts /\ Compiled(s) = <<c>> \o Compiled(r)
            BY <2>2, CompiledStep
        <3>3. /\ One(s) \in Nat /\ Two(s) \in Nat /\ One(r) \in Nat /\ Two(r) \in Nat
              /\ One(s) - Two(s) - One(r) + Two(r) = w - 1 - (IF c = NulEscape THEN 2 ELSE 0)
            BY <2>2, <3>1, CountsOfSource
        <3> HIDE DEF w
        <3>4. w \in 0..Len(s) /\ n - w \in 0..(n - 1)
            BY <3>1, <3>2
        <3>5. Len(r) = n - w /\ \A i \in 1..(Len(s) - w) : r[i] = s[w + i]
            BY <3>4, DropIs DEF Texts
        <3>6. c \in Texts
            <4>1. w \in Int /\ 1 \in Int
                BY <3>1, <3>2
            <4>2. \A i \in 1..w : i \in 1..Len(s)
                BY <3>1, <3>2
            <4>3. \A i \in 1..w : s[i] \in Range(Chars)
                BY <4>2, CodesOf
            <4>4. SubSeq(s, 1, w) \in Seq(Range(Chars))
                BY <4>1, <4>3, SubSeqProperties
            <4>5. QED
                BY <4>4 DEF Texts
        <3>7. Ends(r)
            <4> SUFFICES ASSUME r # <<>>
                         PROVE  r[Len(r)] # Backslash
                OBVIOUS
            <4> HIDE DEF r
            <4>1. Len(r) # 0 /\ Len(r) \in Nat
                BY <3>2, EmptySeq, CodesOf DEF Texts
            <4>2. Len(r) \in 1..(Len(s) - w) /\ w + Len(r) = Len(s)
                BY <3>1, <3>2, <3>5, <4>1
            <4>3. QED
                BY <3>1, <3>5, <4>2
        <3> HIDE DEF r, c
        <3>8. Compiled(r) \in Seq(Texts) /\ Len(Compiled(r)) \in Nat
            <4>1. Compiled(r) \in Seq(Texts)
                BY <3>2, CompiledStep
            <4>2. QED
                BY <4>1, LenProperties
        <3>9. Len(Compiled(s)) = 1 + Len(Compiled(r))
            <4>1. <<c>> \in Seq(Texts) /\ Len(<<c>>) = 1
                BY <3>6
            <4>2. QED
                BY <3>2, <3>8, <4>1, ConcatProperties
        <3>10. Nuls(s) = (IF c = NulEscape THEN 1 ELSE 0) + Nuls(r) /\ Nuls(r) \in Nat
            BY <3>2, <3>6, <3>8, Patterns, CountFirst
        <3>11. Len(Compiled(r)) = (n - w) - One(r) + Two(r) - 2 * Nuls(r)
            <4> HIDE DEF One, Two, Nuls, Ends
            <4>1. n - w \in Good
                BY <1>1, <3>4
            <4>2. QED
                BY <3>2, <3>5, <3>7, <4>1
        <3> HIDE DEF One, Two, Nuls
        <3>12. QED
            <4>1. w \in Int
                BY <3>2
            <4>2. PICK x \in {0, 1} : x = IF c = NulEscape THEN 1 ELSE 0
                OBVIOUS
            <4>3. One(s) - Two(s) - One(r) + Two(r) = w - 1 - 2 * x
                BY <3>3, <4>2
            <4>4. Nuls(s) = x + Nuls(r)
                BY <3>10, <4>2
            <4>5. One(s) \in Nat /\ Two(s) \in Nat /\ One(r) \in Nat /\ Two(r) \in Nat /\ Nuls(r) \in Nat
                BY <3>3, <3>10
            <4> DEFINE a == Len(Compiled(s))
                       b == Len(Compiled(r))
                       o == One(s)
                       t == Two(s)
                       z == Nuls(s)
                       p == One(r)
                       u == Two(r)
                       y == Nuls(r)
            <4>6. /\ a = 1 + b /\ b = (n - w) - p + u - 2 * y
                  /\ o - t - p + u = w - 1 - 2 * x
                  /\ z = x + y
                  /\ o \in Int /\ t \in Int /\ p \in Int /\ u \in Int /\ y \in Int /\ x \in Int
                BY <3>9, <3>11, <4>3, <4>4, <4>5
            <4> HIDE DEF a, b, o, t, z, p, u, y
            <4>7. a = n - o + t - 2 * z
                BY <4>1, <4>6
            <4>8. QED
                BY <4>7 DEF a, o, t, z
    <2>3. QED
        BY <2>1, <2>2
<1> HIDE DEF Good
<1>2. \A n \in Nat : n \in Good
    BY <1>1, Induction
<1>3. ASSUME NEW s \in Texts, Ends(s), ~ LooksLikeNul(s)
      PROVE  c_len(s) = Len(Compiled(s))
    <2>1. Len(s) \in Good
        BY <1>2, CodesOf
    <2>2. Len(Compiled(s)) = Len(s) - One(s) + Two(s) - 2 * Nuls(s)
        BY <1>3, <2>1 DEF Good
    <2>3. Nuls(s) = CountOf(NulEscape, s)
        BY <1>3 DEF LooksLikeNul
    <2>4. QED
        BY <2>2, <2>3 DEF c_len
<1>4. QED
    BY <1>3

-----------------------------------------------------------------------------
(* Every string that is added is closed. *)

LEMMA ClosedConcat ==
    ASSUME NEW s \in Texts, NEW t \in Texts, Closed(s), Closed(t)
    PROVE  s \o t \in Texts /\ Closed(s \o t)
<1> DEFINE u == s \o t
<1>1. Len(s) \in Nat /\ Len(t) \in Nat
    BY CodesOf
<1>2. u \in Texts /\ Len(u) = Len(s) + Len(t)
      /\ \A i \in 1..(Len(s) + Len(t)) : u[i] = IF i <= Len(s) THEN s[i] ELSE t[i - Len(s)]
    BY ConcatProperties DEF Texts
<1> HIDE DEF u
<1>3. ASSUME NEW i \in 1..Len(u), u[i] = Backslash
      PROVE  i + 3 <= Len(u)
    <2>1. CASE i <= Len(s)
        <3>1. i \in 1..Len(s) /\ s[i] = Backslash
            BY <1>1, <1>2, <1>3, <2>1
        <3>2. i + 3 <= Len(s)
            BY <3>1 DEF Closed
        <3>3. QED
            BY <1>1, <1>2, <3>2
    <2>2. CASE ~ (i <= Len(s))
        <3>1. i - Len(s) \in 1..Len(t) /\ t[i - Len(s)] = Backslash
            BY <1>1, <1>2, <1>3, <2>2
        <3>2. i - Len(s) + 3 <= Len(t)
            BY <3>1 DEF Closed
        <3>3. QED
            BY <1>1, <1>2, <3>2
    <2>3. QED
        BY <2>1, <2>2
<1>4. QED
    BY <1>2, <1>3 DEF u, Closed

\* A string with \000 behind it is closed, and so is a digit.
LEMMA ClosedEnds ==
    /\ \A s \in Texts : s \o NulEscape \in Texts /\ Closed(s \o NulEscape)
    /\ \A c \in Texts : Len(c) = 1 /\ c[1] # Backslash => Closed(c)
    /\ \A s \in Texts : Closed(s) => (s # <<>> => s[Len(s)] # Backslash)
<1>1. ASSUME NEW s \in Texts
      PROVE  s \o NulEscape \in Texts /\ Closed(s \o NulEscape)
    <2> DEFINE u == s \o NulEscape
    <2>1. Len(s) \in Nat /\ NulEscape \in Texts /\ Len(NulEscape) = 4
        BY CodesOf, Patterns
    <2>2. u \in Texts /\ Len(u) = Len(s) + 4
          /\ \A i \in 1..(Len(s) + 4) : u[i] = IF i <= Len(s) THEN s[i] ELSE NulEscape[i - Len(s)]
        <3> DEFINE q == NulEscape
        <3>1. q \in Seq(Range(Chars)) /\ s \in Seq(Range(Chars))
            BY <2>1 DEF Texts
        <3> HIDE DEF q
        <3>2. s \o q \in Seq(Range(Chars)) /\ Len(s \o q) = Len(s) + Len(q)
              /\ \A i \in 1..(Len(s) + Len(q)) : (s \o q)[i] = IF i <= Len(s) THEN s[i] ELSE q[i - Len(s)]
            BY <3>1, ConcatProperties
        <3>3. Len(q) = 4
            BY <2>1 DEF q
        <3>4. QED
            BY <3>2, <3>3 DEF q, Texts
    <2>3. ASSUME NEW b, NEW z
          PROVE  LET q == <<b, z, z, z>> IN q[2] = z /\ q[3] = z /\ q[4] = z
        OBVIOUS
    <2>4. NulEscape[2] # Backslash /\ NulEscape[3] # Backslash /\ NulEscape[4] # Backslash
        <3>1. NulEscape[2] = "0" /\ NulEscape[3] = "0" /\ NulEscape[4] = "0"
            BY <2>3 DEF NulEscape
        <3>2. QED
            BY <3>1 DEF Backslash
    <2> HIDE DEF u
    <2>5. ASSUME NEW i \in 1..Len(u), u[i] = Backslash
          PROVE  i + 3 <= Len(u)
        <3>1. CASE i <= Len(s) + 1
            BY <2>1, <2>2, <3>1
        <3>2. CASE ~ (i <= Len(s) + 1)
            <4>1. PICK j \in 2..4 : j = i - Len(s)
                BY <2>1, <2>2, <3>2
            <4>2. u[i] = NulEscape[j]
                BY <2>1, <2>2, <3>2, <4>1
            <4>3. j = 2 \/ j = 3 \/ j = 4
                OBVIOUS
            <4>4. QED
                BY <2>4, <2>5, <4>2, <4>3
        <3>3. QED
            BY <3>1, <3>2
    <2>6. QED
        BY <2>2, <2>5 DEF u, Closed
<1>2. \A c \in Texts : Len(c) = 1 /\ c[1] # Backslash => Closed(c)
    BY DEF Closed
<1>3. ASSUME NEW s \in Texts, Closed(s), s # <<>>, s[Len(s)] = Backslash
      PROVE  FALSE
    <2>1. Len(s) \in Nat /\ Len(s) # 0
        BY <1>3, EmptySeq, CodesOf DEF Texts
    <2>2. Len(s) \in 1..Len(s)
        BY <2>1
    <2>3. Len(s) + 3 <= Len(s)
        BY <1>3, <2>2 DEF Closed
    <2>4. QED
        BY <2>1, <2>3
<1>4. QED
    BY <1>1, <1>2, <1>3

LEMMA FieldClosed ==
    ASSUME NEW e \in Entries, NEW metric \in BOOLEAN, NEW n \in 1..Len(Attributes(metric))
    PROVE  Field(e, Attributes(metric)[n], metric) \in Texts /\ Closed(Field(e, Attributes(metric)[n], metric))
<1> DEFINE attr == Attributes(metric)[n]
<1>1. attr \in Fields /\ e[attr] \in Texts /\ Source(e, attr, metric) \in Texts /\ Field(e, attr, metric) \in Texts
    BY EntryParts
<1> HIDE DEF attr
<1>2. CASE attr \in EnumAttributes
    <2>1. CASE e[attr] = <<>>
        <3>1. <<"0">> \in Texts /\ Len(<<"0">>) = 1 /\ <<"0">>[1] # Backslash
            <4>1. ASSUME NEW z
                  PROVE  Len(<<z>>) = 1 /\ <<z>>[1] = z
                OBVIOUS
            <4>2. "0" # Backslash
                BY DEF Backslash
            <4>3. QED
                BY <4>1, <4>2, TextParts
        <3>2. Field(e, attr, metric) = <<"0">>
            BY <1>2, <2>1 DEF Field
        <3>3. QED
            BY <3>1, <3>2, ClosedEnds DEF attr
    <2>2. CASE e[attr] # <<>>
        <3>1. Len(e[attr]) = 1 /\ e[attr][1] # Backslash
            BY <1>1, <1>2, <2>2, EntriesAssumption
        <3>2. Field(e, attr, metric) = e[attr]
            BY <1>2, <2>2 DEF Field
        <3>3. QED
            BY <1>1, <3>1, <3>2, ClosedEnds DEF attr
    <2>3. QED
        BY <2>1, <2>2
<1>3. CASE attr \notin EnumAttributes
    <2>1. Field(e, attr, metric) = Source(e, attr, metric) \o NulEscape
        BY <1>3 DEF Field
    <2>2. QED
        BY <1>1, <2>1, ClosedEnds DEF attr
<1>4. QED
    BY <1>1, <1>2, <1>3 DEF attr

LEMMA BuildClosed ==
    ASSUME NEW e \in Entries, NEW metric \in BOOLEAN
    PROVE  Closed(PmuString(e["pmu"])) /\ Closed(build_c_string(e, metric))
<1> DEFINE N == Len(Attributes(metric))
           Piece(n) == Field(e, Attributes(metric)[n], metric)
           S == {s \in Texts : Closed(s)}
           back == [n \in 1..N |-> n - 1]
<1>1. N \in Nat /\ N \in 0..N
    BY EntryParts
<1>2. \A n \in 1..N : Piece(n) \in S
    BY FieldClosed
<1>3. PICK first \in [0..N -> Texts] : /\ build_c_string(e, metric) = first[N]
                                       /\ first[0] = <<>>
                                       /\ \A n \in 1..N : first[n] = first[n - 1] \o Piece(n)
    BY BuildIs
<1> HIDE DEF N, Piece
<1>4. \A s, t \in S : s \o t \in S
    BY ClosedConcat
<1>5. <<>> \in S
    <2>1. <<>> \in Texts /\ Len(<<>>) = 0
        BY TextParts
    <2>2. QED
        BY <2>1 DEF Closed
<1> HIDE DEF S
<1>6. back \in Earlier(N) /\ \A n \in 1..N : back[n] = n - 1
    BY <1>1 DEF Earlier
<1>7. first[0] \in S /\ \A n \in 1..N : first[back[n]] \in S => first[n] \in S
    BY <1>2, <1>3, <1>4, <1>5, <1>6
<1> HIDE DEF back
<1>8. \A n \in 0..N : first[n] \in S
    BY <1>1, <1>6, <1>7, RecursionStays
<1>9. build_c_string(e, metric) \in S
    BY <1>1, <1>3, <1>8
<1>10. Closed(PmuString(e["pmu"]))
    BY EntryParts, ClosedEnds DEF PmuString
<1>11. QED
    BY <1>9, <1>10 DEF S

-----------------------------------------------------------------------------
(* OffsetsReadBack. *)

\* text stands in memory behind its first o characters.
StandsAt(memory, o, text) ==
    /\ o \in Nat /\ o + Len(text) <= Len(memory)
    /\ \A j \in 1..Len(text) : memory[o + j] = text[j]

LEMMA StandsIs ==
    ASSUME NEW X, NEW memory \in Seq(X), NEW text \in Seq(X), NEW o, StandsAt(memory, o, text)
    PROVE  SubSeq(memory, o + 1, o + Len(text)) = text
<1>1. Len(memory) \in Nat /\ Len(text) \in Nat /\ o \in Nat /\ o + Len(text) <= Len(memory)
      /\ \A j \in 1..Len(text) : memory[o + j] = text[j]
    BY LenProperties DEF StandsAt
<1>2. SubSeq(memory, o + 1, o + Len(text)) = SubSeq(text, 1, Len(text))
    <2> DEFINE n == Len(text)
    <2>1. 1 \in Nat \ {0} /\ n \in Nat /\ o + n <= Len(memory) /\ n <= Len(text)
        BY <1>1
    <2>2. \A i \in 1..n : text[i] = memory[o + i]
        BY <1>1
    <2> HIDE DEF n
    <2>3. SubSeq(memory, o + 1, o + n) = SubSeq(text, 1, n)
        BY <1>1, <2>1, <2>2, SameParts
    <2>4. QED
        BY <2>3 DEF n
<1>3. QED
    BY <1>2, SubSeqFull

\* What is the end of what.
LEMMA SuffixIs ==
    ASSUME NEW X, NEW s \in Seq(X), NEW t \in Seq(X), IsSuffix(s, t)
    PROVE  Len(s) <= Len(t) /\ \A j \in 1..Len(s) : s[j] = t[Len(t) - Len(s) + j]
<1> DEFINE a == Reverse(s)
           b == Reverse(t)
<1>1. Len(s) \in Nat /\ Len(t) \in Nat
    BY LenProperties
<1>2. a \in Seq(X) /\ Len(a) = Len(s) /\ \A i \in 1..Len(s) : a[i] = s[Len(s) - i + 1]
    <2>1. a = [i \in 1..Len(s) |-> s[Len(s) - i + 1]]
        BY DEF Reverse
    <2>2. \A i \in 1..Len(s) : Len(s) - i + 1 \in 1..Len(s)
        BY <1>1
    <2> HIDE DEF a
    <2>3. QED
        BY <1>1, <2>1, <2>2
<1>3. b \in Seq(X) /\ Len(b) = Len(t) /\ \A i \in 1..Len(t) : b[i] = t[Len(t) - i + 1]
    <2>1. b = [i \in 1..Len(t) |-> t[Len(t) - i + 1]]
        BY DEF Reverse
    <2>2. \A i \in 1..Len(t) : Len(t) - i + 1 \in 1..Len(t)
        BY <1>1
    <2> HIDE DEF b
    <2>3. QED
        BY <1>1, <2>1, <2>2
<1>4. IsPrefix(a, b)
    BY DEF IsSuffix
<1> HIDE DEF a, b
<1>5. Len(a) <= Len(b) /\ \A i \in 1..Len(a) : a[i] = b[i]
    BY <1>2, <1>3, <1>4 DEF IsPrefix
<1>6. ASSUME NEW j \in 1..Len(s)
      PROVE  s[j] = t[Len(t) - Len(s) + j]
    <2> DEFINE i == Len(s) - j + 1
    <2>1. i \in 1..Len(s) /\ i \in 1..Len(t) /\ Len(s) - i + 1 = j /\ Len(t) - i + 1 = Len(t) - Len(s) + j
        BY <1>1, <1>2, <1>3, <1>5
    <2> HIDE DEF i
    <2>2. QED
        BY <1>2, <1>3, <1>5, <2>1
<1>7. QED
    BY <1>2, <1>3, <1>5, <1>6

Plain(S) == \A s \in S : ~ LooksLikeNul(s) /\ \A t \in S : ~ SplitsEscape(s, t)

\* b is what has been written, n characters when it is compiled, and f says where in it
\* each string is.
Placed(S, b, n, f) ==
    Plain(S) => /\ n = Len(Compiled(b))
                /\ \A s \in DOMAIN f : StandsAt(Compiled(b), f[s], Compiled(s))

Placing == {"emit", "offsets"}   \* while offsets are computed

OffsetsInv ==
    /\ \A s \in Range(strings) : s \in Texts /\ Closed(s)
    /\ big \in Texts /\ Closed(big)
    /\ pc \in Before => big = <<>> /\ bigOffset = 0 /\ DOMAIN offsets = {}
    /\ DOMAIN offsets \subseteq Range(strings)
    /\ pc \notin Before \cup {"emit"} => Range(strings) \subseteq DOMAIN folded \cup DOMAIN offsets
    /\ pc \notin Before \cup Placing => Range(strings) \subseteq DOMAIN offsets
    /\ Placed(Range(strings), big, bigOffset, offsets)

\* What a step does to the offsets.
LEMMA OffsetSteps ==
    ASSUME [Next]_vars
    PROVE  \/ \E e \in Entries : ReadEntry(e)
           \/ UNCHANGED <<strings, big, bigOffset, offsets>> /\ pc \in Before /\ pc' \in Before \cup {"emit"}
           \/ EmitString
           \/ EmitEnds
           \/ PlaceFolded
           \/ PlaceEnds
           \/ /\ UNCHANGED <<strings, folded, big, bigOffset, offsets>>
              /\ pc' = pc \/ (pc \notin Before \cup Placing /\ pc' \notin Before \cup Placing)
<1>1. CASE \E e \in Entries : ReadEntry(e)
    BY <1>1
<1>2. CASE ComputeStrings
    <2>1. CASE Compute \/ FoldString \/ FoldEnds
        <3>1. UNCHANGED <<strings, big, bigOffset, offsets>> /\ pc \in Before /\ pc' \in Before \cup {"emit"}
            BY <2>1 DEF Compute, FoldString, FoldEnds, Before
        <3>2. QED
            BY <3>1
    <2>2. QED
        BY <1>2, <2>1 DEF ComputeStrings, BcsStep
<1>3. CASE StartEvents \/ PrintEntry \/ PrintRaises \/ StartMetrics \/ PrintEnds
    <2>1. UNCHANGED <<strings, folded, big, bigOffset, offsets>>
        BY <1>3 DEF StartEvents, PrintEntry, PrintRaises, StartMetrics, PrintEnds, bcsVars
    <2>2. pc' = pc \/ (pc \notin Before \cup Placing /\ pc' \notin Before \cup Placing)
        <3>1. CASE PrintEntry
            BY <3>1 DEF PrintEntry
        <3>2. CASE StartEvents \/ PrintRaises
            BY <3>2 DEF StartEvents, PrintRaises, Printing, Before, Placing
        <3>3. CASE StartMetrics \/ PrintEnds
            BY <3>3 DEF StartMetrics, PrintEnds, Before, Placing
        <3>4. QED
            BY <1>3, <3>1, <3>2, <3>3
    <2>3. QED
        BY <2>1, <2>2
<1>4. CASE UNCHANGED vars
    <2>1. UNCHANGED <<strings, folded, big, bigOffset, offsets>> /\ pc' = pc
        BY <1>4 DEF vars, bcsVars
    <2>2. QED
        BY <2>1
<1>5. QED
    BY <1>1, <1>2, <1>3, <1>4 DEF Next

LEMMA OffsetsInit ==
    Init => OffsetsInv
<1> SUFFICES ASSUME Init
             PROVE  OffsetsInv
    OBVIOUS
<1>1. strings = <<>> /\ big = <<>> /\ bigOffset = 0 /\ offsets = <<>> /\ pc = "add"
    BY DEF Init, BcsInit
<1>2. Range(strings) = {} /\ DOMAIN offsets = {}
    BY <1>1 DEF Range
<1>3. <<>> \in Texts /\ Closed(<<>>) /\ Compiled(<<>>) = <<>> /\ Len(<<>>) = 0
    <2>1. <<>> \in Texts /\ Len(<<>>) = 0
        BY TextParts
    <2>2. Closed(<<>>)
        BY <2>1 DEF Closed
    <2>3. Compiled(<<>>) = <<>>
        BY <2>1, CompiledStep
    <2>4. QED
        BY <2>1, <2>2, <2>3
<1>4. Placed(Range(strings), big, bigOffset, offsets)
    BY <1>1, <1>2, <1>3 DEF Placed
<1>5. QED
    BY <1>1, <1>2, <1>3, <1>4 DEF OffsetsInv, Before, Placing

\* Writing one more string at the end.
LEMMA EmitStep ==
    ASSUME OffsetsInv, EmitString
    PROVE  /\ big' \in Texts /\ Closed(big')
           /\ DOMAIN offsets' \subseteq Range(strings)
           /\ Placed(Range(strings), big', bigOffset', offsets')
<1>1. PICK s \in ToEmit : /\ offsets' = Extended(offsets, s, bigOffset)
                          /\ big' = big \o s
                          /\ bigOffset' = bigOffset + c_len(s)
    BY DEF EmitString
<1>2. s \in Range(strings) /\ s \in Texts /\ Closed(s) /\ big \in Texts /\ Closed(big)
    BY <1>1 DEF ToEmit, OffsetsInv
<1>3. big' \in Texts /\ Closed(big')
    BY <1>1, <1>2, ClosedConcat
<1>4. DOMAIN offsets' = DOMAIN offsets \cup {s} /\ offsets'[s] = bigOffset
      /\ \A t \in DOMAIN offsets : t # s => offsets'[t] = offsets[t]
    BY <1>1 DEF Extended
<1>5. DOMAIN offsets' \subseteq Range(strings)
    BY <1>2, <1>4 DEF OffsetsInv
<1>6. ASSUME Plain(Range(strings))
      PROVE  /\ bigOffset' = Len(Compiled(big'))
             /\ \A t \in DOMAIN offsets' : StandsAt(Compiled(big'), offsets'[t], Compiled(t))
    <2> DEFINE m == Compiled(big)
               c == Compiled(s)
               n == Compiled(big')
    <2>1. m \in Seq(Texts) /\ c \in Seq(Texts) /\ n = m \o c
        BY <1>1, <1>2, CompiledStep, CompiledConcat
    <2>2. bigOffset = Len(m) /\ \A t \in DOMAIN offsets : StandsAt(m, offsets[t], Compiled(t))
        BY <1>6 DEF OffsetsInv, Placed
    <2>3. c_len(s) = Len(c)
        <3>1. ~ LooksLikeNul(s)
            BY <1>2, <1>6 DEF Plain
        <3>2. QED
            BY <1>2, <3>1, ClosedEnds, CLenIs
    <2> HIDE DEF m, c, n
    <2>4. Len(m) \in Nat /\ Len(c) \in Nat /\ Len(n) = Len(m) + Len(c)
          /\ \A i \in 1..(Len(m) + Len(c)) : n[i] = IF i <= Len(m) THEN m[i] ELSE c[i - Len(m)]
        BY <2>1, LenProperties, ConcatProperties
    <2>5. bigOffset' = Len(n)
        BY <1>1, <2>2, <2>3, <2>4
    <2>6. StandsAt(n, bigOffset, c)
        <3>1. \A j \in 1..Len(c) : n[Len(m) + j] = c[j]
            <4>1. \A j \in 1..Len(c) : Len(m) + j \in 1..(Len(m) + Len(c)) /\ ~ (Len(m) + j <= Len(m))
                                       /\ Len(m) + j - Len(m) = j
                BY <2>4
            <4>2. QED
                BY <2>4, <4>1
        <3>2. QED
            BY <2>2, <2>4, <3>1 DEF StandsAt
    <2>7. ASSUME NEW t \in DOMAIN offsets
          PROVE  StandsAt(n, offsets[t], Compiled(t))
        <3> DEFINE o == offsets[t]
                   x == Compiled(t)
        <3>1. StandsAt(m, o, x)
            BY <2>2
        <3>2. x \in Seq(Texts)
            BY CompiledStep DEF OffsetsInv
        <3> HIDE DEF o, x
        <3>3. Len(x) \in Nat
            BY <3>2, LenProperties
        <3>4. o \in Nat /\ o + Len(x) <= Len(m) /\ \A j \in 1..Len(x) : m[o + j] = x[j]
            BY <3>1 DEF StandsAt
        <3>5. \A j \in 1..Len(x) : o + j \in 1..(Len(m) + Len(c)) /\ o + j <= Len(m)
            BY <2>4, <3>3, <3>4
        <3>6. o + Len(x) <= Len(n)
            BY <2>4, <3>3, <3>4
        <3>7. \A j \in 1..Len(x) : n[o + j] = x[j]
            BY <2>4, <3>4, <3>5
        <3>8. QED
            BY <3>4, <3>6, <3>7 DEF StandsAt, o, x
    <2>8. \A t \in DOMAIN offsets' : StandsAt(n, offsets'[t], Compiled(t))
        BY <1>4, <2>6, <2>7 DEF c
    <2>9. QED
        BY <2>5, <2>8 DEF n
<1>7. QED
    BY <1>3, <1>5, <1>6 DEF Placed

\* Placing a folded string in the end of the one it was folded into.
LEMMA PlaceStep ==
    ASSUME FoldingInv, OffsetsInv, PlaceFolded
    PROVE  /\ DOMAIN offsets' \subseteq Range(strings) /\ DOMAIN offsets \subseteq DOMAIN offsets'
           /\ Placed(Range(strings), big, bigOffset, offsets')
<1>1. PICK s \in DOMAIN folded \ DOMAIN offsets :
        /\ folded[s] \in DOMAIN offsets
        /\ offsets' = Extended(offsets, s, offsets[folded[s]] + c_len(folded[s]) - c_len(s))
    BY DEF PlaceFolded
<1> DEFINE t == folded[s]
<1>2. pc = "offsets"
    BY DEF PlaceFolded
<1>3. s \in Range(strings) /\ t \in Range(strings) /\ IsSuffix(s, t)
    <2>1. strings \in Seq(Texts) /\ Lists(sorted, Range(strings)) /\ Folds(sorted, Len(sorted), folded)
        BY <1>2 DEF FoldingInv, Before
    <2>2. QED
        BY <2>1, FoldedIs
<1>4. t \in DOMAIN offsets
    BY <1>1
<1>5. DOMAIN offsets' = DOMAIN offsets \cup {s} /\ offsets'[s] = offsets[t] + c_len(t) - c_len(s)
      /\ \A u \in DOMAIN offsets : u # s => offsets'[u] = offsets[u]
    BY <1>1 DEF Extended
<1> HIDE DEF t
<1>6. s \in Texts /\ t \in Texts /\ Closed(s) /\ Closed(t)
    BY <1>3 DEF OffsetsInv
<1>7. ASSUME Plain(Range(strings))
      PROVE  /\ bigOffset = Len(Compiled(big))
             /\ \A u \in DOMAIN offsets' : StandsAt(Compiled(big), offsets'[u], Compiled(u))
    <2> DEFINE m == Compiled(big)
               x == Compiled(s)
               y == Compiled(t)
               o == offsets[t]
    <2>1. bigOffset = Len(m) /\ \A u \in DOMAIN offsets : StandsAt(m, offsets[u], Compiled(u))
        BY <1>7 DEF OffsetsInv, Placed
    <2>2. c_len(s) = Len(x) /\ c_len(t) = Len(y)
        <3>1. ~ LooksLikeNul(s) /\ ~ LooksLikeNul(t)
            BY <1>3, <1>7 DEF Plain
        <3>2. QED
            BY <1>6, <3>1, ClosedEnds, CLenIs
    <2>3. x \in Seq(Texts) /\ y \in Seq(Texts)
        BY <1>6, CompiledStep
    <2>4. IsSuffix(x, y)
        BY <1>3, <1>7 DEF Plain, SplitsEscape
    <2>5. StandsAt(m, o, y)
        BY <1>4, <2>1
    <2> HIDE DEF m, x, y, o
    <2>6. Len(x) \in Nat /\ Len(y) \in Nat /\ Len(x) <= Len(y) /\ \A j \in 1..Len(x) : x[j] = y[Len(y) - Len(x) + j]
        BY <2>3, <2>4, LenProperties, SuffixIs
    <2>7. o \in Nat /\ o + Len(y) <= Len(m) /\ \A j \in 1..Len(y) : m[o + j] = y[j]
        BY <2>5 DEF StandsAt
    <2> DEFINE p == o + Len(y) - Len(x)
    <2>8. p \in Nat /\ p + Len(x) = o + Len(y)
        BY <2>6, <2>7
    <2>9. ASSUME NEW j \in 1..Len(x)
          PROVE  m[p + j] = x[j]
        <3>1. Len(y) - Len(x) + j \in 1..Len(y) /\ o + (Len(y) - Len(x) + j) = p + j
            BY <2>6, <2>7
        <3>2. QED
            BY <2>6, <2>7, <3>1
    <2> HIDE DEF p
    <2>10. StandsAt(m, p, x)
        BY <2>7, <2>8, <2>9 DEF StandsAt
    <2>11. offsets'[s] = p
        BY <1>5, <2>2 DEF p, o
    <2>12. \A u \in DOMAIN offsets' : StandsAt(m, offsets'[u], Compiled(u))
        BY <1>5, <2>1, <2>10, <2>11 DEF x
    <2>13. QED
        BY <2>1, <2>12 DEF m
<1>8. QED
    BY <1>3, <1>5, <1>7 DEF Placed, OffsetsInv

LEMMA OffsetsStep ==
    FoldingInv /\ OffsetsInv /\ [Next]_vars => OffsetsInv'
<1> SUFFICES ASSUME FoldingInv, OffsetsInv, [Next]_vars
             PROVE  OffsetsInv'
    OBVIOUS
<1>1. ASSUME NEW e \in Entries, ReadEntry(e)
      PROVE  OffsetsInv'
    <2> DEFINE new(metric) == IF IF metric THEN IsMetric(e) ELSE IsEvent(e) THEN StringsOf(e, metric) ELSE <<>>
    <2>1. pc = "add" /\ pc' = "add" /\ UNCHANGED <<big, bigOffset, offsets>>
          /\ strings' = Added(new(FALSE) \o new(TRUE))
        BY <1>1 DEF ReadEntry, AddAll
    <2>2. \A metric \in BOOLEAN : new(metric) \in Seq(Texts) /\ \A s \in Range(new(metric)) : s \in Texts /\ Closed(s)
        <3> SUFFICES ASSUME NEW metric \in BOOLEAN
                     PROVE  new(metric) \in Seq(Texts) /\ \A s \in Range(new(metric)) : s \in Texts /\ Closed(s)
            OBVIOUS
        <3>1. CASE new(metric) = StringsOf(e, metric)
            <4>1. StringsOf(e, metric) \in Seq(Texts)
                  /\ Range(StringsOf(e, metric)) = {PmuString(e["pmu"]), build_c_string(e, metric)}
                BY NewStrings
            <4>2. PmuString(e["pmu"]) \in Texts /\ build_c_string(e, metric) \in Texts
                  /\ Closed(PmuString(e["pmu"])) /\ Closed(build_c_string(e, metric))
                BY EntryParts, BuildIsText, BuildClosed
            <4> HIDE DEF new
            <4>3. QED
                BY <3>1, <4>1, <4>2
        <3>2. CASE new(metric) = <<>>
            <4>1. <<>> \in Seq(Texts) /\ Range(<<>>) = {}
                BY EmptySeq DEF Range
            <4> HIDE DEF new
            <4>2. QED
                BY <3>2, <4>1
        <3>3. QED
            BY <3>1, <3>2
    <2> HIDE DEF new
    <2> DEFINE a == new(FALSE)
               b == new(TRUE)
    <2>3. a \in Seq(Texts) /\ b \in Seq(Texts) /\ \A s \in Range(a) \cup Range(b) : s \in Texts /\ Closed(s)
        BY <2>2
    <2> HIDE DEF a, b
    <2>4. a \o b \in Seq(Texts) /\ Range(a \o b) = Range(a) \cup Range(b)
        BY <2>3, RangeConcatenation, ConcatProperties
    <2>5. Range(strings') = Range(strings) \cup (Range(a) \cup Range(b))
        BY <2>1, <2>4, AddedIs DEF FoldingInv, a, b
    <2>6. \A s \in Range(strings') : s \in Texts /\ Closed(s)
        BY <2>3, <2>5 DEF OffsetsInv
    <2>7. DOMAIN offsets = {} /\ bigOffset = Len(Compiled(big))
        <3>1. big = <<>> /\ bigOffset = 0 /\ DOMAIN offsets = {}
            BY <2>1 DEF OffsetsInv, Before
        <3>2. Compiled(<<>>) = <<>> /\ Len(<<>>) = 0
            BY TextParts, CompiledStep
        <3>3. QED
            BY <3>1, <3>2
    <2>8. Placed(Range(strings'), big', bigOffset', offsets')
        BY <2>1, <2>7 DEF Placed
    <2>9. QED
        BY <2>1, <2>6, <2>7, <2>8 DEF OffsetsInv, Before, Placing
<1>2. CASE UNCHANGED <<strings, big, bigOffset, offsets>> /\ pc \in Before /\ pc' \in Before \cup {"emit"}
    BY <1>2 DEF OffsetsInv, Before, Placing
<1>3. CASE EmitString
    <2>1. pc = "emit" /\ pc' = "emit" /\ UNCHANGED <<strings, folded>>
        BY <1>3 DEF EmitString
    <2>2. /\ big' \in Texts /\ Closed(big')
          /\ DOMAIN offsets' \subseteq Range(strings)
          /\ Placed(Range(strings), big', bigOffset', offsets')
        BY <1>3, EmitStep
    <2>3. QED
        BY <2>1, <2>2 DEF OffsetsInv, Before, Placing
<1>4. CASE EmitEnds
    <2>1. pc = "emit" /\ pc' = "offsets" /\ UNCHANGED <<strings, folded, big, bigOffset, offsets>>
        BY <1>4 DEF EmitEnds
    <2>2. Range(strings) \subseteq DOMAIN folded \cup DOMAIN offsets
        BY <1>4 DEF EmitEnds, ToEmit
    <2>3. QED
        BY <2>1, <2>2 DEF OffsetsInv, Before, Placing
<1>5. CASE PlaceFolded
    <2>1. pc = "offsets" /\ pc' = "offsets" /\ UNCHANGED <<strings, folded, big, bigOffset>>
        BY <1>5 DEF PlaceFolded
    <2>2. /\ DOMAIN offsets' \subseteq Range(strings) /\ DOMAIN offsets \subseteq DOMAIN offsets'
          /\ Placed(Range(strings), big, bigOffset, offsets')
        BY <1>5, PlaceStep
    <2>3. QED
        BY <2>1, <2>2 DEF OffsetsInv, Before, Placing
<1>6. CASE PlaceEnds
    <2>1. pc = "offsets" /\ pc' = "done" /\ UNCHANGED <<strings, folded, big, bigOffset, offsets>>
        BY <1>6 DEF PlaceEnds
    <2>2. DOMAIN folded \subseteq DOMAIN offsets
        BY <1>6 DEF PlaceEnds
    <2>3. QED
        BY <2>1, <2>2 DEF OffsetsInv, Before, Placing
<1>7. CASE /\ UNCHANGED <<strings, folded, big, bigOffset, offsets>>
           /\ pc' = pc \/ (pc \notin Before \cup Placing /\ pc' \notin Before \cup Placing)
    <2>1. CASE pc' = pc
        BY <1>7, <2>1 DEF OffsetsInv
    <2>2. CASE pc \notin Before \cup Placing /\ pc' \notin Before \cup Placing
        BY <1>7, <2>2 DEF OffsetsInv, Before, Placing
    <2>3. QED
        BY <1>7, <2>1, <2>2
<1>8. QED
    BY <1>1, <1>2, <1>3, <1>4, <1>5, <1>6, <1>7, OffsetSteps

\* Whatever has been written and placed so far stands at its offset, and c_len has counted
\* what is compiled.
THEOREM AlwaysOffsetsInv ==
    Spec => []OffsetsInv
BY AlwaysFoldingInv, OffsetsInit, OffsetsStep, PTL DEF Spec

\* Where the strings are, when their offsets have been computed.
LEMMA AllStand ==
    ASSUME OffsetsInv, pc \notin Before \cup Placing, PlainEscapes
    PROVE  /\ Compiled(big) \in Seq(Texts)
           /\ \A s \in Range(strings) : s \in Texts /\ Closed(s) /\ StandsAt(Compiled(big), offsets[s], Compiled(s))
<1>1. Plain(Range(strings))
    BY DEF PlainEscapes, Plain
<1>2. QED
    BY <1>1, CompiledStep DEF OffsetsInv, Placed

\* OffsetsReadBack of BigCString: at its offset in the compiled string every string that
\* was added is found, folded or not, when no string is the end of another one in the
\* middle of an escape and none has a backslash in front of a \000.
THEOREM AlwaysOffsetsReadBack ==
    Spec => []OffsetsReadBack
<1>1. ASSUME OffsetsInv, pc = "done", PlainEscapes, NEW s \in Range(strings)
      PROVE  ReadsBack(Compiled(big), s)
    <2> DEFINE m == Compiled(big)
               x == Compiled(s)
               o == offsets[s]
    <2>1. m \in Seq(Texts) /\ s \in Texts /\ StandsAt(m, o, x)
        BY <1>1, AllStand DEF Before, Placing
    <2>2. x \in Seq(Texts)
        BY <2>1, CompiledStep
    <2> HIDE DEF m, x, o
    <2>3. SubSeq(m, o + 1, o + Len(x)) = x /\ o + Len(x) <= Len(m)
        BY <2>1, <2>2, StandsIs DEF StandsAt
    <2>4. QED
        BY <2>3 DEF ReadsBack, m, x, o
<1>2. OffsetsInv => OffsetsReadBack
    BY <1>1 DEF OffsetsReadBack
<1>3. QED
    BY <1>2, AlwaysOffsetsInv, PTL

-----------------------------------------------------------------------------
(* The order of the entries in a table. *)

\* Keys of the same length, one text after the other.
KeysOf(n) == {k \in Seq(Texts) : Len(k) = n}

LEMMA KeyLessIs ==
    ASSUME NEW n \in Nat, NEW k \in KeysOf(n), NEW l \in KeysOf(n)
    PROVE  KeyLess(k, l) <=> \E i \in 1..n : Less(k[i], l[i]) /\ \A j \in 1..(i - 1) : k[j] = l[j]
<1>1. k \in Seq(Texts) /\ l \in Seq(Texts) /\ Len(k) = n /\ Len(l) = n /\ DOMAIN k = 1..n
    BY LenProperties DEF KeysOf
<1>2. ASSUME NEW i \in 1..n
      PROVE  SubSeq(k, 1, i - 1) = SubSeq(l, 1, i - 1) <=> \A j \in 1..(i - 1) : k[j] = l[j]
    <2> DEFINE b == i - 1
               x == SubSeq(k, 1, b)
               y == SubSeq(l, 1, b)
    <2>1. b \in Int /\ b >= 0 /\ (\A j \in 1..b : j \in 1..n) /\ b - 1 + 1 = b /\ 1 \in Int
        OBVIOUS
    <2> HIDE DEF b
    <2>2. (\A j \in 1..b : k[j] \in Texts) /\ (\A j \in 1..b : l[j] \in Texts)
        BY <1>1, <2>1, ElementOfSeq
    <2>3. /\ x \in Seq(Texts) /\ Len(x) = IF 1 <= b THEN b - 1 + 1 ELSE 0
          /\ \A j \in 1..(b - 1 + 1) : x[j] = k[1 + j - 1]
        BY <2>1, <2>2, SubSeqProperties
    <2>4. /\ y \in Seq(Texts) /\ Len(y) = IF 1 <= b THEN b - 1 + 1 ELSE 0
          /\ \A j \in 1..(b - 1 + 1) : y[j] = l[1 + j - 1]
        BY <2>1, <2>2, SubSeqProperties
    <2> HIDE DEF x, y
    <2>5. Len(x) = b /\ Len(y) = b /\ (\A j \in 1..b : 1 + j - 1 = j)
        BY <2>1, <2>3, <2>4
    <2>6. \A j \in 1..b : x[j] = k[j] /\ y[j] = l[j]
        BY <2>1, <2>3, <2>4, <2>5
    <2>7. (\A j \in 1..b : k[j] = l[j]) => x = y
        BY <2>3, <2>4, <2>5, <2>6, SeqEqual
    <2>8. x = y => \A j \in 1..b : k[j] = l[j]
        BY <2>6
    <2>9. QED
        BY <2>7, <2>8 DEF x, y, b
<1>3. QED
    BY <1>1, <1>2 DEF KeyLess

LEMMA KeysAreOrdered ==
    ASSUME NEW n \in Nat, NEW k \in KeysOf(n)
    PROVE  /\ ~ KeyLess(k, k)
           /\ \A l, m \in KeysOf(n) : KeyLess(k, l) /\ KeyLess(l, m) => KeyLess(k, m)
           /\ \A l \in KeysOf(n) : k # l => KeyLess(k, l) \/ KeyLess(l, k)
<1>1. \A l \in KeysOf(n) : \A i \in 1..n : l[i] \in Texts
    BY ElementOfSeq DEF KeysOf
<1>2. ~ KeyLess(k, k)
    BY <1>1, KeyLessIs, LessIsStrict
<1>3. ASSUME NEW l \in KeysOf(n), NEW m \in KeysOf(n), KeyLess(k, l), KeyLess(l, m)
      PROVE  KeyLess(k, m)
    <2>1. PICK p \in 1..n : Less(k[p], l[p]) /\ \A j \in 1..(p - 1) : k[j] = l[j]
        BY <1>3, KeyLessIs
    <2>2. PICK q \in 1..n : Less(l[q], m[q]) /\ \A j \in 1..(q - 1) : l[j] = m[j]
        BY <1>3, KeyLessIs
    <2>3. CASE p < q
        <3>1. p \in 1..(q - 1) /\ \A j \in 1..(p - 1) : j \in 1..(q - 1)
            BY <2>3
        <3>2. Less(k[p], m[p]) /\ \A j \in 1..(p - 1) : k[j] = m[j]
            BY <2>1, <2>2, <3>1
        <3>3. QED
            BY <3>2, KeyLessIs
    <2>4. CASE q < p
        <3>1. q \in 1..(p - 1) /\ \A j \in 1..(q - 1) : j \in 1..(p - 1)
            BY <2>4
        <3>2. Less(k[q], m[q]) /\ \A j \in 1..(q - 1) : k[j] = m[j]
            BY <2>1, <2>2, <3>1
        <3>3. QED
            BY <3>2, KeyLessIs
    <2>5. CASE p = q
        <3>1. k[p] \in Texts /\ l[p] \in Texts /\ m[p] \in Texts
            BY <1>1
        <3>2. Less(k[p], m[p])
            BY <2>1, <2>2, <2>5, <3>1, LessIsStrict
        <3>3. \A j \in 1..(p - 1) : k[j] = m[j]
            BY <2>1, <2>2, <2>5
        <3>4. QED
            BY <3>2, <3>3, KeyLessIs
    <2>6. QED
        BY <2>3, <2>4, <2>5
<1>4. ASSUME NEW l \in KeysOf(n), k # l
      PROVE  KeyLess(k, l) \/ KeyLess(l, k)
    <2> DEFINE Differ == {i \in 1..n : k[i] # l[i]}
    <2>1. Differ # {} /\ Differ \subseteq Nat
        <3>1. k \in Seq(Texts) /\ l \in Seq(Texts) /\ Len(k) = n /\ Len(l) = n
            BY DEF KeysOf
        <3>2. Differ # {}
            BY <1>4, <3>1, SeqEqual
        <3>3. QED
            BY <3>2
    <2> HIDE DEF Differ
    <2>2. PICK i \in Differ : \A j \in Differ : i <= j
        BY <2>1, LeastNumber
    <2>3. i \in 1..n /\ k[i] # l[i]
        BY DEF Differ
    <2>4. \A j \in 1..(i - 1) : k[j] = l[j]
        <3> SUFFICES ASSUME NEW j \in 1..(i - 1)
                     PROVE  k[j] = l[j]
            OBVIOUS
        <3>1. j \in 1..n /\ ~ (i <= j)
            BY <2>3
        <3>2. j \notin Differ
            BY <2>2, <3>1
        <3>3. QED
            BY <3>1, <3>2 DEF Differ
    <2>5. Less(k[i], l[i]) \/ Less(l[i], k[i])
        BY <1>1, <2>3, LessIsTotal
    <2>6. QED
        BY <2>3, <2>4, <2>5, KeyLessIs
<1>5. QED
    BY <1>2, <1>3, <1>4

KeyOf(e, metric) == IF metric THEN MetricKey(e) ELSE EventKey(e)

\* The keys, and the parts of them that the names of the arrays depend on.
LEMMA KeyParts ==
    ASSUME NEW e \in Entries
    PROVE  /\ Underscored(e["pmu"]) \in Texts /\ IsNotNone(e["desc"]) \in Texts
           /\ EventKey(e) \in KeysOf(4) /\ EventKey(e)[1] = Underscored(e["pmu"])
           /\ MetricKey(e) \in KeysOf(3) /\ MetricKey(e)[1] = IsNotNone(e["desc"]) /\ MetricKey(e)[2] = e["pmu"]
<1>1. e["pmu"] \in Texts /\ e["name"] \in Texts /\ e["metric_name"] \in Texts /\ e["desc"] \in Texts
    BY EntryParts
<1> DEFINE p == e["pmu"]
           u == Underscored(p)
<1>2. u \in Texts
    <2>1. u = [i \in DOMAIN p |-> IF p[i] = "," THEN "_" ELSE p[i]]
        BY DEF Underscored
    <2>2. p \in Seq(Range(Chars)) /\ DOMAIN p = 1..Len(p) /\ Len(p) \in Nat /\ \A i \in 1..Len(p) : p[i] \in Range(Chars)
        BY <1>1 DEF Texts
    <2>3. "_" \in Range(Chars)
        BY CharsAssumption
    <2> HIDE DEF u, p
    <2>4. u \in [1..Len(p) -> Range(Chars)]
        BY <2>1, <2>2, <2>3
    <2>5. u \in Seq(Range(Chars))
        BY <2>2, <2>4
    <2>6. QED
        BY <2>5 DEF Texts
<1>3. IsNotNone(e["desc"]) \in Texts
    BY TextParts DEF IsNotNone
<1>4. ASSUME NEW a \in Texts, NEW b \in Texts, NEW c \in Texts, NEW d \in Texts
      PROVE  <<a, b, c, d>> \in KeysOf(4) /\ <<a, b, c>> \in KeysOf(3)
             /\ <<a, b, c, d>>[1] = a /\ <<a, b, c>>[1] = a /\ <<a, b, c>>[2] = b
    BY DEF KeysOf
<1>5. QED
    BY <1>1, <1>2, <1>3, <1>4 DEF EventKey, MetricKey

LEMMA KeyIs ==
    ASSUME NEW e \in Entries, NEW metric \in BOOLEAN
    PROVE  KeyOf(e, metric) \in KeysOf(IF metric THEN 3 ELSE 4)
BY KeyParts DEF KeyOf

\* The positions of the entries of a table, and the order of the entries there.
OwnOf(es, metric) == {i \in DOMAIN es : IF metric THEN IsMetric(es[i]) ELSE IsEvent(es[i])}
Precedes(es, metric, i, j) ==
    \/ KeyLess(KeyOf(es[i], metric), KeyOf(es[j], metric))
    \/ KeyOf(es[i], metric) = KeyOf(es[j], metric) /\ i < j

\* order lists the positions of the entries of a table in their order.
Listing(es, metric, order) ==
    /\ order \in Seq(OwnOf(es, metric))
    /\ Len(order) \in Nat /\ DOMAIN order = 1..Len(order)
    /\ \A i \in OwnOf(es, metric) : \E k \in 1..Len(order) : order[k] = i
    /\ \A k, l \in 1..Len(order) : k < l <=> Precedes(es, metric, order[k], order[l])

LEMMA PrecedesIs ==
    ASSUME NEW es \in Seq(Entries), NEW metric \in BOOLEAN,
           NEW R, \A i, j \in OwnOf(es, metric) : <<i, j>> \in R <=> Precedes(es, metric, i, j)
    PROVE  IsFiniteSet(OwnOf(es, metric)) /\ Orders(R, OwnOf(es, metric))
<1> DEFINE own == OwnOf(es, metric)
           K(i) == KeyOf(es[i], metric)
           n == IF metric THEN 3 ELSE 4
<1>1. Len(es) \in Nat /\ DOMAIN es = 1..Len(es)
    BY LenProperties
<1>2. own \subseteq 1..Len(es) /\ \A i \in own : i \in Nat
    BY <1>1 DEF OwnOf
<1>3. IsFiniteSet(own)
    <2>1. IsFiniteSet(1..Len(es))
        BY <1>1, FS_Interval
    <2> HIDE DEF own
    <2>2. QED
        BY <1>2, <2>1, FS_Subset
<1>4. \A i \in own : K(i) \in KeysOf(n)
    BY <1>2, ElementOfSeq, KeyIs
<1>5. \A i, j \in own : <<i, j>> \in R <=> KeyLess(K(i), K(j)) \/ (K(i) = K(j) /\ i < j)
    BY DEF Precedes
<1>6. n \in Nat
    OBVIOUS
<1> HIDE DEF own, K, n
<1>7. \A i \in own : <<i, i>> \notin R
    BY <1>2, <1>4, <1>5, <1>6, KeysAreOrdered
<1>8. ASSUME NEW i \in own, NEW j \in own, NEW k \in own, <<i, j>> \in R, <<j, k>> \in R
      PROVE  <<i, k>> \in R
    <2>1. K(i) \in KeysOf(n) /\ K(j) \in KeysOf(n) /\ K(k) \in KeysOf(n) /\ i \in Nat /\ j \in Nat /\ k \in Nat
        BY <1>2, <1>4
    <2>2. KeyLess(K(i), K(j)) \/ (K(i) = K(j) /\ i < j)
        BY <1>5, <1>8
    <2>3. KeyLess(K(j), K(k)) \/ (K(j) = K(k) /\ j < k)
        BY <1>5, <1>8
    <2>4. CASE KeyLess(K(i), K(j)) /\ KeyLess(K(j), K(k))
        <3>1. KeyLess(K(i), K(k))
            BY <1>6, <2>1, <2>4, KeysAreOrdered
        <3>2. QED
            BY <1>5, <3>1
    <2>5. CASE KeyLess(K(i), K(j)) /\ K(j) = K(k)
        BY <1>5, <2>5
    <2>6. CASE K(i) = K(j) /\ KeyLess(K(j), K(k))
        BY <1>5, <2>6
    <2>7. CASE K(i) = K(j) /\ i < j /\ K(j) = K(k) /\ j < k
        BY <1>5, <2>1, <2>7
    <2>8. QED
        BY <2>2, <2>3, <2>4, <2>5, <2>6, <2>7
<1>9. ASSUME NEW i \in own, NEW j \in own, i # j
      PROVE  <<i, j>> \in R \/ <<j, i>> \in R
    <2>1. K(i) \in KeysOf(n) /\ K(j) \in KeysOf(n) /\ i \in Nat /\ j \in Nat
        BY <1>2, <1>4
    <2>2. CASE K(i) = K(j)
        BY <1>5, <1>9, <2>1, <2>2
    <2>3. CASE K(i) # K(j)
        BY <1>5, <1>6, <2>1, <2>3, KeysAreOrdered
    <2>4. QED
        BY <2>2, <2>3
<1>10. QED
    BY <1>3, <1>7, <1>8, <1>9 DEF Orders, own

\* The sorted entries of a table.
LEMMA SortedIs ==
    ASSUME entries \in Seq(Entries), NEW metric \in BOOLEAN
    PROVE  \E order : Listing(entries, metric, order) /\ Sorted(metric) = [k \in DOMAIN order |-> entries[order[k]]]
<1> DEFINE own == OwnOf(entries, metric)
           R == {p \in own \X own : Precedes(entries, metric, p[1], p[2])}
           order == Ordered(own, R)
<1>1. Sorted(metric) = [k \in DOMAIN order |-> entries[order[k]]]
    BY DEF Sorted, EntriesOf, OwnOf, Precedes, KeyOf
<1>2. \A i, j \in own : <<i, j>> \in R <=> Precedes(entries, metric, i, j)
    OBVIOUS
<1> HIDE DEF R
<1>3. IsFiniteSet(own) /\ Orders(R, own)
    BY <1>2, PrecedesIs
<1> HIDE DEF own
<1>4. /\ order \in Seq(own) /\ Len(order) \in Nat /\ DOMAIN order = 1..Len(order)
      /\ \A x \in own : \E k \in DOMAIN order : order[k] = x
      /\ \A k, l \in DOMAIN order : k < l <=> <<order[k], order[l]>> \in R
    BY <1>3, OrderedIs
<1> HIDE DEF order
<1>5. \A k \in 1..Len(order) : order[k] \in own
    BY <1>4, ElementOfSeq
<1>6. Listing(entries, metric, order)
    BY <1>2, <1>4, <1>5 DEF Listing, own
<1>7. QED
    BY <1>1, <1>6

\* Every two entries of a table are in an order, and in one order only.
LEMMA ListingOrders ==
    ASSUME NEW es, NEW metric, NEW order, Listing(es, metric, order)
    PROVE  \A p, q \in OwnOf(es, metric) :
                /\ p # q => Precedes(es, metric, p, q) \/ Precedes(es, metric, q, p)
                /\ ~ (Precedes(es, metric, p, q) /\ Precedes(es, metric, q, p))
<1> SUFFICES ASSUME NEW p \in OwnOf(es, metric), NEW q \in OwnOf(es, metric)
             PROVE  /\ p # q => Precedes(es, metric, p, q) \/ Precedes(es, metric, q, p)
                    /\ ~ (Precedes(es, metric, p, q) /\ Precedes(es, metric, q, p))
    OBVIOUS
<1>1. PICK k \in 1..Len(order) : order[k] = p
    BY DEF Listing
<1>2. PICK l \in 1..Len(order) : order[l] = q
    BY DEF Listing
<1>3. k < l <=> Precedes(es, metric, p, q)
    BY <1>1, <1>2 DEF Listing
<1>4. l < k <=> Precedes(es, metric, q, p)
    BY <1>1, <1>2 DEF Listing
<1>5. Len(order) \in Nat
    BY DEF Listing
<1>6. QED
    BY <1>1, <1>2, <1>3, <1>4, <1>5

\* What the order says of the names of the PMUs.
LEMMA EventOrder ==
    ASSUME NEW e \in Entries, NEW f \in Entries,
           \/ KeyLess(KeyOf(e, FALSE), KeyOf(f, FALSE))
           \/ KeyOf(e, FALSE) = KeyOf(f, FALSE)
    PROVE  Underscored(e["pmu"]) = Underscored(f["pmu"]) \/ Less(Underscored(e["pmu"]), Underscored(f["pmu"]))
<1> DEFINE k == EventKey(e)
           l == EventKey(f)
<1>1. k \in KeysOf(4) /\ k[1] = Underscored(e["pmu"]) /\ l \in KeysOf(4) /\ l[1] = Underscored(f["pmu"])
    BY KeyParts
<1>2. KeyLess(k, l) \/ k = l
    BY DEF KeyOf
<1> HIDE DEF k, l
<1>3. CASE k = l
    BY <1>1, <1>3
<1>4. CASE KeyLess(k, l)
    <2>1. PICK n \in 1..4 : Less(k[n], l[n]) /\ \A h \in 1..(n - 1) : k[h] = l[h]
        BY <1>1, <1>4, KeyLessIs
    <2>2. CASE n = 1
        BY <1>1, <2>1, <2>2
    <2>3. CASE n # 1
        <3>1. 1 \in 1..(n - 1)
            BY <2>3
        <3>2. QED
            BY <1>1, <2>1, <3>1
    <2>4. QED
        BY <2>2, <2>3
<1>5. QED
    BY <1>2, <1>3, <1>4

Described(e) == e["desc"] # <<>>

LEMMA DescribedIs ==
    ASSUME NEW e \in Entries, NEW f \in Entries
    PROVE  /\ Less(IsNotNone(e["desc"]), IsNotNone(f["desc"])) <=> ~ Described(e) /\ Described(f)
           /\ IsNotNone(e["desc"]) = IsNotNone(f["desc"]) <=> (Described(e) <=> Described(f))
<1> DEFINE none == <<>>
           one == <<"1">>
<1>1. none \in Texts /\ one \in Texts /\ none # one
    BY TextParts
<1>2. Less(none, one)
    <2>1. IsPrefix(<<>>, <<"1">>)
        <3>1. <<>> \in Texts /\ <<"1">> \in Texts /\ Len(<<>>) = 0 /\ Len(<<"1">>) = 1
            BY TextParts
        <3>2. QED
            BY <3>1, PrefixIs
    <2>2. IsStrictPrefix(none, one)
        BY <1>1, <2>1 DEF IsStrictPrefix
    <2>3. QED
        BY <2>2 DEF Less
<1>3. /\ IsNotNone(e["desc"]) = IF Described(e) THEN one ELSE none
      /\ IsNotNone(f["desc"]) = IF Described(f) THEN one ELSE none
    BY DEF IsNotNone, Described
<1> HIDE DEF none, one
<1>4. ~ Less(none, none) /\ ~ Less(one, one) /\ ~ Less(one, none)
    BY <1>1, <1>2, LessIsStrict
<1>5. QED
    BY <1>1, <1>2, <1>3, <1>4

LEMMA MetricOrder ==
    ASSUME NEW e \in Entries, NEW f \in Entries
    PROVE  /\ \/ KeyLess(KeyOf(e, TRUE), KeyOf(f, TRUE))
              \/ KeyOf(e, TRUE) = KeyOf(f, TRUE)
              => \/ ~ Described(e) /\ Described(f)
                 \/ (Described(e) <=> Described(f)) /\ (e["pmu"] = f["pmu"] \/ Less(e["pmu"], f["pmu"]))
           /\ ~ Described(e) /\ Described(f) => KeyLess(KeyOf(e, TRUE), KeyOf(f, TRUE))
           /\ (Described(e) <=> Described(f)) /\ Less(e["pmu"], f["pmu"]) => KeyLess(KeyOf(e, TRUE), KeyOf(f, TRUE))
<1> DEFINE k == MetricKey(e)
           l == MetricKey(f)
<1>1. /\ k \in KeysOf(3) /\ k[1] = IsNotNone(e["desc"]) /\ k[2] = e["pmu"]
      /\ l \in KeysOf(3) /\ l[1] = IsNotNone(f["desc"]) /\ l[2] = f["pmu"]
    BY KeyParts
<1>2. k = KeyOf(e, TRUE) /\ l = KeyOf(f, TRUE)
    BY DEF KeyOf
<1> HIDE DEF k, l
<1>3. /\ Less(k[1], l[1]) <=> ~ Described(e) /\ Described(f)
      /\ k[1] = l[1] <=> (Described(e) <=> Described(f))
    BY <1>1, DescribedIs
<1>4. ASSUME KeyLess(k, l) \/ k = l
      PROVE  Less(k[1], l[1]) \/ (k[1] = l[1] /\ (k[2] = l[2] \/ Less(k[2], l[2])))
    <2>1. CASE k = l
        BY <2>1
    <2>2. CASE KeyLess(k, l)
        <3>1. PICK n \in 1..3 : Less(k[n], l[n]) /\ \A h \in 1..(n - 1) : k[h] = l[h]
            BY <1>1, <2>2, KeyLessIs
        <3>2. CASE n = 1
            BY <3>1, <3>2
        <3>3. CASE n = 2
            BY <3>1, <3>3
        <3>4. CASE n = 3
            <4>1. 1 \in 1..(n - 1) /\ 2 \in 1..(n - 1)
                BY <3>4
            <4>2. QED
                BY <3>1, <4>1
        <3>5. QED
            BY <3>2, <3>3, <3>4
    <2>3. QED
        BY <1>4, <2>1, <2>2
<1>5. ASSUME Less(k[1], l[1]) \/ (k[1] = l[1] /\ Less(k[2], l[2]))
      PROVE  KeyLess(k, l)
    <2>1. CASE Less(k[1], l[1])
        <3>1. 1 \in 1..3 /\ \A h \in 1..(1 - 1) : k[h] = l[h]
            OBVIOUS
        <3>2. QED
            BY <1>1, <2>1, <3>1, KeyLessIs
    <2>2. CASE k[1] = l[1] /\ Less(k[2], l[2])
        <3>1. 2 \in 1..3 /\ \A h \in 1..(2 - 1) : k[h] = l[h]
            BY <2>2
        <3>2. QED
            BY <1>1, <2>2, <3>1, KeyLessIs
    <2>3. QED
        BY <1>5, <2>1, <2>2
<1>6. QED
    BY <1>1, <1>2, <1>3, <1>4, <1>5

-----------------------------------------------------------------------------
(* The arrays that are printed for a table. *)

\* The offsets o of array a are those of the strings of the entries there.
Holds(es, metric, P, at, a, o, g) ==
    /\ Len(o) = Cardinality({p \in P : at[p] = a})
    /\ \A p \in P : at[p] = a => \E j \in 1..Len(o) : o[j] = g[build_c_string(es[p], metric)]
    /\ \A j \in 1..Len(o) : \E p \in P : at[p] = a /\ o[j] = g[build_c_string(es[p], metric)]

\* at says in which of the arrays lo + 1..hi of A the entry at each of the positions P is.
\* Two arrays are for the same PMU only when an entry of another PMU is between them.
Cut(es, metric, P, lo, hi, A, g, at) ==
    /\ at \in [P -> (lo + 1)..hi]
    /\ \A p \in P : A[at[p]].metric = metric /\ A[at[p]].pmu = es[p]["pmu"]
    /\ \A p, q \in P : Precedes(es, metric, p, q) =>
            /\ at[p] <= at[q]
            /\ at[p] # at[q] /\ es[p]["pmu"] = es[q]["pmu"] =>
                    \E r \in P : /\ es[r]["pmu"] # es[p]["pmu"]
                                 /\ Precedes(es, metric, p, r) /\ Precedes(es, metric, r, q)
    /\ \A a \in (lo + 1)..hi : (\E p \in P : at[p] = a) /\ Holds(es, metric, P, at, a, A[a].offsets, g)

\* The arrays lo + 1..hi are those of all entries of the table.
WholeTable(es, metric, lo, hi, A, g) ==
    \E order, at : Listing(es, metric, order) /\ Cut(es, metric, OwnOf(es, metric), lo, hi, A, g, at)

\* No two of the arrays lo + 1..hi have the same name.
NamedOnce(A, lo, hi) ==
    \A a, b \in (lo + 1)..hi : Underscored(A[a].pmu) = Underscored(A[b].pmu) => a = b

\* The PMUs that ArraysDefinedOnce is about: those with the same C name, and, for the metrics,
\* those that come with and without a description.
NamesDiffer(es, metric) ==
    \A p, q \in OwnOf(es, metric) :
        Underscored(es[p]["pmu"]) = Underscored(es[q]["pmu"]) => es[p]["pmu"] = es[q]["pmu"]
KindsApart(es) ==
    \A n, d \in OwnOf(es, TRUE) :
        es[n]["pmu"] = es[d]["pmu"] /\ ~ Described(es[n]) /\ Described(es[d]) =>
            \A q \in OwnOf(es, TRUE) :
                /\ ~ Described(es[q]) => ~ Less(es[n]["pmu"], es[q]["pmu"])
                /\ Described(es[q]) => ~ Less(es[q]["pmu"], es[n]["pmu"])

LEMMA SameNameSamePmu ==
    ASSUME NEW es, NEW metric, NEW lo, NEW hi, NEW A, NEW g,
           WholeTable(es, metric, lo, hi, A, g), NamedOnce(A, lo, hi)
    PROVE  NamesDiffer(es, metric)
<1> SUFFICES ASSUME NEW p \in OwnOf(es, metric), NEW q \in OwnOf(es, metric),
                    Underscored(es[p]["pmu"]) = Underscored(es[q]["pmu"])
             PROVE  es[p]["pmu"] = es[q]["pmu"]
    BY DEF NamesDiffer
<1>1. PICK at : Cut(es, metric, OwnOf(es, metric), lo, hi, A, g, at)
    BY DEF WholeTable
<1>2. at[p] \in (lo + 1)..hi /\ at[q] \in (lo + 1)..hi /\ A[at[p]].pmu = es[p]["pmu"] /\ A[at[q]].pmu = es[q]["pmu"]
    BY <1>1 DEF Cut
<1>3. at[p] = at[q]
    BY <1>2 DEF NamedOnce
<1>4. QED
    BY <1>2, <1>3

\* Two arrays with the same name, if the names of different PMUs differ: their first entries,
\* and an entry of another PMU between them.
LEMMA Between ==
    ASSUME NEW es, NEW metric, NEW lo, NEW hi, NEW A, NEW g,
           WholeTable(es, metric, lo, hi, A, g), NamesDiffer(es, metric), ~ NamedOnce(A, lo, hi)
    PROVE  \E p, q, r \in OwnOf(es, metric) :
                /\ es[p]["pmu"] = es[q]["pmu"] /\ es[r]["pmu"] # es[p]["pmu"]
                /\ Precedes(es, metric, p, r) /\ Precedes(es, metric, r, q) /\ Precedes(es, metric, p, q)
<1> DEFINE own == OwnOf(es, metric)
<1>1. PICK order, at : Listing(es, metric, order) /\ Cut(es, metric, own, lo, hi, A, g, at)
    BY DEF WholeTable
<1>2. PICK a \in (lo + 1)..hi, b \in (lo + 1)..hi : Underscored(A[a].pmu) = Underscored(A[b].pmu) /\ a # b
    BY DEF NamedOnce
<1>3. PICK p \in own : at[p] = a
    BY <1>1 DEF Cut
<1>4. PICK q \in own : at[q] = b
    BY <1>1 DEF Cut
<1>5. es[p]["pmu"] = A[a].pmu /\ es[q]["pmu"] = A[b].pmu
    BY <1>1, <1>3, <1>4 DEF Cut
<1>6. es[p]["pmu"] = es[q]["pmu"]
    BY <1>2, <1>5 DEF NamesDiffer
<1>7. Precedes(es, metric, p, q) \/ Precedes(es, metric, q, p)
    BY <1>1, <1>2, <1>3, <1>4, ListingOrders
<1>8. \A v, w \in own : Precedes(es, metric, v, w) /\ at[v] # at[w] /\ es[v]["pmu"] = es[w]["pmu"] =>
          \E r \in own : es[r]["pmu"] # es[v]["pmu"] /\ Precedes(es, metric, v, r) /\ Precedes(es, metric, r, w)
    BY <1>1 DEF Cut
<1>9. CASE Precedes(es, metric, p, q)
    BY <1>2, <1>3, <1>4, <1>6, <1>8, <1>9
<1>10. CASE Precedes(es, metric, q, p)
    BY <1>2, <1>3, <1>4, <1>6, <1>8, <1>10
<1>11. QED
    BY <1>7, <1>9, <1>10

\* Events are sorted by the C names of their PMUs first.
LEMMA EventArrays ==
    ASSUME NEW es \in Seq(Entries), NEW lo, NEW hi, NEW A, NEW g,
           WholeTable(es, FALSE, lo, hi, A, g)
    PROVE  NamedOnce(A, lo, hi) <=> NamesDiffer(es, FALSE)
<1>1. \A p \in OwnOf(es, FALSE) : es[p] \in Entries
    BY ElementOfSeq, LenProperties DEF OwnOf
<1>2. ASSUME NamesDiffer(es, FALSE), ~ NamedOnce(A, lo, hi)
      PROVE  FALSE
    <2>1. PICK p, q, r \in OwnOf(es, FALSE) :
                /\ es[p]["pmu"] = es[q]["pmu"] /\ es[r]["pmu"] # es[p]["pmu"]
                /\ Precedes(es, FALSE, p, r) /\ Precedes(es, FALSE, r, q) /\ Precedes(es, FALSE, p, q)
        BY <1>2, Between
    <2> DEFINE u == Underscored(es[p]["pmu"])
               v == Underscored(es[r]["pmu"])
    <2>2. u = v \/ Less(u, v)
        BY <1>1, <2>1, EventOrder DEF Precedes
    <2>3. v = u \/ Less(v, u)
        <3>1. v = Underscored(es[q]["pmu"]) \/ Less(v, Underscored(es[q]["pmu"]))
            BY <1>1, <2>1, EventOrder DEF Precedes
        <3>2. QED
            BY <2>1, <3>1
    <2>4. u \in Texts /\ v \in Texts
        BY <1>1, KeyParts
    <2>5. u # v
        BY <1>2, <2>1 DEF NamesDiffer
    <2> HIDE DEF u, v
    <2>6. QED
        BY <2>2, <2>3, <2>4, <2>5, LessIsStrict
<1>3. QED
    BY <1>2, SameNameSamePmu

\* Metrics without a description come first, and both kinds are sorted by their PMUs.
LEMMA MetricArrays ==
    ASSUME NEW es \in Seq(Entries), NEW lo \in Nat, NEW hi \in Nat, NEW A, NEW g,
           WholeTable(es, TRUE, lo, hi, A, g)
    PROVE  NamedOnce(A, lo, hi) <=> NamesDiffer(es, TRUE) /\ KindsApart(es)
<1> DEFINE own == OwnOf(es, TRUE)
           P(i) == es[i]["pmu"]
           D(i) == Described(es[i])
           Comes(i, j) == Precedes(es, TRUE, i, j)
<1>1. \A p \in own : es[p] \in Entries /\ P(p) \in Texts
    <2>1. \A p \in own : es[p] \in Entries
        BY ElementOfSeq, LenProperties DEF OwnOf
    <2>2. QED
        BY <2>1, EntryParts
<1>2. \A i, j \in own :
        /\ Comes(i, j) => \/ ~ D(i) /\ D(j)
                          \/ (D(i) <=> D(j)) /\ (P(i) = P(j) \/ Less(P(i), P(j)))
        /\ ~ D(i) /\ D(j) => Comes(i, j)
        /\ (D(i) <=> D(j)) /\ Less(P(i), P(j)) => Comes(i, j)
    <2>1. \A i, j \in own : es[i] \in Entries /\ es[j] \in Entries
        BY <1>1
    <2>2. QED
        BY <2>1, MetricOrder DEF Precedes
<1>3. \A i, j \in own : Less(P(i), P(j)) => P(i) # P(j) /\ ~ Less(P(j), P(i))
    BY <1>1, LessIsStrict
<1>4. ASSUME NamesDiffer(es, TRUE), KindsApart(es), ~ NamedOnce(A, lo, hi)
      PROVE  FALSE
    <2>1. PICK p, q, r \in own : P(p) = P(q) /\ P(r) # P(p) /\ Comes(p, r) /\ Comes(r, q) /\ Comes(p, q)
        BY <1>4, Between
    <2>2. \A n, d \in own : P(n) = P(d) /\ ~ D(n) /\ D(d) =>
              \A s \in own : (~ D(s) => ~ Less(P(n), P(s))) /\ (D(s) => ~ Less(P(s), P(n)))
        BY <1>4 DEF KindsApart
    <2> HIDE DEF own, P, D, Comes
    <2>3. CASE D(p) <=> D(q)
        <3>1. (D(p) <=> D(r)) /\ (D(r) <=> D(q))
            BY <1>2, <2>1, <2>3
        <3>2. Less(P(p), P(r)) /\ Less(P(r), P(q))
            BY <1>2, <2>1, <3>1
        <3>3. QED
            BY <1>3, <2>1, <3>2
    <2>4. CASE ~ D(p) /\ D(q)
        <3>1. CASE D(r)
            <4>1. Less(P(r), P(q))
                BY <1>2, <2>1, <2>4, <3>1
            <4>2. QED
                BY <2>1, <2>2, <2>4, <3>1, <4>1
        <3>2. CASE ~ D(r)
            <4>1. Less(P(p), P(r))
                BY <1>2, <2>1, <2>4, <3>2
            <4>2. QED
                BY <2>1, <2>2, <2>4, <3>2, <4>1
        <3>3. QED
            BY <3>1, <3>2
    <2>5. QED
        BY <1>2, <2>1, <2>3, <2>4
<1>5. ASSUME NamedOnce(A, lo, hi)
      PROVE  KindsApart(es)
    <2>1. PICK at : Cut(es, TRUE, own, lo, hi, A, g, at)
        BY DEF WholeTable
    <2>2. /\ \A i \in own : at[i] \in (lo + 1)..hi /\ A[at[i]].pmu = P(i)
          /\ \A i, j \in own : Comes(i, j) => at[i] <= at[j]
        BY <2>1 DEF Cut
    <2>3. ASSUME NEW i \in own, NEW j \in own, NEW s \in own, P(i) = P(j), Comes(i, s), Comes(s, j)
          PROVE  P(s) = P(i)
        <3>1. at[i] = at[j]
            <4>1. /\ at[i] \in (lo + 1)..hi /\ at[j] \in (lo + 1)..hi
                  /\ Underscored(A[at[i]].pmu) = Underscored(A[at[j]].pmu)
                BY <2>2, <2>3
            <4>2. QED
                BY <1>5, <4>1 DEF NamedOnce
        <3>2. at[i] <= at[s] /\ at[s] <= at[j]
            BY <2>2, <2>3
        <3>3. at[s] = at[i]
            <4>1. at[i] \in (lo + 1)..hi /\ at[s] \in (lo + 1)..hi
                BY <2>2
            <4>2. QED
                BY <3>1, <3>2, <4>1
        <3>4. QED
            BY <2>2, <3>3
    <2> HIDE DEF P, D, own, Comes
    <2>4. ASSUME NEW n \in own, NEW d \in own, P(n) = P(d), ~ D(n), D(d), NEW s \in own
          PROVE  (~ D(s) => ~ Less(P(n), P(s))) /\ (D(s) => ~ Less(P(s), P(n)))
        <3>1. ASSUME ~ D(s), Less(P(n), P(s))
              PROVE  FALSE
            <4>1. Comes(n, s) /\ Comes(s, d)
                BY <1>2, <2>4, <3>1
            <4>2. QED
                BY <1>3, <2>3, <2>4, <3>1, <4>1
        <3>2. ASSUME D(s), Less(P(s), P(n))
              PROVE  FALSE
            <4>1. Less(P(s), P(d)) /\ P(s) # P(n)
                BY <1>3, <2>4, <3>2
            <4>2. Comes(n, s) /\ Comes(s, d)
                BY <1>2, <2>4, <3>2, <4>1
            <4>3. QED
                BY <2>3, <2>4, <4>1, <4>2
        <3>3. QED
            BY <3>1, <3>2
    <2>5. QED
        BY <2>4 DEF KindsApart, P, D, own
<1>6. QED
    BY <1>4, <1>5, SameNameSamePmu

\* q comes behind the entries at P, and array c is the right one for it.
Follows(es, metric, P, at, q, c) ==
    /\ q \notin P /\ ~ Precedes(es, metric, q, q)
    /\ \A p \in P : Precedes(es, metric, p, q) /\ ~ Precedes(es, metric, q, p)
    /\ \A p \in P : at[p] = c => es[p]["pmu"] = es[q]["pmu"]
    /\ \A p \in P : es[p]["pmu"] = es[q]["pmu"] /\ at[p] # c =>
            \E r \in P : /\ es[r]["pmu"] # es[p]["pmu"]
                         /\ Precedes(es, metric, p, r) /\ Precedes(es, metric, r, q)

\* In B the array c, a new one or the last one of A, has the offset x behind the offsets old.
Filled(A, B, lo, hi, c, old, metric, pmu, x) ==
    /\ (c = hi + 1 /\ old = <<>>) \/ (c = hi /\ old = A[c].offsets)
    /\ \A a \in (lo + 1)..hi : a # c => B[a] = A[a]
    /\ B[c].metric = metric /\ B[c].pmu = pmu /\ B[c].offsets = Append(old, x)

\* One more entry, behind those at P, goes into the array c, the last one or a new one.
LEMMA CutGrows ==
    ASSUME NEW es, NEW metric, NEW P, NEW lo, NEW hi, lo \in Nat, hi \in Nat, NEW A, NEW g, NEW at,
           Cut(es, metric, P, lo, hi, A, g, at), IsFiniteSet(P),
           NEW q, NEW c, c \in {hi, hi + 1}, c > lo, Follows(es, metric, P, at, q, c),
           NEW S, NEW old \in Seq(S), g[build_c_string(es[q], metric)] \in S, NEW B,
           Filled(A, B, lo, hi, c, old, metric, es[q]["pmu"], g[build_c_string(es[q], metric)])
    PROVE  Cut(es, metric, P \cup {q}, lo, c, B, g, Extended(at, q, c))
<1> DEFINE new == Extended(at, q, c)
           x == g[build_c_string(es[q], metric)]
           In(a) == {p \in P : at[p] = a}
           G(p) == g[build_c_string(es[p], metric)]
           U(p) == es[p]["pmu"]
           R(p, r) == Precedes(es, metric, p, r)
           o == Append(old, x)
<1>1. /\ q \notin P /\ ~ R(q, q) /\ (\A p \in P : R(p, q) /\ ~ R(q, p))
      /\ (\A p \in P : at[p] = c => U(p) = U(q))
      /\ (\A p \in P : U(p) = U(q) /\ at[p] # c => \E r \in P : U(r) # U(p) /\ R(p, r) /\ R(r, q))
      /\ ((c = hi + 1 /\ old = <<>>) \/ (c = hi /\ old = A[c].offsets))
      /\ (\A a \in (lo + 1)..hi : a # c => B[a] = A[a])
      /\ B[c].metric = metric /\ B[c].pmu = U(q) /\ B[c].offsets = o
    BY DEF Follows, Filled
<1>2. at \in [P -> (lo + 1)..hi] /\ c \in (lo + 1)..c /\ \A a \in (lo + 1)..hi : a \in (lo + 1)..c
    <2>1. at \in [P -> (lo + 1)..hi]
        BY DEF Cut
    <2>2. QED
        BY <2>1
<1>3. new \in [P \cup {q} -> (lo + 1)..c] /\ new[q] = c /\ \A p \in P : new[p] = at[p]
    BY <1>1, <1>2 DEF Extended
<1>4. Holds(es, metric, P, at, c, old, g) /\ IsFiniteSet(In(c))
    <2>1. IsFiniteSet(In(c))
        BY FS_Subset
    <2>2. CASE c = hi + 1 /\ old = <<>>
        <3>1. \A p \in P : at[p] # c
            BY <1>2, <2>2
        <3>2. In(c) = {} /\ Cardinality({}) = 0
            BY <3>1, FS_EmptySet
        <3>3. Len(old) = 0 /\ 1..0 = {}
            BY <2>2
        <3>4. QED
            BY <2>1, <3>1, <3>2, <3>3 DEF Holds
    <2>3. CASE c = hi /\ old = A[c].offsets
        <3>1. c \in (lo + 1)..hi
            BY <1>2, <2>3
        <3>2. Holds(es, metric, P, at, c, A[c].offsets, g)
            BY <3>1 DEF Cut
        <3>3. QED
            BY <2>1, <2>3, <3>2
    <2>4. QED
        BY <1>1, <2>2, <2>3
<1>5. Len(old) \in Nat /\ Len(o) = Len(old) + 1 /\ o[Len(old) + 1] = x /\ (\A j \in 1..Len(old) : o[j] = old[j])
    BY AppendProperties, LenProperties
<1>6. B[c].offsets = o
    BY <1>1
<1>7. x = G(q)
    OBVIOUS
<1>8. Cardinality(In(c) \cup {q}) = Len(old) + 1
    <2> DEFINE C == In(c)
    <2>1. q \notin C /\ IsFiniteSet(C) /\ Cardinality(C) = Len(old)
        BY <1>1, <1>4 DEF Holds
    <2> HIDE DEF C
    <2>2. Cardinality(C \cup {q}) = Cardinality(C) + 1
        BY <2>1, FS_AddElement
    <2>3. QED
        BY <2>1, <2>2 DEF C
<1>9. \A p \in P \cup {q} : B[new[p]].metric = metric /\ B[new[p]].pmu = U(p)
    <2>1. ASSUME NEW p \in P
          PROVE  B[at[p]].metric = metric /\ B[at[p]].pmu = U(p)
        <3>1. at[p] \in (lo + 1)..hi /\ A[at[p]].metric = metric /\ A[at[p]].pmu = U(p)
            BY DEF Cut
        <3>2. CASE at[p] # c
            BY <1>1, <3>1, <3>2
        <3>3. CASE at[p] = c
            BY <1>1, <3>3
        <3>4. QED
            BY <3>2, <3>3
    <2>2. QED
        BY <1>1, <1>3, <2>1
<1>10. ASSUME NEW p \in P \cup {q}, NEW r \in P \cup {q}, R(p, r)
      PROVE  /\ new[p] <= new[r]
             /\ new[p] # new[r] /\ U(p) = U(r) =>
                    \E s \in P \cup {q} : U(s) # U(p) /\ R(p, s) /\ R(s, r)
    <2>1. p \in P
        BY <1>1, <1>10
    <2>2. CASE r \in P
        <3>1. /\ at[p] <= at[r]
              /\ at[p] # at[r] /\ U(p) = U(r) => \E s \in P : U(s) # U(p) /\ R(p, s) /\ R(s, r)
            BY <1>10, <2>1, <2>2 DEF Cut
        <3> HIDE DEF R, U, new
        <3>2. QED
            BY <1>3, <2>1, <2>2, <3>1
    <2>3. CASE r = q
        <3>1. at[p] <= c
            BY <1>2, <2>1
        <3>2. at[p] # c /\ U(p) = U(q) => \E s \in P : U(s) # U(p) /\ R(p, s) /\ R(s, q)
            BY <1>1, <2>1
        <3> HIDE DEF R, U, new
        <3>3. QED
            BY <1>3, <2>1, <2>3, <3>1, <3>2
    <2>4. QED
        BY <2>2, <2>3
<1>11. ASSUME NEW a \in (lo + 1)..c
       PROVE  (\E p \in P \cup {q} : new[p] = a) /\ Holds(es, metric, P \cup {q}, new, a, B[a].offsets, g)
    <2>1. CASE a = c
        <3>1. {p \in P \cup {q} : new[p] = a} = In(c) \cup {q}
            BY <1>3, <2>1
        <3>2. Len(o) = Cardinality({p \in P \cup {q} : new[p] = a})
            BY <1>5, <1>8, <3>1
        <3>3. ASSUME NEW p \in P \cup {q}, new[p] = a
              PROVE  \E j \in 1..Len(o) : o[j] = G(p)
            <4>1. CASE p = q
                BY <1>5, <1>7, <4>1
            <4>2. CASE p \in P
                <5>1. PICK j \in 1..Len(old) : old[j] = G(p)
                    BY <1>3, <1>4, <2>1, <3>3, <4>2 DEF Holds
                <5>2. j \in 1..Len(o) /\ o[j] = G(p)
                    BY <1>5, <5>1
                <5>3. QED
                    BY <5>2
            <4>3. QED
                BY <4>1, <4>2
        <3>4. ASSUME NEW j \in 1..Len(o)
              PROVE  \E p \in P \cup {q} : new[p] = a /\ o[j] = G(p)
            <4>1. CASE j = Len(old) + 1
                BY <1>3, <1>5, <1>7, <2>1, <4>1
            <4>2. CASE j \in 1..Len(old)
                <5>1. PICK p \in P : at[p] = c /\ old[j] = G(p)
                    BY <1>4, <4>2 DEF Holds
                <5>2. new[p] = a /\ o[j] = G(p)
                    BY <1>3, <1>5, <2>1, <4>2, <5>1
                <5>3. QED
                    BY <5>2
            <4>3. QED
                BY <1>5, <4>1, <4>2
        <3>5. \E p \in P \cup {q} : new[p] = a
            BY <1>3, <2>1
        <3> HIDE DEF new, o, In
        <3>6. Holds(es, metric, P \cup {q}, new, a, o, g)
            BY <3>2, <3>3, <3>4 DEF Holds
        <3>7. QED
            BY <1>6, <2>1, <3>5, <3>6
    <2>2. CASE a # c
        <3>1. a \in (lo + 1)..hi /\ B[a] = A[a]
            BY <1>1, <2>2
        <3>2. {p \in P \cup {q} : new[p] = a} = In(a)
            BY <1>3, <2>2
        <3>3. (\E p \in P : at[p] = a) /\ Holds(es, metric, P, at, a, A[a].offsets, g)
            BY <3>1 DEF Cut
        <3> DEFINE w == A[a].offsets
        <3> HIDE DEF new, o, w
        <3>4. /\ \E p \in P \cup {q} : new[p] = a
              /\ \A p \in P \cup {q} : new[p] = a => p \in P /\ at[p] = a
              /\ \A p \in P : at[p] = a => new[p] = a /\ p \in P \cup {q}
            BY <1>3, <2>2, <3>3
        <3>5. Holds(es, metric, P, at, a, w, g)
            BY <3>3 DEF w
        <3>6. Len(w) = Cardinality({p \in P \cup {q} : new[p] = a})
            BY <3>2, <3>5 DEF Holds
        <3>7. \A p \in P \cup {q} : new[p] = a => \E j \in 1..Len(w) : w[j] = G(p)
            BY <3>4, <3>5 DEF Holds
        <3>8. ASSUME NEW j \in 1..Len(w)
              PROVE  \E p \in P \cup {q} : new[p] = a /\ w[j] = G(p)
            <4>1. PICK p \in P : at[p] = a /\ w[j] = G(p)
                BY <3>5 DEF Holds
            <4>2. QED
                BY <3>4, <4>1
        <3>9. Holds(es, metric, P \cup {q}, new, a, w, g)
            BY <3>6, <3>7, <3>8 DEF Holds
        <3>10. QED
            BY <3>1, <3>4, <3>9 DEF w
    <2>3. QED
        BY <2>1, <2>2
<1> HIDE DEF new
<1>12. Cut(es, metric, P \cup {q}, lo, c, B, g, new)
    BY <1>3, <1>9, <1>10, <1>11 DEF Cut
<1>13. QED
    BY <1>12 DEF new

\* The cut before anything is printed.
LEMMA CutStarts ==
    ASSUME NEW es, NEW metric, NEW P, P = {}, NEW lo \in Nat, NEW A, NEW g
    PROVE  Cut(es, metric, P, lo, lo, A, g, [p \in P |-> 0])
<1>1. (lo + 1)..lo = {}
    OBVIOUS
<1>2. QED
    BY <1>1 DEF Cut

\* Later arrays do not matter.
LEMMA CutStays ==
    ASSUME NEW es, NEW metric, NEW P, NEW lo, NEW hi, NEW A, NEW g, NEW at,
           Cut(es, metric, P, lo, hi, A, g, at), NEW B, \A a \in (lo + 1)..hi : B[a] = A[a]
    PROVE  Cut(es, metric, P, lo, hi, B, g, at)
<1>1. \A p \in P : at[p] \in (lo + 1)..hi
    BY DEF Cut
<1>2. \A p \in P : B[at[p]] = A[at[p]]
    BY <1>1
<1>3. \A p \in P : B[at[p]].metric = metric /\ B[at[p]].pmu = es[p]["pmu"]
    BY <1>2 DEF Cut
<1>4. \A a \in (lo + 1)..hi : (\E p \in P : at[p] = a) /\ Holds(es, metric, P, at, a, B[a].offsets, g)
    BY DEF Cut
<1>5. QED
    BY <1>3, <1>4 DEF Cut

LEMMA TableStays ==
    ASSUME NEW es, NEW metric, NEW lo, NEW hi, NEW A, NEW g,
           WholeTable(es, metric, lo, hi, A, g), NEW B, \A a \in (lo + 1)..hi : B[a] = A[a]
    PROVE  WholeTable(es, metric, lo, hi, B, g)
BY CutStays DEF WholeTable

\* The first k entries in the order have been printed, into the arrays from lo + 1 on.
FirstOf(order, k) == {order[i] : i \in 1..k}
Printed(metric, lo, order, k, at) ==
    /\ Listing(entries, metric, order)
    /\ k \in 0..Len(order)
    /\ todo \in Seq(Entries) /\ Len(todo) = Len(order) - k
    /\ \A i \in 1..Len(todo) : todo[i] = entries[order[k + i]]
    /\ Cut(entries, metric, FirstOf(order, k), lo, Len(arrays), arrays, offsets, at)
    /\ lastPmu = IF k = 0 THEN <<>> ELSE entries[order[k]]["pmu"]
    /\ k > 0 => at[order[k]] = Len(arrays)

OffsetsOf(g) == {g[s] : s \in Texts}
ArraysOf(g) == [metric : BOOLEAN, pmu : Texts, offsets : Seq(OffsetsOf(g))]

PrintInv ==
    /\ entries \in Seq(Entries)
    /\ arrays \in Seq(ArraysOf(offsets))
    /\ pc \in Before \cup Placing \cup {"done"} => arrays = <<>> /\ lastPmu = <<>>
    /\ pc = "events" => \E order, k, at : Printed(FALSE, 0, order, k, at)
    /\ pc = "metrics" =>
            \E lo \in 0..Len(arrays) :
                /\ WholeTable(entries, FALSE, 0, lo, arrays, offsets)
                /\ \E order, k, at : Printed(TRUE, lo, order, k, at)
    /\ pc = "printed" =>
            \E lo \in 0..Len(arrays) :
                /\ WholeTable(entries, FALSE, 0, lo, arrays, offsets)
                /\ WholeTable(entries, TRUE, lo, Len(arrays), arrays, offsets)

LEMMA FirstParts ==
    ASSUME NEW es \in Seq(Entries), NEW metric \in BOOLEAN, NEW order, Listing(es, metric, order), NEW k \in 0..Len(order)
    PROVE  /\ IsFiniteSet(FirstOf(order, k)) /\ FirstOf(order, k) \subseteq OwnOf(es, metric)
           /\ FirstOf(order, 0) = {} /\ FirstOf(order, Len(order)) = OwnOf(es, metric)
           /\ \A p \in OwnOf(es, metric) : es[p] \in Entries
           /\ \A i \in 1..Len(order) : order[i] \in OwnOf(es, metric)
           /\ k < Len(order) =>
                /\ FirstOf(order, k + 1) = FirstOf(order, k) \cup {order[k + 1]}
                /\ order[k + 1] \in OwnOf(es, metric) \ FirstOf(order, k)
                /\ \A p \in FirstOf(order, k) :
                        Precedes(es, metric, p, order[k + 1]) /\ ~ Precedes(es, metric, order[k + 1], p)
                /\ ~ Precedes(es, metric, order[k + 1], order[k + 1])
<1> DEFINE n == Len(order)
           own == OwnOf(es, metric)
<1>1. /\ order \in Seq(own) /\ n \in Nat /\ DOMAIN order = 1..n
      /\ \A i \in own : \E j \in 1..n : order[j] = i
      /\ \A i, j \in 1..n : i < j <=> Precedes(es, metric, order[i], order[j])
    BY DEF Listing
<1>2. \A i \in 1..n : order[i] \in own
    BY <1>1, ElementOfSeq
<1>3. \A p \in own : es[p] \in Entries
    BY ElementOfSeq, LenProperties DEF OwnOf
<1>4. FirstOf(order, k) \subseteq own
    BY <1>1, <1>2 DEF FirstOf
<1>5. IsFiniteSet(own)
    <2>1. \A i, j \in own : <<i, j>> \in {p \in own \X own : Precedes(es, metric, p[1], p[2])} <=> Precedes(es, metric, i, j)
        OBVIOUS
    <2>2. QED
        BY <2>1, PrecedesIs
<1>6. FirstOf(order, 0) = {} /\ FirstOf(order, n) = own
    <2>1. 1..0 = {}
        OBVIOUS
    <2>2. QED
        BY <1>1, <1>2, <2>1 DEF FirstOf
<1> HIDE DEF own
<1>7. IsFiniteSet(FirstOf(order, k))
    BY <1>4, <1>5, FS_Subset
<1>8. ASSUME k < n
      PROVE  /\ FirstOf(order, k + 1) = FirstOf(order, k) \cup {order[k + 1]}
             /\ order[k + 1] \notin FirstOf(order, k)
             /\ \A p \in FirstOf(order, k) :
                    Precedes(es, metric, p, order[k + 1]) /\ ~ Precedes(es, metric, order[k + 1], p)
             /\ ~ Precedes(es, metric, order[k + 1], order[k + 1])
    <2> DEFINE l == k + 1
    <2>1. l \in 1..n /\ (\A i \in 1..k : i \in 1..n /\ i < l /\ ~ (l < i)) /\ ~ (l < l) /\ 1..l = 1..k \cup {l}
        BY <1>1, <1>8
    <2> HIDE DEF l
    <2>2. FirstOf(order, l) = FirstOf(order, k) \cup {order[l]}
        BY <2>1 DEF FirstOf
    <2>3. ~ Precedes(es, metric, order[l], order[l])
        BY <1>1, <2>1
    <2>4. \A i \in 1..k : Precedes(es, metric, order[i], order[l]) /\ ~ Precedes(es, metric, order[l], order[i])
        BY <1>1, <2>1
    <2>5. \A p \in FirstOf(order, k) : \E i \in 1..k : p = order[i]
        BY DEF FirstOf
    <2>6. \A p \in FirstOf(order, k) : Precedes(es, metric, p, order[l]) /\ ~ Precedes(es, metric, order[l], p)
        BY <2>4, <2>5
    <2>7. order[l] \notin FirstOf(order, k)
        BY <2>3, <2>6
    <2>8. QED
        BY <2>2, <2>3, <2>6, <2>7 DEF l
<1>9. k < n => order[k + 1] \in own
    <2>1. k < n => k + 1 \in 1..n
        BY <1>1
    <2>2. QED
        BY <1>2, <2>1
<1>10. QED
    BY <1>2, <1>3, <1>4, <1>6, <1>7, <1>8, <1>9 DEF own

\* One more entry is printed.
LEMMA PrintEntryStep ==
    ASSUME entries \in Seq(Entries), arrays \in Seq(ArraysOf(offsets)), PrintEntry,
           NEW metric \in BOOLEAN, metric = Metric, NEW lo \in 0..Len(arrays),
           NEW order, NEW k, NEW at, Printed(metric, lo, order, k, at)
    PROVE  /\ arrays' \in Seq(ArraysOf(offsets)) /\ Len(arrays') >= Len(arrays)
           /\ \A a \in 1..lo : arrays'[a] = arrays[a]
           /\ \E at2 : Printed(metric, lo, order, k + 1, at2)'
<1> DEFINE l == k + 1
           q == order[l]
           e == entries[q]
           n == Len(order)
           hi == Len(arrays)
           x == offsets[build_c_string(e, metric)]
           P == FirstOf(order, k)
           own == OwnOf(entries, metric)
           U(p) == entries[p]["pmu"]
           R(p, r) == Precedes(entries, metric, p, r)
           S == OffsetsOf(offsets)
<1>1. /\ Listing(entries, metric, order) /\ k \in 0..n
      /\ todo \in Seq(Entries) /\ Len(todo) = n - k
      /\ \A i \in 1..Len(todo) : todo[i] = entries[order[k + i]]
      /\ Cut(entries, metric, P, lo, hi, arrays, offsets, at)
      /\ lastPmu = IF k = 0 THEN <<>> ELSE U(order[k])
      /\ k > 0 => at[order[k]] = hi
    BY DEF Printed
<1>2. n \in Nat /\ hi \in Nat /\ DOMAIN arrays = 1..hi /\ lo \in Nat
    BY <1>1, LenProperties DEF Listing
<1>3. todo # <<>> /\ UNCHANGED <<entries, offsets>>
    BY DEF PrintEntry, bcsVars
<1>4. k < n /\ l \in 1..n /\ l \in 0..n /\ Len(todo) # 0 /\ k \in Nat
    <2>1. Len(todo) # 0
        BY <1>1, <1>3, EmptySeq
    <2>2. QED
        BY <1>1, <1>2, <2>1
<1>5. /\ Head(todo) = e /\ Tail(todo) \in Seq(Entries) /\ Len(Tail(todo)) = n - l
      /\ \A i \in 1..Len(Tail(todo)) : Tail(todo)[i] = entries[order[l + i]]
    <2>1. Head(todo) = todo[1] /\ 1 \in 1..Len(todo)
        BY <1>1, <1>4, LenProperties
    <2>2. Tail(todo) \in Seq(Entries) /\ Len(Tail(todo)) = Len(todo) - 1
          /\ \A i \in 1..Len(Tail(todo)) : Tail(todo)[i] = todo[i + 1] /\ i + 1 \in 1..Len(todo)
        BY <1>1, <1>3, <1>4, HeadTailProperties, LenProperties
    <2>3. Head(todo) = e
        BY <1>1, <2>1
    <2>4. \A i \in 1..Len(Tail(todo)) : Tail(todo)[i] = entries[order[l + i]]
        <3> SUFFICES ASSUME NEW i \in 1..Len(Tail(todo))
                     PROVE  Tail(todo)[i] = entries[order[l + i]]
            OBVIOUS
        <3>1. Tail(todo)[i] = entries[order[k + (i + 1)]]
            BY <1>1, <2>2
        <3>2. k + (i + 1) = l + i
            BY <1>4
        <3>3. QED
            BY <3>1, <3>2
    <2>5. QED
        BY <1>1, <1>2, <1>4, <2>2, <2>3, <2>4
<1>6. /\ todo' = Tail(todo) /\ lastPmu' = e["pmu"]
      /\ arrays' = IF e["pmu"] = lastPmu
                   THEN [arrays EXCEPT ![hi].offsets = Append(@, x)]
                   ELSE Append(arrays, [metric |-> metric, pmu |-> e["pmu"], offsets |-> <<x>>])
    BY <1>5 DEF PrintEntry
<1>7. /\ IsFiniteSet(P) /\ P \subseteq own /\ FirstOf(order, 0) = {} /\ (\A p \in own : entries[p] \in Entries)
      /\ (\A i \in 1..n : order[i] \in own)
      /\ FirstOf(order, l) = P \cup {q} /\ q \in own \ P
      /\ (\A p \in P : R(p, q) /\ ~ R(q, p)) /\ ~ R(q, q)
    BY <1>1, <1>4, FirstParts
<1>8. e \in Entries /\ e["pmu"] \in Texts /\ e["pmu"] # <<>> /\ x \in S
    <2>1. e \in Entries
        BY <1>7
    <2>2. build_c_string(e, metric) \in Texts
        BY <2>1, BuildIsText
    <2>3. QED
        BY <2>1, <2>2, EntryParts DEF OffsetsOf
<1>9. \A a \in 1..hi : arrays[a] \in ArraysOf(offsets)
    BY ElementOfSeq
<1>10. ASSUME NEW c \in {hi, hi + 1}, NEW old \in Seq(S), c > lo, Len(arrays') = c,
              \A p \in P : U(p) = U(q) /\ at[p] # c => \E r \in P : U(r) # U(p) /\ R(p, r) /\ R(r, q),
              (c = hi + 1 /\ old = <<>>) \/ (c = hi /\ old = arrays[c].offsets),
              \A a \in 1..hi : a # c => arrays'[a] = arrays[a],
              \A p \in P : at[p] = c => U(p) = U(q),
              arrays' \in Seq(ArraysOf(offsets)),
              arrays'[c].metric = metric, arrays'[c].pmu = U(q), arrays'[c].offsets = Append(old, x)
       PROVE  /\ arrays' \in Seq(ArraysOf(offsets)) /\ Len(arrays') >= hi
              /\ \A a \in 1..lo : arrays'[a] = arrays[a]
              /\ \E at2 : Printed(metric, lo, order, k + 1, at2)'
    <2>1. \A a \in (lo + 1)..hi : a # c => arrays'[a] = arrays[a]
        BY <1>2, <1>10
    <2> HIDE DEF l
    <2>2. Cut(entries, metric, P \cup {q}, lo, c, arrays', offsets, Extended(at, q, c))
        <3>1. Follows(entries, metric, P, at, q, c)
            BY <1>7, <1>10 DEF Follows
        <3>2. Filled(arrays, arrays', lo, hi, c, old, metric, entries[q]["pmu"], offsets[build_c_string(entries[q], metric)])
            BY <1>10, <2>1 DEF Filled
        <3>3. /\ IsFiniteSet(P) /\ Cut(entries, metric, P, lo, hi, arrays, offsets, at)
              /\ offsets[build_c_string(entries[q], metric)] \in S
            BY <1>1, <1>7, <1>8
        <3> DEFINE B == arrays'
                   A == arrays
                   es == entries
                   g == offsets
        <3>4. /\ Follows(es, metric, P, at, q, c) /\ IsFiniteSet(P) /\ Cut(es, metric, P, lo, hi, A, g, at)
              /\ Filled(A, B, lo, hi, c, old, metric, es[q]["pmu"], g[build_c_string(es[q], metric)])
              /\ g[build_c_string(es[q], metric)] \in S /\ old \in Seq(S)
              /\ lo \in Nat /\ hi \in Nat /\ c \in {hi, hi + 1} /\ c > lo
            BY <1>2, <1>10, <3>1, <3>2, <3>3
        <3> HIDE DEF q, P, S, hi, B, A, es, g
        <3>5. Cut(es, metric, P \cup {q}, lo, c, B, g, Extended(at, q, c))
            BY <3>4, CutGrows
        <3>6. QED
            BY <3>5 DEF B, es, g
    <2>3. Cut(entries', metric, FirstOf(order, l), lo, Len(arrays'), arrays', offsets', Extended(at, q, c))
        BY <1>3, <1>7, <1>10, <2>2
    <2>4. Extended(at, q, c)[q] = c
        BY DEF Extended
    <2>5. lastPmu' = IF l = 0 THEN <<>> ELSE entries'[order[l]]["pmu"]
        BY <1>3, <1>4, <1>6
    <2>6. /\ todo' \in Seq(Entries) /\ Len(todo') = n - l
          /\ \A i \in 1..Len(todo') : todo'[i] = entries'[order[l + i]]
        BY <1>3, <1>5, <1>6
    <2>7. Listing(entries', metric, order)
        BY <1>1, <1>3
    <2>8. l > 0 => Extended(at, q, c)[order[l]] = Len(arrays')
        BY <1>10, <2>4
    <2>9. Printed(metric, lo, order, l, Extended(at, q, c))'
        BY <1>4, <2>3, <2>5, <2>6, <2>7, <2>8 DEF Printed
    <2>10. c >= hi /\ \A a \in 1..lo : a \in 1..hi /\ a # c
        BY <1>2, <1>10
    <2>11. QED
        BY <1>10, <2>9, <2>10 DEF l
<1>11. CASE e["pmu"] = lastPmu
    <2>1. k > 0 /\ lastPmu = U(order[k]) /\ k \in 1..k /\ k \in 1..n
        BY <1>1, <1>2, <1>4, <1>8, <1>11
    <2>2. order[k] \in P /\ at[order[k]] = hi
        BY <1>1, <2>1 DEF FirstOf
    <2>3. hi \in (lo + 1)..hi /\ arrays[hi].metric = metric /\ arrays[hi].pmu = U(q)
        BY <1>1, <1>11, <2>1, <2>2 DEF Cut
    <2> DEFINE old == arrays[hi].offsets
    <2>4. hi \in 1..hi /\ hi > lo
        BY <1>2, <2>3
    <2>5. old \in Seq(S) /\ arrays[hi] \in ArraysOf(offsets)
        BY <1>9, <2>4 DEF ArraysOf
    <2>6. arrays' = [arrays EXCEPT ![hi] = [arrays[hi] EXCEPT !.offsets = Append(old, x)]]
        BY <1>6, <1>11
    <2>7. Append(old, x) \in Seq(S)
        BY <1>8, <2>5, AppendProperties
    <2> DEFINE b == [arrays[hi] EXCEPT !.offsets = Append(old, x)]
    <2>8. b \in ArraysOf(offsets) /\ b.metric = metric /\ b.pmu = U(q) /\ b.offsets = Append(old, x)
        BY <2>3, <2>5, <2>7 DEF ArraysOf
    <2> HIDE DEF b
    <2>9. /\ arrays' \in Seq(ArraysOf(offsets)) /\ Len(arrays') = hi
          /\ arrays'[hi] = b /\ \A a \in 1..hi : a # hi => arrays'[a] = arrays[a]
        <3>1. arrays' = [arrays EXCEPT ![hi] = b]
            BY <2>6 DEF b
        <3> DEFINE T == ArraysOf(offsets)
                   v == arrays
        <3>2. v \in Seq(T) /\ hi \in 1..Len(v) /\ b \in T
            BY <2>4, <2>8
        <3> HIDE DEF T, v
        <3>3. /\ [v EXCEPT ![hi] = b] \in Seq(T) /\ Len([v EXCEPT ![hi] = b]) = Len(v)
              /\ \A a \in 1..Len(v) : [v EXCEPT ![hi] = b][a] = IF a = hi THEN b ELSE v[a]
            BY <3>2, ExceptSeq
        <3>4. QED
            BY <2>4, <3>1, <3>3 DEF T, v
    <2>10. \A p \in P : U(p) = U(q) /\ at[p] # hi => \E r \in P : U(r) # U(p) /\ R(p, r) /\ R(r, q)
        <3> SUFFICES ASSUME NEW p \in P, U(p) = U(q), at[p] # hi
                     PROVE  \E r \in P : U(r) # U(p) /\ R(p, r) /\ R(r, q)
            OBVIOUS
        <3>1. R(p, order[k]) \/ R(order[k], p)
            BY <1>1, <1>7, <2>2, ListingOrders
        <3>2. ~ R(order[k], p)
            <4>1. R(order[k], p) => hi <= at[p]
                BY <1>1, <2>2 DEF Cut
            <4>2. at[p] \in (lo + 1)..hi
                BY <1>1 DEF Cut
            <4>3. ~ (hi <= at[p])
                BY <1>2, <4>2
            <4>4. QED
                BY <4>1, <4>3
        <3>3. U(p) = U(order[k])
            BY <1>11, <2>1
        <3>4. PICK r \in P : U(r) # U(p) /\ R(p, r) /\ R(r, order[k])
            BY <1>1, <2>2, <3>1, <3>2, <3>3 DEF Cut
        <3>5. R(r, q)
            BY <1>7
        <3>6. QED
            BY <3>4, <3>5
    <2>11. \A p \in P : at[p] = hi => U(p) = U(q)
        BY <1>1, <2>3 DEF Cut
    <2>12. arrays'[hi].metric = metric /\ arrays'[hi].pmu = U(q) /\ arrays'[hi].offsets = Append(old, x)
        BY <2>8, <2>9
    <2>13. QED
        BY <1>10, <2>4, <2>5, <2>9, <2>10, <2>11, <2>12
<1>12. CASE e["pmu"] # lastPmu
    <2> DEFINE b == [metric |-> metric, pmu |-> e["pmu"], offsets |-> <<x>>]
               c == hi + 1
    <2>1. arrays' = Append(arrays, b)
        BY <1>6, <1>12
    <2>2. <<>> \in Seq(S) /\ <<x>> \in Seq(S) /\ <<x>> = Append(<<>>, x)
        <3> HIDE DEF x, S
        <3>1. <<>> \in Seq(S) /\ <<x>> \in Seq(S)
            BY <1>8
        <3>2. QED
            BY <3>1
    <2>3. b \in ArraysOf(offsets) /\ b.metric = metric /\ b.pmu = U(q) /\ b.offsets = Append(<<>>, x)
        BY <1>8, <2>2 DEF ArraysOf
    <2> HIDE DEF b
    <2>4. /\ arrays' \in Seq(ArraysOf(offsets)) /\ Len(arrays') = c
          /\ arrays'[c] = b /\ \A a \in 1..hi : arrays'[a] = arrays[a]
        BY <1>2, <2>1, <2>3, AppendProperties
    <2>5. \A p \in P : U(p) = U(q) /\ at[p] # c => \E r \in P : U(r) # U(p) /\ R(p, r) /\ R(r, q)
        <3> SUFFICES ASSUME NEW p \in P, U(p) = U(q)
                     PROVE  \E r \in P : U(r) # U(p) /\ R(p, r) /\ R(r, q)
            OBVIOUS
        <3>1. k # 0
            BY <1>7
        <3>2. lastPmu = U(order[k]) /\ k \in 1..k /\ k \in 1..n
            BY <1>1, <1>2, <1>4, <3>1
        <3>3. order[k] \in P /\ U(order[k]) # U(p)
            BY <1>12, <3>2 DEF FirstOf
        <3>4. PICK i \in 1..k : p = order[i]
            BY DEF FirstOf
        <3>5. i < k /\ i \in 1..n
            BY <1>4, <3>3, <3>4
        <3>6. R(p, order[k])
            BY <1>1, <3>2, <3>4, <3>5 DEF Listing
        <3>7. R(order[k], q)
            BY <1>7, <3>3
        <3>8. QED
            BY <3>3, <3>6, <3>7
    <2>6. arrays'[c].metric = metric /\ arrays'[c].pmu = U(q) /\ arrays'[c].offsets = Append(<<>>, x)
        BY <2>3, <2>4
    <2>7. \A p \in P : at[p] = c => U(p) = U(q)
        <3>1. \A p \in P : at[p] \in (lo + 1)..hi
            BY <1>1 DEF Cut
        <3>2. c \notin (lo + 1)..hi
            BY <1>2
        <3>3. QED
            BY <3>1, <3>2
    <2>8. c \in {hi, hi + 1} /\ c > lo /\ c # hi
        <3>1. hi \in Nat /\ lo \in 0..hi
            BY <1>2
        <3> HIDE DEF hi
        <3>2. QED
            BY <3>1
    <2>9. QED
        BY <1>10, <2>2, <2>4, <2>5, <2>6, <2>8, <2>7
<1>13. QED
    BY <1>11, <1>12

LEMMA PrintInit ==
    Init => PrintInv
<1> SUFFICES ASSUME Init
             PROVE  PrintInv
    OBVIOUS
<1>1. entries = <<>> /\ arrays = <<>> /\ lastPmu = <<>> /\ pc = "add"
    BY DEF Init
<1>2. entries \in Seq(Entries) /\ arrays \in Seq(ArraysOf(offsets))
    BY <1>1, EmptySeq
<1>3. QED
    BY <1>1, <1>2 DEF PrintInv

\* Nothing of a table is printed when its entries have been sorted.
LEMMA PrintStarts ==
    ASSUME entries \in Seq(Entries), NEW metric \in BOOLEAN, todo' = Sorted(metric), lastPmu' = <<>>,
           NEW lo \in Nat, Len(arrays) = lo, UNCHANGED <<entries, offsets, arrays>>
    PROVE  \E order, k, at : Printed(metric, lo, order, k, at)'
<1>1. PICK order : Listing(entries, metric, order) /\ Sorted(metric) = [i \in DOMAIN order |-> entries[order[i]]]
    BY SortedIs
<1> DEFINE n == Len(order)
           at == [p \in FirstOf(order, 0) |-> 0]
<1>2. n \in Nat /\ DOMAIN order = 1..n /\ 0 \in 0..n
    BY <1>1 DEF Listing
<1>3. FirstOf(order, 0) = {} /\ \A i \in 1..n : entries[order[i]] \in Entries
    BY <1>1, <1>2, FirstParts
<1>4. todo' = [i \in 1..n |-> entries[order[i]]]
    BY <1>1, <1>2
<1>5. todo' \in Seq(Entries) /\ Len(todo') = n - 0 /\ \A i \in 1..Len(todo') : todo'[i] = entries[order[0 + i]]
    <2>1. todo' \in Seq(Entries) /\ Len(todo') = n
        BY <1>2, <1>3, <1>4
    <2>2. \A i \in 1..n : 0 + i = i
        OBVIOUS
    <2>3. QED
        BY <1>2, <1>4, <2>1, <2>2
<1>6. Cut(entries, metric, FirstOf(order, 0), lo, lo, arrays, offsets, at)
    BY <1>3, CutStarts
<1> HIDE DEF at
<1>7. Printed(metric, lo, order, 0, at)'
    BY <1>1, <1>2, <1>5, <1>6 DEF Printed
<1>8. QED
    BY <1>7

\* All of a table is printed when no entry is left.
LEMMA PrintIsWhole ==
    ASSUME entries \in Seq(Entries), NEW metric \in BOOLEAN, NEW lo, NEW order, NEW k, NEW at,
           Printed(metric, lo, order, k, at), todo = <<>>
    PROVE  WholeTable(entries, metric, lo, Len(arrays), arrays, offsets)
<1>1. Listing(entries, metric, order) /\ k \in 0..Len(order) /\ Len(todo) = Len(order) - k
      /\ Cut(entries, metric, FirstOf(order, k), lo, Len(arrays), arrays, offsets, at)
    BY DEF Printed
<1>2. k = Len(order)
    <2>1. Len(order) \in Nat /\ Len(todo) = 0
        BY <1>1, EmptySeq DEF Listing
    <2>2. QED
        BY <1>1, <2>1
<1>3. FirstOf(order, k) = OwnOf(entries, metric)
    BY <1>1, <1>2, FirstParts
<1>4. QED
    BY <1>1, <1>3 DEF WholeTable

\* What a step does to the arrays.
LEMMA PrintSteps ==
    ASSUME [Next]_vars
    PROVE  \/ \E e \in Entries : ReadEntry(e)
           \/ /\ UNCHANGED <<entries, arrays, lastPmu>>
              /\ pc \in Before \cup Placing /\ pc' \in Before \cup Placing \cup {"done"}
           \/ StartEvents \/ PrintEntry \/ PrintRaises \/ StartMetrics \/ PrintEnds
           \/ UNCHANGED vars
<1>1. CASE ComputeStrings
    <2>1. UNCHANGED <<entries, arrays, lastPmu>>
        BY <1>1 DEF ComputeStrings
    <2>2. CASE Compute \/ FoldString \/ FoldEnds \/ EmitString
        BY <2>1, <2>2 DEF Compute, FoldString, FoldEnds, EmitString, Before, Placing
    <2>3. CASE EmitEnds \/ PlaceFolded \/ PlaceEnds
        BY <2>1, <2>3 DEF EmitEnds, PlaceFolded, PlaceEnds, Before, Placing
    <2>4. QED
        BY <1>1, <2>2, <2>3 DEF ComputeStrings, BcsStep
<1>2. QED
    BY <1>1 DEF Next

LEMMA PrintStep ==
    PrintInv /\ [Next]_vars => PrintInv'
<1> SUFFICES ASSUME PrintInv, [Next]_vars
             PROVE  PrintInv'
    OBVIOUS
<1>1. entries \in Seq(Entries) /\ arrays \in Seq(ArraysOf(offsets)) /\ Len(arrays) \in Nat
    BY LenProperties DEF PrintInv
<1>2. CASE \E e \in Entries : ReadEntry(e)
    <2>1. PICK e \in Entries : ReadEntry(e)
        BY <1>2
    <2>2. pc = "add" /\ pc' = "add" /\ entries' = Append(entries, e) /\ UNCHANGED <<arrays, lastPmu, offsets>>
        BY <2>1 DEF ReadEntry, AddAll
    <2>3. entries' \in Seq(Entries)
        BY <1>1, <2>2, AppendProperties
    <2>4. QED
        BY <1>1, <2>2, <2>3 DEF PrintInv, Before
<1>3. CASE /\ UNCHANGED <<entries, arrays, lastPmu>>
           /\ pc \in Before \cup Placing /\ pc' \in Before \cup Placing \cup {"done"}
    <2>1. arrays' = <<>> /\ lastPmu' = <<>> /\ entries' \in Seq(Entries)
        BY <1>1, <1>3 DEF PrintInv
    <2>2. arrays' \in Seq(ArraysOf(offsets'))
        BY <2>1, EmptySeq
    <2>3. pc' \notin {"events", "metrics", "printed"}
        BY <1>3 DEF Before, Placing
    <2>4. QED
        BY <2>1, <2>2, <2>3 DEF PrintInv
<1>4. CASE StartEvents
    <2>1. pc = "done" /\ pc' = "events" /\ todo' = Sorted(FALSE) /\ UNCHANGED <<entries, lastPmu, arrays, offsets>>
        BY <1>4 DEF StartEvents, bcsVars
    <2>2. arrays = <<>> /\ lastPmu' = <<>> /\ Len(arrays) = 0
        BY <2>1, EmptySeq DEF PrintInv
    <2>3. \E order, k, at : Printed(FALSE, 0, order, k, at)'
        BY <1>1, <2>1, <2>2, PrintStarts
    <2>4. pc' \notin Before \cup Placing \cup {"done"}
        BY <2>1 DEF Before, Placing
    <2>5. QED
        BY <1>1, <2>1, <2>3, <2>4 DEF PrintInv
<1>5. CASE PrintEntry
    <2>1. pc' = pc /\ pc \in {"events", "metrics"} /\ UNCHANGED <<entries, offsets>>
        BY <1>5 DEF PrintEntry, Printing, bcsVars
    <2>2. pc' \notin Before \cup Placing \cup {"done"}
        BY <2>1 DEF Before, Placing
    <2>3. CASE pc = "events"
        <3>1. PICK order, k, at : Printed(FALSE, 0, order, k, at)
            BY <2>3 DEF PrintInv
        <3>2. FALSE = Metric /\ 0 \in 0..Len(arrays)
            BY <1>1, <2>3 DEF Metric
        <3>3. /\ arrays' \in Seq(ArraysOf(offsets))
              /\ \E at2 : Printed(FALSE, 0, order, k + 1, at2)'
            BY <1>1, <1>5, <3>1, <3>2, PrintEntryStep
        <3>4. QED
            BY <1>1, <2>1, <2>2, <2>3, <3>3 DEF PrintInv
    <2>4. CASE pc = "metrics"
        <3>1. PICK lo \in 0..Len(arrays) :
                    /\ WholeTable(entries, FALSE, 0, lo, arrays, offsets)
                    /\ \E order, k, at : Printed(TRUE, lo, order, k, at)
            BY <2>4 DEF PrintInv
        <3>2. PICK order, k, at : Printed(TRUE, lo, order, k, at)
            BY <3>1
        <3>3. TRUE = Metric
            BY <2>4 DEF Metric
        <3>4. /\ arrays' \in Seq(ArraysOf(offsets)) /\ Len(arrays') >= Len(arrays)
              /\ \A a \in 1..lo : arrays'[a] = arrays[a]
              /\ \E at2 : Printed(TRUE, lo, order, k + 1, at2)'
            BY <1>1, <1>5, <3>2, <3>3, PrintEntryStep
        <3>5. WholeTable(entries, FALSE, 0, lo, arrays', offsets)
            <4>1. (0 + 1)..lo = 1..lo
                OBVIOUS
            <4>2. QED
                BY <3>1, <3>4, <4>1, TableStays
        <3>6. lo \in 0..Len(arrays')
            <4>1. Len(arrays') \in Nat
                BY <3>4, LenProperties
            <4>2. QED
                BY <1>1, <3>4, <4>1
        <3>7. QED
            BY <1>1, <2>1, <2>2, <2>4, <3>4, <3>5, <3>6 DEF PrintInv
    <2>5. QED
        BY <2>1, <2>3, <2>4
<1>6. CASE PrintRaises
    <2>1. pc' = "raised" /\ UNCHANGED <<entries, arrays, offsets>>
        BY <1>6 DEF PrintRaises, bcsVars
    <2>2. QED
        BY <1>1, <2>1 DEF PrintInv, Before, Placing
<1>7. CASE StartMetrics
    <2>1. /\ pc = "events" /\ pc' = "metrics" /\ todo = <<>> /\ todo' = Sorted(TRUE) /\ lastPmu' = <<>>
          /\ UNCHANGED <<entries, arrays, offsets>>
        BY <1>7 DEF StartMetrics, bcsVars
    <2> PICK lo \in Nat : lo = Len(arrays)
        BY <1>1
    <2>2. WholeTable(entries, FALSE, 0, lo, arrays, offsets)
        BY <1>1, <2>1, PrintIsWhole DEF PrintInv
    <2>3. \E order, k, at : Printed(TRUE, lo, order, k, at)'
        BY <1>1, <2>1, PrintStarts
    <2>4. lo \in 0..Len(arrays')
        BY <1>1, <2>1
    <2>5. QED
        BY <1>1, <2>1, <2>2, <2>3, <2>4 DEF PrintInv, Before, Placing
<1>8. CASE PrintEnds
    <2>1. pc = "metrics" /\ pc' = "printed" /\ todo = <<>> /\ UNCHANGED <<entries, arrays, offsets>>
        BY <1>8 DEF PrintEnds, bcsVars
    <2>2. PICK lo \in 0..Len(arrays) :
                /\ WholeTable(entries, FALSE, 0, lo, arrays, offsets)
                /\ \E order, k, at : Printed(TRUE, lo, order, k, at)
        BY <2>1 DEF PrintInv
    <2>3. WholeTable(entries, TRUE, lo, Len(arrays), arrays, offsets)
        BY <1>1, <2>1, <2>2, PrintIsWhole
    <2>4. QED
        BY <1>1, <2>1, <2>2, <2>3 DEF PrintInv, Before, Placing
<1>9. CASE UNCHANGED vars
    <2>1. UNCHANGED <<pc, entries, todo, lastPmu, arrays, offsets>>
        BY <1>9 DEF vars, bcsVars
    <2>2. ASSUME NEW metric, NEW lo, NEW order, NEW k, NEW at, Printed(metric, lo, order, k, at)
          PROVE  Printed(metric, lo, order, k, at)'
        BY <2>1, <2>2 DEF Printed
    <2>3. (\E order, k, at : Printed(FALSE, 0, order, k, at)) => \E order, k, at : Printed(FALSE, 0, order, k, at)'
        BY <2>2
    <2>4. ASSUME NEW lo, \E order, k, at : Printed(TRUE, lo, order, k, at)
          PROVE  \E order, k, at : Printed(TRUE, lo, order, k, at)'
        BY <2>2, <2>4
    <2>5. pc = "metrics" =>
            \E lo \in 0..Len(arrays') :
                /\ WholeTable(entries', FALSE, 0, lo, arrays', offsets')
                /\ \E order, k, at : Printed(TRUE, lo, order, k, at)'
        <3>1. SUFFICES ASSUME pc = "metrics"
                       PROVE  \E lo \in 0..Len(arrays') :
                                /\ WholeTable(entries', FALSE, 0, lo, arrays', offsets')
                                /\ \E order, k, at : Printed(TRUE, lo, order, k, at)'
            OBVIOUS
        <3>2. PICK lo \in 0..Len(arrays) :
                    /\ WholeTable(entries, FALSE, 0, lo, arrays, offsets)
                    /\ \E order, k, at : Printed(TRUE, lo, order, k, at)
            BY <3>1 DEF PrintInv
        <3>3. \E order, k, at : Printed(TRUE, lo, order, k, at)'
            BY <2>4, <3>2
        <3>4. QED
            BY <2>1, <3>2, <3>3
    <2>6. QED
        BY <2>1, <2>3, <2>5 DEF PrintInv
<1>10. QED
    BY <1>2, <1>3, <1>4, <1>5, <1>6, <1>7, <1>8, <1>9, PrintSteps

\* The arrays printed so far are the sorted entries cut where the PMU changes, each with the
\* offsets of its entries and of no others.
THEOREM AlwaysPrintInv ==
    Spec => []PrintInv
BY PrintInit, PrintStep, PTL DEF Spec

-----------------------------------------------------------------------------
(* ArraysDefinedOnce. *)

\* The names of all arrays differ when those of the events do and those of the metrics.
LEMMA NamesAreTwo ==
    ASSUME NEW A, NEW n \in Nat, DOMAIN A = 1..n, NEW lo \in 0..n,
           NEW es, NEW g, WholeTable(es, FALSE, 0, lo, A, g), WholeTable(es, TRUE, lo, n, A, g)
    PROVE  IsInjective([k \in DOMAIN A |-> ArrayName(A[k])]) <=> NamedOnce(A, 0, lo) /\ NamedOnce(A, lo, n)
<1>1. ASSUME NEW metric, NEW l, NEW h, WholeTable(es, metric, l, h, A, g), NEW a \in (l + 1)..h
      PROVE  ArrayName(A[a]) = <<metric, Underscored(A[a].pmu)>>
    <2>1. PICK at : Cut(es, metric, OwnOf(es, metric), l, h, A, g, at)
        BY <1>1 DEF WholeTable
    <2>2. PICK p \in OwnOf(es, metric) : at[p] = a
        BY <1>1, <2>1 DEF Cut
    <2>3. A[a].metric = metric
        BY <2>1, <2>2 DEF Cut
    <2>4. QED
        BY <2>3 DEF ArrayName
<1>2. \A a \in (0 + 1)..lo : ArrayName(A[a]) = <<FALSE, Underscored(A[a].pmu)>>
    BY <1>1
<1>3. \A a \in (lo + 1)..n : ArrayName(A[a]) = <<TRUE, Underscored(A[a].pmu)>>
    BY <1>1
<1>4. \A a \in 1..n : a \in (0 + 1)..lo \/ a \in (lo + 1)..n
    OBVIOUS
<1>5. \A a \in (0 + 1)..lo \cup (lo + 1)..n : a \in 1..n
    OBVIOUS
<1>6. IsInjective([k \in DOMAIN A |-> ArrayName(A[k])])
      <=> \A a, b \in 1..n : ArrayName(A[a]) = ArrayName(A[b]) => a = b
    BY DEF IsInjective
<1> DEFINE N(a) == ArrayName(A[a])
           U(a) == Underscored(A[a].pmu)
<1>7. NamedOnce(A, 0, lo) <=> \A a, b \in (0 + 1)..lo : U(a) = U(b) => a = b
    BY DEF NamedOnce
<1>8. NamedOnce(A, lo, n) <=> \A a, b \in (lo + 1)..n : U(a) = U(b) => a = b
    BY DEF NamedOnce
<1> DEFINE E == (0 + 1)..lo
           M == (lo + 1)..n
<1>9. /\ \A a \in E : N(a) = <<FALSE, U(a)>>
      /\ \A a \in M : N(a) = <<TRUE, U(a)>>
    BY <1>2, <1>3
<1> HIDE DEF N, U, E, M
<1>10. ASSUME NEW a \in E, NEW b \in E
       PROVE  N(a) = N(b) <=> U(a) = U(b)
    <2>1. N(a) = <<FALSE, U(a)>> /\ N(b) = <<FALSE, U(b)>>
        BY <1>9
    <2>2. QED
        BY <2>1
<1>11. ASSUME NEW a \in M, NEW b \in M
       PROVE  N(a) = N(b) <=> U(a) = U(b)
    <2>1. N(a) = <<TRUE, U(a)>> /\ N(b) = <<TRUE, U(b)>>
        BY <1>9
    <2>2. QED
        BY <2>1
<1>12. ASSUME NEW a \in E, NEW b \in M
       PROVE  N(a) # N(b)
    <2>1. N(a) = <<FALSE, U(a)>> /\ N(b) = <<TRUE, U(b)>>
        BY <1>9
    <2>2. QED
        BY <2>1
<1>13. \A a : a \in 1..n <=> a \in E \/ a \in M
    BY <1>4, <1>5 DEF E, M
<1>14. (\A a, b \in 1..n : N(a) = N(b) => a = b)
       <=> /\ \A a, b \in E : U(a) = U(b) => a = b
           /\ \A a, b \in M : U(a) = U(b) => a = b
    BY <1>10, <1>11, <1>12, <1>13
<1>15. QED
    BY <1>6, <1>7, <1>8, <1>14 DEF N, E, M

\* ArraysDefinedOnce of TableLayout: the name of every array is defined once if and only if no
\* two PMUs of a table differ in commas and underscores alone, and one PMU at most has metrics
\* of both kinds, behind those that have none with a description and before the others.
THEOREM AlwaysArraysDefinedOnce ==
    Spec => []ArraysDefinedOnce
<1>1. ASSUME PrintInv, pc = "printed"
      PROVE  LET described(b) == {entries[i]["pmu"] : i \in {j \in EntriesOf(TRUE) : (entries[j]["desc"] # <<>>) = b}}
             IN  IsInjective([k \in DOMAIN arrays |-> ArrayName(arrays[k])])
                 <=> /\ \A metric \in BOOLEAN : \A p, q \in PmusOf(metric) :
                             Underscored(p) = Underscored(q) => p = q
                     /\ \A p \in described(TRUE) \cap described(FALSE) :
                             /\ \A q \in described(FALSE) : ~ Less(p, q)
                             /\ \A q \in described(TRUE) : ~ Less(q, p)
    <2> DEFINE es == entries
               described(b) == {entries[i]["pmu"] : i \in {j \in EntriesOf(TRUE) : (entries[j]["desc"] # <<>>) = b}}
    <2>1. PICK lo \in 0..Len(arrays) :
                /\ WholeTable(es, FALSE, 0, lo, arrays, offsets)
                /\ WholeTable(es, TRUE, lo, Len(arrays), arrays, offsets)
        BY <1>1 DEF PrintInv
    <2>2. es \in Seq(Entries) /\ Len(arrays) \in Nat /\ DOMAIN arrays = 1..Len(arrays) /\ lo \in Nat
        BY <1>1, LenProperties DEF PrintInv
    <2>3. IsInjective([k \in DOMAIN arrays |-> ArrayName(arrays[k])])
          <=> NamedOnce(arrays, 0, lo) /\ NamedOnce(arrays, lo, Len(arrays))
        BY <2>1, <2>2, NamesAreTwo
    <2>4. NamedOnce(arrays, 0, lo) <=> NamesDiffer(es, FALSE)
        BY <2>1, <2>2, EventArrays
    <2>5. NamedOnce(arrays, lo, Len(arrays)) <=> NamesDiffer(es, TRUE) /\ KindsApart(es)
        BY <2>1, <2>2, MetricArrays
    <2>6. ASSUME NEW metric \in BOOLEAN
          PROVE  PmusOf(metric) = {es[i]["pmu"] : i \in OwnOf(es, metric)}
        BY DEF PmusOf, EntriesOf, OwnOf
    <2>7. ASSUME NEW metric \in BOOLEAN
          PROVE  NamesDiffer(es, metric)
                 <=> \A p, q \in PmusOf(metric) : Underscored(p) = Underscored(q) => p = q
        BY <2>6 DEF NamesDiffer
    <2>8. /\ described(TRUE) = {es[i]["pmu"] : i \in {j \in OwnOf(es, TRUE) : Described(es[j])}}
          /\ described(FALSE) = {es[i]["pmu"] : i \in {j \in OwnOf(es, TRUE) : ~ Described(es[j])}}
        BY DEF EntriesOf, OwnOf, Described
    <2> HIDE DEF es, described
    <2>9. KindsApart(es) <=> \A p \in described(TRUE) \cap described(FALSE) :
                                /\ \A q \in described(FALSE) : ~ Less(p, q)
                                /\ \A q \in described(TRUE) : ~ Less(q, p)
        <3> DEFINE own == OwnOf(es, TRUE)
                   U(i) == es[i]["pmu"]
                   D(i) == Described(es[i])
        <3>1. KindsApart(es) <=> \A n, d \in own : U(n) = U(d) /\ ~ D(n) /\ D(d) =>
                    \A q \in own : (~ D(q) => ~ Less(U(n), U(q))) /\ (D(q) => ~ Less(U(q), U(n)))
            BY DEF KindsApart
        <3>2. /\ \A p : p \in described(TRUE) <=> \E i \in own : D(i) /\ p = U(i)
              /\ \A p : p \in described(FALSE) <=> \E i \in own : ~ D(i) /\ p = U(i)
            BY <2>8
        <3> DEFINE T == described(TRUE)
                   F == described(FALSE)
        <3>3. /\ \A p : p \in T <=> \E i \in own : D(i) /\ p = U(i)
              /\ \A p : p \in F <=> \E i \in own : ~ D(i) /\ p = U(i)
            BY <3>2
        <3> HIDE DEF own, U, D, T, F
        <3>4. ASSUME \A n, d \in own : U(n) = U(d) /\ ~ D(n) /\ D(d) =>
                        \A q \in own : (~ D(q) => ~ Less(U(n), U(q))) /\ (D(q) => ~ Less(U(q), U(n))),
                     NEW p \in T \cap F
              PROVE  (\A q \in F : ~ Less(p, q)) /\ (\A q \in T : ~ Less(q, p))
            <4>1. PICK d \in own : D(d) /\ p = U(d)
                BY <3>3, <3>4
            <4>2. PICK n \in own : ~ D(n) /\ p = U(n)
                BY <3>3, <3>4
            <4>3. \A q \in own : (~ D(q) => ~ Less(p, U(q))) /\ (D(q) => ~ Less(U(q), p))
                BY <3>4, <4>1, <4>2
            <4>4. QED
                BY <3>3, <4>3
        <3>5. ASSUME \A p \in T \cap F : (\A q \in F : ~ Less(p, q)) /\ (\A q \in T : ~ Less(q, p)),
                     NEW n \in own, NEW d \in own, U(n) = U(d), ~ D(n), D(d), NEW q \in own
              PROVE  (~ D(q) => ~ Less(U(n), U(q))) /\ (D(q) => ~ Less(U(q), U(n)))
            <4>1. U(n) \in T \cap F
                BY <3>3, <3>5
            <4>2. (~ D(q) => U(q) \in F) /\ (D(q) => U(q) \in T)
                BY <3>3
            <4>3. QED
                BY <3>5, <4>1, <4>2
        <3>6. QED
            BY <3>1, <3>4, <3>5 DEF T, F
    <2>10. (\A metric \in BOOLEAN : \A p, q \in PmusOf(metric) : Underscored(p) = Underscored(q) => p = q)
           <=> NamesDiffer(es, FALSE) /\ NamesDiffer(es, TRUE)
        BY <2>7
    <2>11. QED
        BY <2>3, <2>4, <2>5, <2>9, <2>10 DEF described
<1>2. PrintInv => ArraysDefinedOnce
    BY <1>1 DEF ArraysDefinedOnce
<1>3. QED
    BY <1>2, AlwaysPrintInv, PTL

-----------------------------------------------------------------------------
(* Where the strings of the library end. *)

\* How many \000 are counted in a source that are none when it is compiled.
Excess(s) == CountOf(NulEscape, s) - CountOf(<<NulEscape>>, Compiled(s))

\* The escape that the source begins with ends in the backslash of a \000.
Masked(s) == SourceLen(s, 1) = 2 /\ 5 <= Len(s) /\ SubSeq(s, 2, 5) = NulEscape

LEMMA ExcessStep ==
    ASSUME NEW s \in Texts, s # <<>>
    PROVE  /\ Excess(s) \in Int /\ Excess(Drop(s, SourceLen(s, 1))) \in Int
           /\ Excess(s) = Excess(Drop(s, SourceLen(s, 1))) + (IF Masked(s) THEN 1 ELSE 0)
<1> DEFINE w == SourceLen(s, 1)
           N == Len(s)
           r == Drop(s, w)
           c == SubSeq(s, 1, w)
           C(k) == CountOf(NulEscape, Drop(s, k))
           Z(q) == CountOf(<<NulEscape>>, Compiled(q))
           Nul(k) == k + 4 <= N /\ SubSeq(s, k + 1, k + 4) = NulEscape
<1>1. N \in Nat /\ N # 0 /\ 1 \in 1..N /\ s \in Seq(Range(Chars))
    <2>1. N \in Nat /\ N # 0 /\ s \in Seq(Range(Chars))
        BY EmptySeq, CodesOf DEF Texts
    <2> HIDE DEF N
    <2>2. QED
        BY <2>1
<1>2. \A k \in 0..(N - 1) : C(k) = IF Nul(k) THEN 1 + C(k + 4) ELSE C(k + 1)
    <2> SUFFICES ASSUME NEW k \in 0..(N - 1)
                 PROVE  C(k) = IF Nul(k) THEN 1 + C(k + 4) ELSE C(k + 1)
        OBVIOUS
    <2> DEFINE p == NulEscape
    <2>1. p \in Seq(Range(Chars)) /\ Len(p) = 4 /\ p # <<>>
        BY Patterns DEF Texts
    <2> HIDE DEF p
    <2>2. CountOf(p, Drop(s, k)) = IF k + Len(p) <= Len(s) /\ SubSeq(s, k + 1, k + Len(p)) = p
                                   THEN 1 + CountOf(p, Drop(s, k + Len(p))) ELSE CountOf(p, Drop(s, k + 1))
        BY <1>1, <2>1, CountAt
    <2>3. QED
        BY <2>1, <2>2 DEF p
<1>3. \A k \in 0..N : C(k) \in Nat
    <2> DEFINE p == NulEscape
    <2>1. p \in Seq(Range(Chars)) /\ p # <<>>
        BY Patterns DEF Texts
    <2> HIDE DEF p
    <2>2. \A k \in 0..N : CountOf(p, Drop(s, k)) \in Nat
        BY <1>1, <2>1, CountAt
    <2>3. QED
        BY <2>2 DEF p
<1>4. \A k \in Nat : Nul(k) => /\ k + 4 <= N
                               /\ s[k + 1] = Backslash /\ s[k + 2] = "0" /\ s[k + 3] = "0" /\ s[k + 4] = "0"
    BY Patterns
<1>5. w \in 1..4 /\ w <= N /\ r \in Texts /\ Compiled(s) = <<c>> \o Compiled(r)
    BY CompiledStep
<1>6. c \in Texts /\ Len(c) = w
    <2> HIDE DEF w
    <2>1. w \in Int /\ 1 \in Int /\ \A i \in 1..w : i \in 1..Len(s)
        BY <1>1, <1>5
    <2>2. \A i \in 1..w : s[i] \in Range(Chars)
        BY <2>1, CodesOf
    <2>3. SubSeq(s, 1, w) \in Seq(Range(Chars)) /\ Len(SubSeq(s, 1, w)) = IF 1 <= w THEN w - 1 + 1 ELSE 0
        BY <2>1, <2>2, SubSeqProperties
    <2>4. QED
        BY <1>5, <2>3 DEF Texts
<1>7. Z(s) = (IF c = NulEscape THEN 1 ELSE 0) + Z(r) /\ Z(r) \in Nat
    <2> HIDE DEF c, r
    <2>1. Compiled(r) \in Seq(Texts)
        BY <1>5, CompiledStep
    <2>2. QED
        BY <1>5, <1>6, <2>1, Patterns, CountFirst
<1>8. C(0) = CountOf(NulEscape, s) /\ C(w) = CountOf(NulEscape, r) /\ C(0) \in Nat /\ C(w) \in Nat
    <2>1. Drop(s, 0) = s
        BY <1>1, DropIs
    <2>2. 0 \in 0..N /\ w \in 0..N
        BY <1>1, <1>5
    <2>3. QED
        BY <1>3, <2>1, <2>2
<1>9. Nul(0) <=> w = 4
    <2>1. 0 + 4 = 4 /\ 0 + 1 = 1 /\ 1 + 3 = 4
        OBVIOUS
    <2>2. CASE s[1] # Backslash \/ 1 = N
        <3>1. w = 1
            BY <2>2 DEF SourceLen
        <3>2. ~ Nul(0)
            <4>1. Nul(0) => 0 + 4 <= N /\ s[0 + 1] = Backslash
                BY <1>4
            <4> HIDE DEF Nul
            <4>2. Nul(0) => 4 <= N /\ s[1] = Backslash
                BY <2>1, <4>1
            <4>3. ~ (4 <= 1)
                OBVIOUS
            <4>4. QED
                BY <2>2, <4>2, <4>3
        <3>3. QED
            BY <3>1, <3>2
    <2>3. CASE ~ (s[1] # Backslash \/ 1 = N)
        <3>1. w = IF 1 + 3 <= N /\ SubSeq(s, 1, 1 + 3) = NulEscape THEN 4 ELSE 2
            BY <2>3 DEF SourceLen
        <3>2. Nul(0) <=> 4 <= N /\ SubSeq(s, 1, 4) = NulEscape
            BY <2>1
        <3>3. w = IF 4 <= N /\ SubSeq(s, 1, 4) = NulEscape THEN 4 ELSE 2
            BY <2>1, <3>1
        <3>4. QED
            BY <3>2, <3>3
    <2>4. QED
        BY <2>2, <2>3
<1>10. c = NulEscape <=> w = 4
    <2>1. w = 4 => c = NulEscape
        <3>1. w = 4 => SubSeq(s, 0 + 1, 0 + 4) = NulEscape
            BY <1>9
        <3> HIDE DEF w
        <3>2. w = 4 => SubSeq(s, 1, w) = NulEscape
            BY <3>1
        <3>3. QED
            BY <3>2
    <2> HIDE DEF c, w
    <2>2. c = NulEscape => w = 4
        BY <1>6, Patterns
    <2>3. QED
        BY <2>1, <2>2
<1>11. Masked(s) <=> w = 2 /\ Nul(1)
    BY DEF Masked
<1>12. w \in {1, 2, 4}
    BY DEF SourceLen
<1>13. C(0) = C(w) + (IF w = 4 THEN 1 ELSE 0) + (IF w = 2 /\ Nul(1) THEN 1 ELSE 0)
    <2>1. 0 \in 0..(N - 1) /\ 0 + 4 = 4 /\ 0 + 1 = 1
        BY <1>1
    <2>2. C(0) = IF w = 4 THEN 1 + C(4) ELSE C(1)
        BY <1>2, <1>9, <2>1
    <2>3. CASE w = 1
        BY <1>8, <2>2, <2>3
    <2>4. CASE w = 4
        BY <1>8, <2>2, <2>4
    <2>5. CASE w = 2
        <3>1. 1 \in 0..(N - 1)
            BY <1>1, <1>5, <2>5
        <3>2. C(1) = IF Nul(1) THEN 1 + C(5) ELSE C(2)
            <4>1. 1 + 4 = 5 /\ 1 + 1 = 2
                OBVIOUS
            <4>2. QED
                BY <1>2, <3>1, <4>1
        <3>3. CASE ~ Nul(1)
            BY <1>8, <2>2, <2>5, <3>2, <3>3
        <3>4. CASE Nul(1)
            <4>1. 5 <= N /\ s[3] = "0" /\ s[4] = "0" /\ s[5] = "0"
                <5>1. 1 + 4 <= N /\ s[1 + 2] = "0" /\ s[1 + 3] = "0" /\ s[1 + 4] = "0"
                    BY <1>4, <3>4
                <5>2. 1 + 2 = 3 /\ 1 + 3 = 4 /\ 1 + 4 = 5
                    OBVIOUS
                <5>3. QED
                    BY <5>1, <5>2
            <4>2. "0" # Backslash
                BY DEF Backslash
            <4>3. ~ Nul(2) /\ ~ Nul(3) /\ ~ Nul(4)
                <5>1. /\ Nul(2) => s[2 + 1] = Backslash
                      /\ Nul(3) => s[3 + 1] = Backslash
                      /\ Nul(4) => s[4 + 1] = Backslash
                    BY <1>4
                <5>2. 2 + 1 = 3 /\ 3 + 1 = 4 /\ 4 + 1 = 5
                    OBVIOUS
                <5> HIDE DEF Nul
                <5>3. QED
                    BY <4>1, <4>2, <5>1, <5>2
            <4>4. 2 \in 0..(N - 1) /\ 3 \in 0..(N - 1) /\ 4 \in 0..(N - 1)
                BY <1>1, <4>1
            <4>5. C(2) = C(3) /\ C(3) = C(4) /\ C(4) = C(5)
                <5> HIDE DEF Nul, C
                <5>1. C(2) = C(2 + 1) /\ C(3) = C(3 + 1) /\ C(4) = C(4 + 1)
                    BY <1>2, <4>3, <4>4
                <5>2. 2 + 1 = 3 /\ 3 + 1 = 4 /\ 4 + 1 = 5
                    OBVIOUS
                <5>3. QED
                    BY <5>1, <5>2
            <4>6. QED
                BY <1>8, <2>2, <2>5, <3>2, <3>4, <4>5
        <3>5. QED
            BY <3>3, <3>4
    <2>6. QED
        BY <1>12, <2>3, <2>4, <2>5
<1>14. QED
    <2>1. PICK x \in {0, 1} : x = IF w = 4 THEN 1 ELSE 0
        OBVIOUS
    <2>2. PICK y \in {0, 1} : y = IF Masked(s) THEN 1 ELSE 0
        OBVIOUS
    <2>3. CountOf(NulEscape, s) = CountOf(NulEscape, r) + x + y /\ Z(s) = x + Z(r)
          /\ CountOf(NulEscape, r) \in Nat /\ Z(r) \in Nat
        BY <1>7, <1>8, <1>10, <1>11, <1>13, <2>1, <2>2
    <2>4. Excess(s) = CountOf(NulEscape, s) - Z(s) /\ Excess(r) = CountOf(NulEscape, r) - Z(r)
        BY DEF Excess
    <2> DEFINE a == CountOf(NulEscape, s)
               b == CountOf(NulEscape, r)
               f == Z(s)
               g == Z(r)
    <2>5. a = b + x + y /\ f = x + g /\ b \in Nat /\ g \in Nat /\ Excess(s) = a - f /\ Excess(r) = b - g
        BY <2>3, <2>4
    <2> HIDE DEF a, b, f, g, r
    <2>6. Excess(s) = Excess(r) + y /\ Excess(s) \in Int /\ Excess(r) \in Int
        BY <2>5
    <2>7. QED
        BY <2>2, <2>6 DEF r

LEMMA ExcessIsNat ==
    /\ Excess(<<>>) = 0
    /\ \A s \in Texts : Excess(s) \in Nat
<1> DEFINE Good == {n \in Nat : \A s \in Texts : Len(s) = n => Excess(s) \in Nat}
<1>1. Excess(<<>>) = 0
    <2> DEFINE p == NulEscape
               q == <<NulEscape>>
    <2>1. p \in Seq(Range(Chars)) /\ p # <<>> /\ q \in Seq(Texts) /\ q # <<>>
          /\ <<>> \in Seq(Range(Chars)) /\ <<>> \in Seq(Texts) /\ Compiled(<<>>) = <<>>
        <3>1. Compiled(<<>>) = <<>>
            BY TextParts, CompiledStep
        <3>2. q \in Seq(Texts) /\ q # <<>>
            BY Patterns
        <3>3. p \in Seq(Range(Chars)) /\ p # <<>>
            BY Patterns DEF Texts
        <3>4. <<>> \in Seq(Range(Chars)) /\ <<>> \in Seq(Texts)
            BY EmptySeq
        <3>5. QED
            BY <3>1, <3>2, <3>3, <3>4
    <2> HIDE DEF p, q
    <2>2. CountOf(p, <<>>) = 0
        BY <2>1, CountAt
    <2>3. CountOf(q, <<>>) = 0
        BY <2>1, CountAt
    <2>4. QED
        BY <2>1, <2>2, <2>3 DEF Excess, p, q
<1>2. ASSUME NEW n \in Nat, \A m \in 0..(n - 1) : m \in Good
      PROVE  n \in Good
    <2> SUFFICES ASSUME NEW s \in Texts, Len(s) = n
                 PROVE  Excess(s) \in Nat
        OBVIOUS
    <2>1. CASE s = <<>>
        BY <1>1, <2>1
    <2>2. CASE s # <<>>
        <3> DEFINE w == SourceLen(s, 1)
                   r == Drop(s, w)
        <3>1. w \in 1..4 /\ w <= Len(s) /\ r \in Texts
            BY <2>2, CompiledStep
        <3>2. Excess(r) \in Int /\ (Excess(s) = Excess(r) \/ Excess(s) = Excess(r) + 1)
            BY <2>2, ExcessStep
        <3> HIDE DEF w
        <3>3. n - w \in 0..(n - 1) /\ w \in 0..Len(s)
            BY <3>1
        <3>4. Len(r) = n - w
            BY <3>3, DropIs DEF Texts
        <3> HIDE DEF r
        <3>5. Excess(r) \in Nat
            BY <1>2, <3>1, <3>3, <3>4
        <3>6. QED
            BY <3>2, <3>5
    <2>3. QED
        BY <2>1, <2>2
<1> HIDE DEF Good
<1>3. \A n \in Nat : n \in Good
    BY <1>2, Induction
<1>4. \A s \in Texts : Len(s) \in Good
    BY <1>3, CodesOf
<1>5. QED
    BY <1>1, <1>4 DEF Good

\* What is counted in two sources behind each other.
LEMMA ExcessConcat ==
    ASSUME NEW t \in Texts
    PROVE  \A s \in Texts : Closed(s) => Excess(s \o t) = Excess(s) + Excess(t)
<1> DEFINE Good == {n \in Nat : \A s \in Texts :
                        Len(s) = n /\ Closed(s) => Excess(s \o t) = Excess(s) + Excess(t)}
<1>1. ASSUME NEW n \in Nat, \A m \in 0..(n - 1) : m \in Good
      PROVE  n \in Good
    <2> SUFFICES ASSUME NEW s \in Texts, Len(s) = n, Closed(s)
                 PROVE  Excess(s \o t) = Excess(s) + Excess(t)
        OBVIOUS
    <2>1. CASE s = <<>>
        <3>1. s \o t = t
            BY <2>1, ConcatEmptySeq DEF Texts
        <3>2. Excess(s) = 0 /\ Excess(t) \in Nat
            BY <2>1, ExcessIsNat
        <3>3. QED
            BY <3>1, <3>2
    <2>2. CASE s # <<>>
        <3> DEFINE u == s \o t
                   w == SourceLen(s, 1)
                   r == Drop(s, w)
        <3>1. /\ w \in 1..4 /\ w <= Len(s) /\ r \in Texts /\ Len(r) = Len(s) - w /\ Closed(r)
              /\ u \in Texts /\ u # <<>> /\ Len(u) = Len(s) + Len(t) /\ \A i \in 1..Len(s) : u[i] = s[i]
              /\ SourceLen(u, 1) = w /\ Drop(u, w) = r \o t
            BY <2>2, FirstOfConcat
        <3>2. Excess(s) = Excess(r) + (IF Masked(s) THEN 1 ELSE 0)
            BY <2>2, ExcessStep
        <3>3. Excess(u) = Excess(r \o t) + (IF Masked(u) THEN 1 ELSE 0)
            <4>1. Excess(u) = Excess(Drop(u, SourceLen(u, 1))) + (IF Masked(u) THEN 1 ELSE 0)
                BY <3>1, ExcessStep
            <4>2. QED
                BY <3>1, <4>1
        <3>4. Masked(u) <=> Masked(s)
            <4>1. Len(s) \in Nat /\ Len(t) \in Nat
                BY CodesOf
            <4>2. CASE w # 2
                BY <3>1, <4>2 DEF Masked
            <4>3. CASE w = 2
                <5>1. s[1] = Backslash
                    BY <4>3 DEF SourceLen
                <5>2. 1 + 3 <= Len(s)
                    <6>1. 1 \in 1..Len(s)
                        BY <3>1, <4>1
                    <6>2. QED
                        BY <5>1, <6>1 DEF Closed
                <5>3. CASE s[2] = Backslash
                    <6>1. 2 \in 1..Len(s)
                        BY <4>1, <5>2
                    <6>2. 2 + 3 <= Len(s)
                        BY <5>3, <6>1 DEF Closed
                    <6>3. SubSeq(u, 2, 5) = SubSeq(s, 2, 5) /\ 5 <= Len(s) /\ 5 <= Len(u)
                        <7>1. 2 \in 1..Len(s) /\ 5 \in 2..Len(s) /\ 2 <= 5 /\ 5 <= Len(s)
                            BY <4>1, <6>2
                        <7>2. 5 <= Len(u)
                            BY <3>1, <4>1, <7>1
                        <7>3. \A i \in 2..5 : i \in 1..Len(s)
                            BY <4>1, <7>1
                        <7>4. \A i \in 2..5 : u[1 + (i - 1)] = s[1 + (i - 1)]
                            BY <3>1, <7>3
                        <7>5. u \in Seq(Range(Chars)) /\ s \in Seq(Range(Chars))
                            BY <3>1 DEF Texts
                        <7> HIDE DEF u
                        <7>6. \A i \in 2..5 : u[0 + i] = s[i] /\ 0 + i = i
                            BY <3>1, <7>3
                        <7>7. SubSeq(u, 0 + 2, 0 + 5) = SubSeq(s, 2, 5)
                            BY <7>1, <7>2, <7>5, <7>6, SameParts
                        <7>8. 0 + 2 = 2 /\ 0 + 5 = 5
                            OBVIOUS
                        <7>9. QED
                            BY <7>1, <7>2, <7>7, <7>8
                    <6>4. QED
                        BY <3>1, <6>3 DEF Masked
                <5>4. CASE s[2] # Backslash
                    <6>1. u[2] = s[2]
                        BY <3>1, <4>1, <5>2
                    <6>2. \A v \in Texts : 5 <= Len(v) /\ SubSeq(v, 2, 5) = NulEscape => v[2] = Backslash
                        <7>1. 1 + 4 = 5 /\ 1 + 1 = 2 /\ 1 \in Nat
                            OBVIOUS
                        <7>2. \A v \in Texts : 1 + 4 <= Len(v) /\ SubSeq(v, 1 + 1, 1 + 4) = NulEscape => v[1 + 1] = Backslash
                            BY Patterns
                        <7>3. QED
                            BY <7>1, <7>2
                    <6>3. ~ Masked(s) /\ ~ Masked(u)
                        BY <3>1, <5>4, <6>1, <6>2 DEF Masked
                    <6>4. QED
                        BY <6>3
                <5>5. QED
                    BY <5>3, <5>4
            <4>4. QED
                BY <4>2, <4>3
        <3> HIDE DEF u, w, r
        <3>5. Len(s) - w \in 0..(n - 1)
            BY <3>1
        <3>6. Excess(r \o t) = Excess(r) + Excess(t)
            BY <1>1, <3>1, <3>5
        <3>7. Excess(r) \in Nat /\ Excess(t) \in Nat
            BY <3>1, ExcessIsNat
        <3>8. PICK x \in {0, 1} : x = IF Masked(s) THEN 1 ELSE 0
            OBVIOUS
        <3>9. Excess(s) = Excess(r) + x /\ Excess(u) = Excess(r) + Excess(t) + x
            BY <3>2, <3>3, <3>4, <3>6, <3>8
        <3>10. Excess(u) = Excess(s) + Excess(t)
            BY <3>7, <3>8, <3>9
        <3>11. QED
            BY <3>10 DEF u
    <2>3. QED
        BY <2>1, <2>2
<1> HIDE DEF Good
<1>2. \A n \in Nat : n \in Good
    BY <1>1, Induction
<1>3. \A s \in Texts : Len(s) \in Good
    BY <1>2, CodesOf
<1>4. QED
    BY <1>3 DEF Good

\* A \000 behind a source is the last character that is compiled, if it is not masked.
LEMMA NulIsLast ==
    \A x \in Texts : Excess(x \o NulEscape) = 0 => Compiled(x \o NulEscape) = Compiled(x) \o <<NulEscape>>
<1> DEFINE Good == {n \in Nat : \A x \in Texts :
                        Len(x) = n /\ Excess(x \o NulEscape) = 0
                            => Compiled(x \o NulEscape) = Compiled(x) \o <<NulEscape>>}
           nul == NulEscape
<1>1. nul \in Texts /\ Len(nul) = 4 /\ nul # <<>> /\ nul[1] = Backslash /\ nul[2] = "0" /\ nul[3] = "0" /\ nul[4] = "0"
    BY Patterns DEF NulEscape
<1>2. Compiled(nul) = <<nul>>
    <2>1. SubSeq(nul, 1, 4) = nul
        BY <1>1, SubSeqFull DEF Texts
    <2>2. SourceLen(nul, 1) = 4
        <3> HIDE DEF nul
        <3>1. 1 + 3 = 4 /\ 1 # 4
            OBVIOUS
        <3>2. SubSeq(nul, 1, 1 + 3) = NulEscape
            BY <2>1, <3>1 DEF nul
        <3>3. QED
            BY <1>1, <3>1, <3>2 DEF SourceLen
    <2>3. Drop(nul, 4) = <<>>
        <3> HIDE DEF nul
        <3>1. 4 \in 0..Len(nul)
            BY <1>1
        <3>2. Drop(nul, Len(nul)) = <<>>
            BY <1>1, <3>1, DropIs DEF Texts
        <3>3. QED
            BY <1>1, <3>2
    <2>4. Compiled(<<>>) = <<>>
        BY TextParts, CompiledStep
    <2> HIDE DEF nul
    <2>5. Compiled(nul) = <<SubSeq(nul, 1, 4)>> \o Compiled(<<>>)
        BY <1>1, <2>2, <2>3, CompiledStep
    <2>6. <<nul>> \in Seq(Texts) /\ <<nul>> \o <<>> = <<nul>>
        BY <1>1, ConcatEmptySeq
    <2>7. QED
        BY <2>1, <2>4, <2>5, <2>6
<1>3. ASSUME NEW n \in Nat, \A m \in 0..(n - 1) : m \in Good
      PROVE  n \in Good
    <2> SUFFICES ASSUME NEW x \in Texts, Len(x) = n, Excess(x \o nul) = 0
                 PROVE  Compiled(x \o nul) = Compiled(x) \o <<nul>>
        OBVIOUS
    <2> HIDE DEF nul
    <2>1. CASE x = <<>>
        <3>1. x \o nul = nul
            BY <1>1, <2>1, ConcatEmptySeq DEF Texts
        <3>2. Compiled(x) = <<>>
            BY <2>1, CompiledStep
        <3>3. QED
            BY <1>1, <1>2, <3>1, <3>2
    <2>2. CASE x # <<>>
        <3> DEFINE s == x \o nul
                   w == SourceLen(s, 1)
                   r == Drop(x, w)
        <3>1. n # 0 /\ s \in Texts /\ Len(s) = n + 4 /\ s # <<>>
              /\ (\A i \in 1..n : s[i] = x[i]) /\ s[n + 1] = Backslash
              /\ s[n + 2] = "0" /\ s[n + 3] = "0" /\ s[n + 4] = "0"
            <4>1. s \in Texts /\ Len(s) = n + 4
                  /\ \A i \in 1..(n + 4) : s[i] = IF i <= n THEN x[i] ELSE nul[i - n]
                <5>1. s \in Seq(Range(Chars)) /\ Len(s) = Len(x) + Len(nul)
                      /\ \A i \in 1..(Len(x) + Len(nul)) : s[i] = IF i <= Len(x) THEN x[i] ELSE nul[i - Len(x)]
                    BY <1>1, ConcatProperties DEF Texts
                <5> HIDE DEF s
                <5>2. QED
                    BY <1>1, <5>1 DEF Texts
            <4>2. n # 0
                BY <2>2, EmptySeq DEF Texts
            <4> HIDE DEF s
            <4>3. s # <<>>
                BY <4>1
            <4>4. \A i \in 1..n : s[i] = x[i]
                BY <4>1
            <4>5. s[n + 1] = nul[1] /\ s[n + 2] = nul[2] /\ s[n + 3] = nul[3] /\ s[n + 4] = nul[4]
                <5>1. ASSUME NEW j \in 1..4
                      PROVE  s[n + j] = nul[j]
                    <6>1. n + j \in 1..(n + 4) /\ ~ (n + j <= n) /\ (n + j) - n = j
                        OBVIOUS
                    <6>2. s[n + j] = nul[(n + j) - n]
                        BY <4>1, <6>1
                    <6>3. QED
                        BY <6>1, <6>2
                <5>2. 1 \in 1..4 /\ 2 \in 1..4 /\ 3 \in 1..4 /\ 4 \in 1..4
                    OBVIOUS
                <5>3. QED
                    BY <5>1, <5>2
            <4>6. QED
                BY <1>1, <4>1, <4>2, <4>3, <4>4, <4>5
        <3>2. w \in 1..4 /\ w <= Len(s) /\ Compiled(s) = <<SubSeq(s, 1, w)>> \o Compiled(Drop(s, w))
            BY <3>1, CompiledStep
        <3>3. ~ Masked(s) /\ Excess(Drop(s, w)) = 0
            <4>1. Excess(s) = 0
                OBVIOUS
            <4>2. Excess(s) = Excess(Drop(s, w)) + (IF Masked(s) THEN 1 ELSE 0)
                BY <3>1, ExcessStep
            <4>3. Drop(s, w) \in Texts
                BY <3>1, CompiledStep
            <4>4. Excess(Drop(s, w)) \in Nat
                BY <4>3, ExcessIsNat
            <4>5. QED
                BY <4>1, <4>2, <4>4
        <3>4. \A v \in Texts : 4 <= Len(v) =>
                (SubSeq(v, 1, 4) = nul <=> v[1] = Backslash /\ v[2] = "0" /\ v[3] = "0" /\ v[4] = "0")
            <4>1. PICK k \in Nat : k + 4 = 4 /\ k + 1 = 1 /\ k + 2 = 2 /\ k + 3 = 3
                <5>1. 0 \in Nat /\ 0 + 4 = 4 /\ 0 + 1 = 1 /\ 0 + 2 = 2 /\ 0 + 3 = 3
                    OBVIOUS
                <5>2. QED
                    BY <5>1
            <4>2. \A v \in Texts : k + 4 <= Len(v) =>
                    (SubSeq(v, k + 1, k + 4) = nul
                        <=> v[k + 1] = Backslash /\ v[k + 2] = "0" /\ v[k + 3] = "0" /\ v[k + 4] = "0")
                BY Patterns DEF nul
            <4>3. QED
                BY <4>1, <4>2
        <3>5. \A v \in Texts : v # <<>> /\ v[1] = Backslash /\ Len(v) # 1 =>
                SourceLen(v, 1) = IF 4 <= Len(v) /\ SubSeq(v, 1, 4) = nul THEN 4 ELSE 2
            <4>1. 1 + 3 = 4
                OBVIOUS
            <4>2. QED
                BY <4>1 DEF SourceLen, nul
        <3>6. "0" # Backslash
            BY DEF Backslash
        <3> HIDE DEF s
        <3>7. w = SourceLen(x, 1) /\ w <= n
            <4>1. CASE x[1] # Backslash
                <5>1. s[1] # Backslash
                    BY <3>1, <4>1
                <5>2. QED
                    BY <3>1, <4>1, <5>1 DEF SourceLen
            <4>2. CASE x[1] = Backslash /\ n = 1
                <5>1. s[1] = Backslash /\ s[2] = Backslash /\ s[3] = "0" /\ s[4] = "0" /\ s[5] = "0" /\ Len(s) = 5
                    <6>1. 1 + 1 = 2 /\ 1 + 2 = 3 /\ 1 + 3 = 4 /\ 1 + 4 = 5 /\ 1 \in 1..1
                        OBVIOUS
                    <6>2. QED
                        BY <3>1, <4>2, <6>1
                <5>2. w = 2
                    BY <3>1, <3>4, <3>5, <3>6, <5>1
                <5>3. SubSeq(s, 2, 5) = NulEscape
                    <6>1. 1 + 4 = 5 /\ 1 + 1 = 2 /\ 1 + 2 = 3 /\ 1 + 3 = 4 /\ 1 \in Nat
                        OBVIOUS
                    <6>2. SubSeq(s, 1 + 1, 1 + 4) = NulEscape
                        BY <3>1, <5>1, <6>1, Patterns
                    <6>3. QED
                        BY <6>1, <6>2
                <5>4. Masked(s)
                    BY <5>1, <5>2, <5>3 DEF Masked
                <5>5. QED
                    BY <3>3, <5>4
            <4>3. CASE x[1] = Backslash /\ n # 1
                <5>1. s[1] = Backslash /\ Len(s) # 1 /\ 2 <= n
                    BY <3>1, <4>3
                <5>2. CASE 4 <= n
                    <6>1. SubSeq(s, 1, 4) = nul <=> SubSeq(x, 1, 4) = nul
                        BY <3>1, <3>4, <5>2
                    <6>2. SourceLen(s, 1) = IF 4 <= Len(s) /\ SubSeq(s, 1, 4) = nul THEN 4 ELSE 2
                        BY <3>1, <3>5, <5>1
                    <6>3. SourceLen(x, 1) = IF 4 <= Len(x) /\ SubSeq(x, 1, 4) = nul THEN 4 ELSE 2
                        BY <2>2, <3>5, <4>3
                    <6>4. 4 <= Len(s) /\ 4 <= Len(x)
                        BY <3>1, <5>2
                    <6>5. w = SourceLen(x, 1) /\ (w = 2 \/ w = 4)
                        BY <6>1, <6>2, <6>3, <6>4
                    <6> HIDE DEF w
                    <6>6. w <= n
                        BY <5>2, <6>5
                    <6>7. QED
                        BY <6>5, <6>6
                <5>3. CASE n < 4
                    <6>1. SubSeq(s, 1, 4) # nul
                        <7>1. n + 1 = 3 \/ n + 1 = 4
                            BY <5>1, <5>3
                        <7>2. s[3] = Backslash \/ s[4] = Backslash
                            BY <3>1, <7>1
                        <7>3. QED
                            BY <3>1, <3>4, <3>6, <7>2
                    <6>2. SourceLen(s, 1) = IF 4 <= Len(s) /\ SubSeq(s, 1, 4) = nul THEN 4 ELSE 2
                        BY <3>1, <3>5, <5>1
                    <6>3. SourceLen(x, 1) = IF 4 <= Len(x) /\ SubSeq(x, 1, 4) = nul THEN 4 ELSE 2
                        BY <2>2, <3>5, <4>3
                    <6>4. ~ (4 <= Len(x))
                        BY <5>3
                    <6>5. w = 2 /\ w = SourceLen(x, 1)
                        BY <6>1, <6>2, <6>3, <6>4
                    <6> HIDE DEF w
                    <6>6. w <= n
                        BY <5>1, <6>5
                    <6>7. QED
                        BY <6>5, <6>6
                <5>4. QED
                    BY <5>2, <5>3
            <4>4. QED
                BY <4>1, <4>2, <4>3
        <3>8. r \in Texts /\ Compiled(x) = <<SubSeq(x, 1, w)>> \o Compiled(r)
            <4>1. Drop(x, SourceLen(x, 1)) \in Texts
                  /\ Compiled(x) = <<SubSeq(x, 1, SourceLen(x, 1))>> \o Compiled(Drop(x, SourceLen(x, 1)))
                BY <2>2, CompiledStep
            <4>2. QED
                BY <3>7, <4>1
        <3> HIDE DEF w
        <3>9. w \in 1..n /\ w \in 0..n /\ n - w \in 0..(n - 1)
            <4>1. w \in Int /\ 1 <= w /\ w <= n /\ n \in Nat
                BY <3>2, <3>7
            <4>2. QED
                BY <4>1
        <3>10. Len(r) = n - w
            BY <3>9, DropIs DEF Texts
        <3>11. Drop(s, w) = r \o nul
            BY <1>1, <3>9, DropConcat DEF s, r, Texts
        <3>12. SubSeq(s, 1, w) = SubSeq(x, 1, w)
            BY <1>1, <3>9, SubSeqOfConcat1 DEF s, Texts
        <3> HIDE DEF r
        <3>13. Compiled(r \o nul) = Compiled(r) \o <<nul>>
            <4>1. n - w \in Good /\ Excess(r \o nul) = 0
                BY <1>3, <3>3, <3>9, <3>11
            <4>2. QED
                BY <3>8, <3>10, <4>1 DEF nul
        <3> DEFINE a == <<SubSeq(x, 1, w)>>
                   b == Compiled(r)
                   c == <<nul>>
        <3>14. a \in Seq(Texts) /\ b \in Seq(Texts) /\ c \in Seq(Texts)
            <4>1. x \in Seq(Range(Chars)) /\ w \in Int /\ \A i \in 1..w : x[i] \in Range(Chars)
                BY <3>9 DEF Texts
            <4>2. SubSeq(x, 1, w) \in Texts
                BY <4>1, SubSeqProperties DEF Texts
            <4>3. a \in Seq(Texts) /\ c \in Seq(Texts)
                BY <1>1, <4>2
            <4>4. b \in Seq(Texts)
                BY <3>8, CompiledStep
            <4>5. QED
                BY <4>3, <4>4
        <3>15. Compiled(s) = a \o (b \o c) /\ Compiled(x) = a \o b
            BY <3>2, <3>8, <3>11, <3>12, <3>13
        <3> HIDE DEF a, b, c
        <3>16. Compiled(s) = Compiled(x) \o c
            <4>1. \A u, v, z \in Seq(Texts) : (u \o v) \o z = u \o (v \o z)
                BY ConcatAssociative
            <4>2. (a \o b) \o c = a \o (b \o c)
                BY <3>14, <4>1
            <4>3. QED
                BY <3>15, <4>2
        <3>17. QED
            BY <3>16 DEF s, c
    <2>3. QED
        BY <2>1, <2>2
<1> HIDE DEF Good
<1>4. \A n \in Nat : n \in Good
    BY <1>3, Induction
<1>5. \A x \in Texts : Len(x) \in Good
    BY <1>4, CodesOf
<1>6. QED
    BY <1>5 DEF Good
-----------------------------------------------------------------------------
(* What decompress finds. *)

\* What is between two numbers, from the upper one down.
LEMMA InductionDown ==
    ASSUME NEW N \in Nat, NEW Good, N \in Good, \A n \in 1..N : n \in Good => n - 1 \in Good
    PROVE  \A n \in 0..N : n \in Good
<1> DEFINE Below == {k \in Nat : k <= N => N - k \in Good}
<1>1. ASSUME NEW k \in Nat, \A j \in 0..(k - 1) : j \in Below
      PROVE  k \in Below
    <2>1. CASE k = 0
        <3>1. N - k = N
            BY <2>1
        <3>2. QED
            BY <3>1
    <2>2. CASE k # 0 /\ k <= N
        <3> DEFINE n == N - (k - 1)
        <3>1. k - 1 \in 0..(k - 1) /\ k - 1 <= N /\ n \in 1..N /\ n - 1 = N - k
            BY <2>2
        <3>2. n \in Good
            BY <1>1, <3>1
        <3> HIDE DEF n
        <3>3. QED
            BY <3>1, <3>2
    <2>3. QED
        BY <2>1, <2>2
<1> HIDE DEF Below
<1>2. \A k \in Nat : k \in Below
    BY <1>1, Induction
<1>3. ASSUME NEW n \in 0..N
      PROVE  n \in Good
    <2>1. N - n \in Nat /\ N - n <= N /\ N - (N - n) = n
        OBVIOUS
    <2>2. QED
        BY <1>2, <2>1 DEF Below
<1>4. QED
    BY <1>3

\* Nothing is masked where no backslash is in front of a \000.
LEMMA NoExcess ==
    ASSUME NEW s \in Texts, ~ LooksLikeNul(s)
    PROVE  Excess(s) = 0
<1> DEFINE p == NulEscape
           a == CountOf(p, s)
<1>1. p \in Seq(Range(Chars)) /\ p # <<>> /\ s \in Seq(Range(Chars))
    BY Patterns DEF Texts
<1> HIDE DEF p
<1>2. a \in Nat
    BY <1>1, CountAt
<1>3. a = CountOf(<<NulEscape>>, Compiled(s))
    BY DEF LooksLikeNul, p
<1>4. Excess(s) = a - a
    BY <1>3 DEF Excess, p
<1> HIDE DEF a
<1>5. QED
    BY <1>2, <1>4

\* first[n] is the source of the first n fields of an entry, where no \000 is masked.
Rows(e, metric, first) ==
    /\ first \in [0..Len(Attributes(metric)) -> Texts]
    /\ first[0] = <<>> /\ first[Len(Attributes(metric))] = build_c_string(e, metric)
    /\ \A n \in 1..Len(Attributes(metric)) :
            /\ Closed(first[n - 1])
            /\ first[n] = first[n - 1] \o Field(e, Attributes(metric)[n], metric)
            /\ Excess(Field(e, Attributes(metric)[n], metric)) = 0

LEMMA RowsOfEntry ==
    ASSUME NEW e \in Entries, NEW metric \in BOOLEAN, ~ LooksLikeNul(build_c_string(e, metric))
    PROVE  \E first : Rows(e, metric, first)
<1> DEFINE N == Len(Attributes(metric))
           Piece(n) == Field(e, Attributes(metric)[n], metric)
           S == {s \in Texts : Closed(s)}
           back == [n \in 1..N |-> n - 1]
<1>1. N \in Nat /\ N \in 0..N /\ 0 \in 0..N
    BY EntryParts
<1>2. \A n \in 1..N : Piece(n) \in S
    BY FieldClosed
<1>3. PICK first \in [0..N -> Texts] : /\ build_c_string(e, metric) = first[N]
                                       /\ first[0] = <<>>
                                       /\ \A n \in 1..N : first[n] = first[n - 1] \o Piece(n)
    BY BuildIs
<1> HIDE DEF N, Piece
<1>4. \A s, t \in S : s \o t \in S
    BY ClosedConcat
<1>5. <<>> \in S
    <2>1. <<>> \in Texts /\ Len(<<>>) = 0
        BY TextParts
    <2>2. QED
        BY <2>1 DEF Closed
<1>6. \A s \in S : \A t \in Texts : Excess(s \o t) = Excess(s) + Excess(t) /\ Excess(s) \in Nat /\ Excess(t) \in Nat
    BY ExcessConcat, ExcessIsNat
<1> HIDE DEF S
<1>7. back \in Earlier(N) /\ \A n \in 1..N : back[n] = n - 1 /\ n \in 0..N /\ n - 1 \in 0..N
    BY <1>1 DEF Earlier
<1>8. first[0] \in S /\ \A n \in 1..N : first[back[n]] \in S => first[n] \in S
    BY <1>2, <1>3, <1>4, <1>5, <1>7
<1> HIDE DEF back
<1>9. \A n \in 0..N : first[n] \in S
    BY <1>1, <1>7, <1>8, RecursionStays
<1>10. \A s \in S : s \in Texts
    BY DEF S
<1>11. \A n \in 1..N : Excess(first[n]) = Excess(first[n - 1]) + Excess(Piece(n))
                       /\ Excess(first[n - 1]) \in Nat /\ Excess(Piece(n)) \in Nat
    BY <1>2, <1>3, <1>6, <1>7, <1>9, <1>10
<1> DEFINE None == {n \in Nat : Excess(first[n]) = 0}
<1>12. N \in None
    <2>1. Excess(first[N]) = 0
        BY <1>1, <1>3, NoExcess
    <2>2. QED
        BY <1>1, <2>1
<1>13. \A n \in 1..N : n \in None => n - 1 \in None
    BY <1>1, <1>11
<1>14. \A n \in 0..N : n \in None
    <2> HIDE DEF None
    <2>1. QED
        BY <1>1, <1>12, <1>13, InductionDown
<1>15. \A n \in 1..N : Excess(Piece(n)) = 0
    BY <1>7, <1>11, <1>14
<1>16. \A n \in 1..N : Closed(first[n - 1])
    BY <1>7, <1>9 DEF S
<1>17. QED
    BY <1>3, <1>15, <1>16 DEF Rows, N, Piece

\* What stands behind each other in memory.
LEMMA StandsParts ==
    ASSUME NEW X, NEW x \in Seq(X), NEW y \in Seq(X), NEW m, NEW o, StandsAt(m, o, x \o y), Len(m) \in Nat
    PROVE  /\ StandsAt(m, o, x)
           /\ StandsAt(m, o + Len(x), y)
<1> DEFINE u == x \o y
<1>1. Len(x) \in Nat /\ Len(y) \in Nat /\ Len(u) = Len(x) + Len(y)
      /\ \A i \in 1..(Len(x) + Len(y)) : u[i] = IF i <= Len(x) THEN x[i] ELSE y[i - Len(x)]
    BY LenProperties, ConcatProperties
<1>2. o \in Nat /\ o + Len(u) <= Len(m) /\ \A j \in 1..Len(u) : m[o + j] = u[j]
    BY DEF StandsAt
<1> HIDE DEF u
<1>3. \A j \in 1..Len(x) : m[o + j] = x[j]
    BY <1>1, <1>2
<1>4. ASSUME NEW j \in 1..Len(y)
      PROVE  m[o + Len(x) + j] = y[j]
    <2> DEFINE i == Len(x) + j
    <2>1. i \in 1..Len(u) /\ i \in 1..(Len(x) + Len(y)) /\ ~ (i <= Len(x)) /\ i - Len(x) = j /\ o + i = o + Len(x) + j
        BY <1>1, <1>2
    <2> HIDE DEF i
    <2>2. m[o + i] = u[i] /\ u[i] = y[i - Len(x)]
        BY <1>1, <1>2, <2>1
    <2>3. QED
        BY <2>1, <2>2
<1>5. o + Len(x) <= Len(m) /\ o + Len(x) \in Nat /\ o + Len(x) + Len(y) <= Len(m)
    BY <1>1, <1>2
<1>6. QED
    BY <1>2, <1>3, <1>4, <1>5 DEF StandsAt

\* A string in memory ends in front of the first \000.
LEMMA CStringIs ==
    ASSUME NEW m \in Seq(Texts), NEW x \in Seq(Texts), NEW o, StandsAt(m, o, x \o <<NulEscape>>), NulEscape \notin Range(x)
    PROVE  EndOf(m, o + 1) = o + Len(x) + 1 /\ CString(m, o + 1) = x
<1> DEFINE nul == NulEscape
           end == o + Len(x) + 1
           p == o + 1
<1>1. nul \in Texts
    BY TextParts
<1> HIDE DEF nul
<1>2. <<nul>> \in Seq(Texts) /\ Len(<<nul>>) = 1 /\ <<nul>>[1] = nul
    BY <1>1
<1>3. Len(x) \in Nat /\ Len(m) \in Nat /\ DOMAIN x = 1..Len(x)
    BY LenProperties
<1>4. StandsAt(m, o, x) /\ StandsAt(m, o + Len(x), <<nul>>)
    BY <1>2, <1>3, StandsParts DEF nul
<1>5. o \in Nat /\ end \in p..Len(m) /\ m[end] = nul
    <2>1. o \in Nat /\ o + Len(x) + 1 <= Len(m) /\ m[o + Len(x) + 1] = nul
        BY <1>2, <1>4 DEF StandsAt
    <2>2. QED
        BY <1>3, <2>1
<1>6. \A j \in p..(end - 1) : m[j] # nul
    <2> SUFFICES ASSUME NEW j \in p..(end - 1)
                 PROVE  m[j] # nul
        OBVIOUS
    <2> DEFINE i == j - o
    <2>1. i \in 1..Len(x) /\ o + i = j
        BY <1>3, <1>5
    <2> HIDE DEF i
    <2>2. m[o + i] = x[i] /\ x[i] \in Range(x)
        BY <1>3, <1>4, <2>1 DEF StandsAt, Range
    <2>3. QED
        BY <2>1, <2>2 DEF nul
<1>7. EndOf(m, p) = CHOOSE k \in p..Len(m) : m[k] = nul /\ \A j \in p..(k - 1) : m[j] # nul
    BY DEF EndOf, nul
<1> HIDE DEF end
<1>8. \A k \in p..Len(m) : m[k] = nul /\ (\A j \in p..(k - 1) : m[j] # nul) => k = end
    <2> SUFFICES ASSUME NEW k \in p..Len(m), m[k] = nul, \A j \in p..(k - 1) : m[j] # nul, k # end
                 PROVE  FALSE
        OBVIOUS
    <2>1. p \in Int /\ end \in p..Len(m)
        BY <1>5
    <2>2. end \in p..(k - 1) \/ k \in p..(end - 1)
        BY <1>3, <2>1
    <2>3. QED
        BY <1>5, <1>6, <2>2
<1>9. EndOf(m, p) = end
    <2> DEFINE Is(k) == m[k] = nul /\ \A j \in p..(k - 1) : m[j] # nul
    <2>1. EndOf(m, p) = CHOOSE k \in p..Len(m) : Is(k)
        BY <1>7
    <2>2. end \in p..Len(m) /\ Is(end)
        BY <1>5, <1>6
    <2>3. \A k \in p..Len(m) : Is(k) => k = end
        BY <1>8
    <2> HIDE DEF Is, p
    <2>4. QED
        BY <2>1, <2>2, <2>3
<1>10. SubSeq(m, o + 1, o + Len(x)) = x
    BY <1>4, StandsIs
<1>11. end - 1 = o + Len(x)
    BY <1>3, <1>5 DEF end
<1>12. CString(m, p) = x
    BY <1>9, <1>10, <1>11 DEF CString
<1>13. QED
    BY <1>9, <1>12 DEF end

\* A source of one character that is no backslash.
LEMMA CompiledOne ==
    ASSUME NEW s \in Texts, Len(s) = 1, s[1] # Backslash
    PROVE  Compiled(s) = <<s>>
<1>1. s # <<>> /\ SourceLen(s, 1) = 1
    BY EmptySeq DEF SourceLen
<1>2. Compiled(s) = <<SubSeq(s, 1, 1)>> \o Compiled(Drop(s, 1))
    BY <1>1, CompiledStep
<1>3. SubSeq(s, 1, Len(s)) = s
    BY SubSeqFull DEF Texts
<1>4. Drop(s, Len(s)) = <<>>
    <2>1. 0 \in 0..Len(s)
        OBVIOUS
    <2>2. QED
        BY <2>1, DropIs DEF Texts
<1>5. Compiled(<<>>) = <<>>
    BY TextParts, CompiledStep
<1>6. <<s>> \in Seq(Texts)
    OBVIOUS
<1>7. <<s>> \o <<>> = <<s>>
    BY <1>6, ConcatEmptySeq
<1>8. QED
    BY <1>2, <1>3, <1>4, <1>5, <1>7

\* What the field of an attribute is when it is compiled.
LEMMA FieldIs ==
    ASSUME NEW e \in Entries, NEW metric \in BOOLEAN, NEW n \in 1..Len(Attributes(metric)),
           Excess(Field(e, Attributes(metric)[n], metric)) = 0
    PROVE  LET attr == Attributes(metric)[n]
               part == Compiled(Field(e, attr, metric))
               meant == Meant(e, metric)[n]
           IN  /\ attr \in EnumAttributes => part = meant /\ Len(part) = 1
               /\ attr \notin EnumAttributes => /\ meant \in Seq(Texts) /\ NulEscape \notin Range(meant)
                                                /\ part = meant \o <<NulEscape>>
<1> DEFINE attr == Attributes(metric)[n]
           part == Compiled(Field(e, attr, metric))
           meant == Meant(e, metric)[n]
<1>1. /\ attr \in Fields /\ e[attr] \in Texts
      /\ Source(e, attr, metric) \in Texts /\ Field(e, attr, metric) \in Texts
    BY EntryParts
<1>2. meant = IF attr \in EnumAttributes /\ e[attr] = <<>> THEN Compiled(<<"0">>)
              ELSE Compiled(Source(e, attr, metric))
    <2>1. DOMAIN Attributes(metric) = 1..Len(Attributes(metric))
        BY EntryParts, LenProperties
    <2>2. QED
        BY <2>1 DEF Meant
<1>3. ASSUME NEW s \in Texts, Len(s) = 1, s[1] # Backslash
      PROVE  Len(Compiled(s)) = 1
    <2>1. Compiled(s) = <<s>>
        BY <1>3, CompiledOne
    <2>2. QED
        BY <2>1
<1> HIDE DEF attr, meant
<1>4. CASE attr \in EnumAttributes /\ e[attr] = <<>>
    <2>1. Field(e, attr, metric) = <<"0">> /\ meant = Compiled(<<"0">>)
        BY <1>2, <1>4 DEF Field
    <2>2. <<"0">> \in Texts /\ Len(<<"0">>) = 1 /\ <<"0">>[1] # Backslash
        <3>1. ASSUME NEW z
              PROVE  Len(<<z>>) = 1 /\ <<z>>[1] = z
            OBVIOUS
        <3>2. "0" # Backslash
            BY DEF Backslash
        <3>3. QED
            BY <3>1, <3>2, TextParts
    <2>3. QED
        BY <1>3, <1>4, <2>1, <2>2 DEF attr, meant
<1>5. CASE attr \in EnumAttributes /\ e[attr] # <<>>
    <2>1. Len(e[attr]) = 1 /\ e[attr][1] # Backslash
        BY <1>1, <1>5, EntriesAssumption
    <2>2. Source(e, attr, metric) = e[attr]
        BY <1>5, AttributesAssumption DEF Source
    <2>3. Field(e, attr, metric) = e[attr] /\ meant = Compiled(e[attr])
        BY <1>2, <1>5, <2>2 DEF Field
    <2>4. QED
        BY <1>1, <1>3, <1>5, <2>1, <2>3 DEF attr, meant
<1>6. CASE attr \notin EnumAttributes
    <2> DEFINE x == Source(e, attr, metric)
    <2>1. Field(e, attr, metric) = x \o NulEscape /\ meant = Compiled(x)
        BY <1>2, <1>6 DEF Field
    <2>2. Excess(x \o NulEscape) = 0
        BY <2>1 DEF attr
    <2>3. x \in Texts /\ NulEscape \notin Range(Compiled(x))
        BY <1>1, TextsAssumption
    <2> HIDE DEF x
    <2>4. part = Compiled(x) \o <<NulEscape>>
        BY <2>1, <2>2, <2>3, NulIsLast
    <2>5. Compiled(x) \in Seq(Texts)
        BY <2>3, CompiledStep
    <2>6. QED
        BY <1>6, <2>1, <2>3, <2>4, <2>5 DEF attr, meant
<1>7. QED
    BY <1>4, <1>5, <1>6

\* The fields that begin at L[0], L[1], ...
FieldsAt(m, A, L) ==
    [i \in DOMAIN A |-> IF A[i] \in EnumAttributes THEN <<m[L[i - 1]]>> ELSE CString(m, L[i - 1])]

\* Where decompress takes the fields from.
LEMMA DecompressAt ==
    ASSUME NEW m, NEW o, NEW A, NEW N \in Nat, Len(A) = N, DOMAIN A = 1..N,
           NEW L \in [0..N -> Int], L[0] = o + 1, \A n \in 1..N : L[n] = Behind(m, L[n - 1], A[n])
    PROVE  decompress(m, o, A) = FieldsAt(m, A, L)
<1> DEFINE Fits(f) == f = [i \in 0..Len(A) |-> IF i = 0 THEN o + 1 ELSE Behind(m, f[i - 1], A[i])]
           at == CHOOSE f : Fits(f)
<1>1. decompress(m, o, A) =
                [i \in DOMAIN A |-> IF A[i] \in EnumAttributes THEN <<m[at[i - 1]]>> ELSE CString(m, at[i - 1])]
    BY DEF decompress
<1>2. Fits(L)
    <2> DEFINE B(n) == Behind(m, L[n - 1], A[n])
    <2>1. /\ L = [n \in 0..N |-> L[n]] /\ L[0] = o + 1 /\ \A n \in 1..N : L[n] = B(n)
          /\ \A n \in 0..N : n = 0 \/ (n # 0 /\ n \in 1..N)
        OBVIOUS
    <2>2. Fits(L) <=> L = [n \in 0..N |-> IF n = 0 THEN o + 1 ELSE B(n)]
        OBVIOUS
    <2> HIDE DEF B, Fits
    <2>3. \A n \in 0..N : L[n] = IF n = 0 THEN o + 1 ELSE B(n)
        BY <2>1
    <2>4. [n \in 0..N |-> L[n]] = [n \in 0..N |-> IF n = 0 THEN o + 1 ELSE B(n)]
        BY <2>3
    <2>5. QED
        BY <2>1, <2>2, <2>4
<1> HIDE DEF at
<1>3. Fits(at)
    BY <1>2 DEF at
<1>4. \A n \in 0..N : at[n] = IF n = 0 THEN o + 1 ELSE Behind(m, at[n - 1], A[n])
    BY <1>3
<1> HIDE DEF Fits
<1> DEFINE Good == {n \in Nat : n <= N => at[n] = L[n]}
<1>5. ASSUME NEW n \in Nat, \A k \in 0..(n - 1) : k \in Good
      PROVE  n \in Good
    <2>1. CASE n = 0
        <3>1. 0 \in 0..N
            OBVIOUS
        <3>2. at[0] = L[0]
            BY <1>4, <3>1
        <3>3. QED
            BY <2>1, <3>2
    <2>2. CASE n # 0 /\ n <= N
        <3>1. n - 1 \in 0..(n - 1) /\ n - 1 \in Nat /\ n - 1 <= N /\ n \in 0..N /\ n \in 1..N
            BY <2>2
        <3>2. at[n - 1] = L[n - 1]
            BY <1>5, <3>1
        <3>3. at[n] = Behind(m, at[n - 1], A[n])
            BY <1>4, <2>2, <3>1
        <3>4. L[n] = Behind(m, L[n - 1], A[n])
            BY <3>1
        <3>5. at[n] = L[n]
            BY <3>2, <3>3, <3>4
        <3>6. QED
            BY <3>5
    <2>3. QED
        BY <2>1, <2>2
<1> HIDE DEF Good
<1>6. \A n \in Nat : n \in Good
    BY <1>5, Induction
<1>7. \A i \in DOMAIN A : at[i - 1] = L[i - 1]
    <2>1. \A i \in DOMAIN A : i - 1 \in Nat /\ i - 1 <= N
        OBVIOUS
    <2>2. QED
        BY <1>6, <2>1 DEF Good
<1>8. QED
    BY <1>1, <1>7 DEF FieldsAt

\* Where the string of an entry stands, decompress finds what the entry holds.
LEMMA DecompressIs ==
    ASSUME NEW e \in Entries, NEW metric \in BOOLEAN, ~ LooksLikeNul(build_c_string(e, metric)),
           NEW m \in Seq(Texts), NEW o, StandsAt(m, o, Compiled(build_c_string(e, metric)))
    PROVE  decompress(m, o, Attributes(metric)) = Meant(e, metric)
<1> DEFINE A == Attributes(metric)
           N == Len(A)
           Piece(n) == Field(e, A[n], metric)
           meant == Meant(e, metric)
<1>1. PICK first : Rows(e, metric, first)
    BY RowsOfEntry
<1> DEFINE C(n) == Compiled(first[n])
           L == [n \in 0..N |-> o + Len(C(n)) + 1]
<1>2. N \in Nat /\ DOMAIN A = 1..N /\ \A n \in 1..N : n \in 0..N /\ n - 1 \in 0..N
    BY EntryParts, LenProperties
<1>3. \A n \in 0..N : first[n] \in Texts
    BY <1>1 DEF Rows
<1>4. first[0] = <<>> /\ first[N] = build_c_string(e, metric)
    BY <1>1 DEF Rows
<1>5. \A n \in 1..N : Closed(first[n - 1]) /\ first[n] = first[n - 1] \o Piece(n) /\ Excess(Piece(n)) = 0
    BY <1>1 DEF Rows
<1>6. \A n \in 1..N : Piece(n) \in Texts
    BY EntryParts
<1>7. \A n \in 1..N :
        /\ A[n] \in EnumAttributes => Compiled(Piece(n)) = meant[n] /\ Len(Compiled(Piece(n))) = 1
        /\ A[n] \notin EnumAttributes =>
                /\ meant[n] \in Seq(Texts) /\ NulEscape \notin Range(meant[n])
                /\ Compiled(Piece(n)) = meant[n] \o <<NulEscape>>
    <2> SUFFICES ASSUME NEW n \in 1..N
                 PROVE  /\ A[n] \in EnumAttributes => Compiled(Piece(n)) = meant[n] /\ Len(Compiled(Piece(n))) = 1
                        /\ A[n] \notin EnumAttributes =>
                                /\ meant[n] \in Seq(Texts) /\ NulEscape \notin Range(meant[n])
                                /\ Compiled(Piece(n)) = meant[n] \o <<NulEscape>>
        OBVIOUS
    <2>1. Excess(Field(e, Attributes(metric)[n], metric)) = 0
        BY <1>5
    <2>2. QED
        BY <2>1, FieldIs
<1>8. meant = [i \in DOMAIN A |-> meant[i]]
    BY DEF Meant
<1>9. StandsAt(m, o, C(N)) /\ Len(m) \in Nat
    BY <1>4, LenProperties
<1> HIDE DEF A, N, Piece, meant
<1>10. ASSUME NEW n \in 1..N
       PROVE  /\ C(n) = C(n - 1) \o Compiled(Piece(n))
              /\ C(n) \in Seq(Texts) /\ C(n - 1) \in Seq(Texts) /\ Compiled(Piece(n)) \in Seq(Texts)
    <2>1. first[n - 1] \in Texts /\ first[n] \in Texts /\ Piece(n) \in Texts
        BY <1>2, <1>3, <1>6
    <2>2. Compiled(first[n - 1] \o Piece(n)) = Compiled(first[n - 1]) \o Compiled(Piece(n))
        BY <1>5, <2>1, CompiledConcat
    <2>3. QED
        BY <1>5, <2>1, <2>2, CompiledStep
<1>11. \A n \in 0..N : C(n) \in Seq(Texts) /\ Len(C(n)) \in Nat
    BY <1>3, CompiledStep, LenProperties
<1>12. C(0) = <<>> /\ Len(C(0)) = 0
    <2>1. Compiled(<<>>) = <<>>
        BY TextParts, CompiledStep
    <2>2. QED
        BY <1>4, <2>1
<1> HIDE DEF C
<1> DEFINE Good == {n \in 0..N : StandsAt(m, o, C(n))}
<1>13. \A n \in 0..N : StandsAt(m, o, C(n))
    <2>1. N \in Good
        BY <1>2, <1>9
    <2>2. \A n \in 1..N : n \in Good => n - 1 \in Good
        <3> SUFFICES ASSUME NEW n \in 1..N, n \in Good
                     PROVE  n - 1 \in Good
            OBVIOUS
        <3>1. StandsAt(m, o, C(n - 1) \o Compiled(Piece(n)))
            BY <1>10
        <3>2. StandsAt(m, o, C(n - 1))
            BY <1>9, <1>10, <3>1, StandsParts
        <3>3. QED
            BY <1>2, <3>2
    <2> HIDE DEF Good
    <2>3. \A n \in 0..N : n \in Good
        BY <1>2, <2>1, <2>2, InductionDown
    <2>4. QED
        BY <2>3 DEF Good
<1>14. ASSUME NEW n \in 1..N
       PROVE  /\ o \in Nat /\ StandsAt(m, o + Len(C(n - 1)), Compiled(Piece(n)))
              /\ Len(C(n)) = Len(C(n - 1)) + Len(Compiled(Piece(n)))
              /\ Len(C(n - 1)) \in Nat
    <2>1. StandsAt(m, o, C(n - 1) \o Compiled(Piece(n)))
        BY <1>2, <1>10, <1>13
    <2>2. StandsAt(m, o + Len(C(n - 1)), Compiled(Piece(n)))
        BY <1>9, <1>10, <2>1, StandsParts
    <2>3. o \in Nat
        BY <2>1 DEF StandsAt
    <2>4. Len(C(n - 1) \o Compiled(Piece(n))) = Len(C(n - 1)) + Len(Compiled(Piece(n)))
        BY <1>10, ConcatProperties
    <2>5. Len(C(n)) = Len(C(n - 1)) + Len(Compiled(Piece(n))) /\ Len(C(n - 1)) \in Nat
        BY <1>2, <1>10, <1>11, <2>4
    <2>6. QED
        BY <2>2, <2>3, <2>5
<1>15. ASSUME NEW n \in 1..N
       PROVE  /\ Behind(m, o + Len(C(n - 1)) + 1, A[n]) = o + Len(C(n)) + 1
              /\ meant[n] = IF A[n] \in EnumAttributes THEN <<m[o + Len(C(n - 1)) + 1]>>
                            ELSE CString(m, o + Len(C(n - 1)) + 1)
    <2> DEFINE q == o + Len(C(n - 1))
               part == Compiled(Piece(n))
               x == meant[n]
    <2>1. q \in Nat /\ StandsAt(m, q, part) /\ o + Len(C(n)) + 1 = q + Len(part) + 1 /\ Len(part) \in Nat
        <3>1. Len(part) \in Nat
            BY <1>10, LenProperties
        <3>2. o \in Nat /\ Len(C(n - 1)) \in Nat /\ StandsAt(m, q, part) /\ Len(C(n)) = Len(C(n - 1)) + Len(part)
            BY <1>14
        <3> HIDE DEF part
        <3>3. QED
            BY <3>1, <3>2
    <2>2. part \in Seq(Texts)
        BY <1>10
    <2>3. (A[n] \in EnumAttributes => part = x /\ Len(part) = 1)
          /\ (A[n] \notin EnumAttributes => x \in Seq(Texts) /\ NulEscape \notin Range(x) /\ part = x \o <<NulEscape>>)
        BY <1>7
    <2> HIDE DEF q, part, x
    <2>4. CASE A[n] \in EnumAttributes
        <3>1. Len(part) = 1 /\ x = part
            BY <2>3, <2>4
        <3>2. m[q + 1] = part[1]
            BY <2>1, <3>1 DEF StandsAt
        <3>3. part = <<part[1]>>
            BY <2>2, <3>1
        <3>4. Behind(m, q + 1, A[n]) = q + Len(part) + 1
            BY <2>1, <2>4, <3>1 DEF Behind
        <3>5. x = <<m[q + 1]>>
            BY <3>1, <3>2, <3>3
        <3>6. QED
            BY <2>1, <2>4, <3>4, <3>5 DEF q, x
    <2>5. CASE A[n] \notin EnumAttributes
        <3>1. x \in Seq(Texts) /\ NulEscape \notin Range(x) /\ part = x \o <<NulEscape>>
            BY <2>3, <2>5
        <3>2. EndOf(m, q + 1) = q + Len(x) + 1 /\ CString(m, q + 1) = x
            BY <2>1, <3>1, CStringIs
        <3>3. Len(part) = Len(x) + 1 /\ Len(x) \in Nat
            <4> DEFINE z == NulEscape
            <4>1. z \in Texts
                BY TextParts
            <4> HIDE DEF z
            <4>2. Len(x \o <<z>>) = Len(x) + 1 /\ Len(x) \in Nat
                BY <3>1, <4>1
            <4>3. QED
                BY <3>1, <4>2 DEF z
        <3>4. Behind(m, q + 1, A[n]) = q + Len(part) + 1
            <4>1. Behind(m, q + 1, A[n]) = q + Len(x) + 1 + 1
                BY <2>5, <3>2 DEF Behind
            <4>2. QED
                BY <2>1, <3>3, <4>1
        <3>5. QED
            BY <2>1, <2>5, <3>2, <3>4 DEF q, x
    <2>6. QED
        BY <2>4, <2>5
<1>16. /\ L \in [0..N -> Int] /\ L[0] = o + 1
       /\ \A n \in 1..N : L[n] = o + Len(C(n)) + 1 /\ L[n - 1] = o + Len(C(n - 1)) + 1
    <2>1. 0 \in 0..N
        BY <1>2
    <2>2. o \in Nat
        BY <1>9 DEF StandsAt
    <2>3. \A n \in 0..N : L[n] = o + Len(C(n)) + 1
        OBVIOUS
    <2>4. L \in [0..N -> Int]
        <3>1. \A n \in 0..N : o + Len(C(n)) + 1 \in Int
            BY <1>11, <2>2
        <3>2. QED
            BY <3>1
    <2> HIDE DEF L
    <2>5. L[0] = o + 1
        <3>1. L[0] = o + 0 + 1
            BY <1>12, <2>1, <2>3
        <3>2. QED
            BY <2>2, <3>1
    <2>6. QED
        BY <1>2, <2>3, <2>4, <2>5
<1> HIDE DEF L
<1>17. decompress(m, o, A) = FieldsAt(m, A, L)
    <2>1. Len(A) = N
        BY DEF N
    <2>2. \A n \in 1..N : L[n] = Behind(m, L[n - 1], A[n])
        BY <1>15, <1>16
    <2>3. QED
        BY <1>2, <1>16, <2>1, <2>2, DecompressAt
<1>18. \A i \in DOMAIN A : meant[i] = IF A[i] \in EnumAttributes THEN <<m[L[i - 1]]>> ELSE CString(m, L[i - 1])
    BY <1>2, <1>15, <1>16
<1>19. QED
    BY <1>8, <1>17, <1>18 DEF FieldsAt, A, meant

\* The strings of all entries that were read have been added.
AddedInv ==
    \A metric \in BOOLEAN : \A i \in OwnOf(entries, metric) :
        /\ PmuString(entries[i]["pmu"]) \in Range(strings)
        /\ build_c_string(entries[i], metric) \in Range(strings)

\* What an entry that is read adds.
LEMMA ReadAdds ==
    ASSUME strings \in Seq(Texts), NEW e \in Entries, ReadEntry(e)
    PROVE  /\ \A s \in Range(strings) : s \in Range(strings')
           /\ \A metric \in BOOLEAN : (IF metric THEN IsMetric(e) ELSE IsEvent(e)) =>
                PmuString(e["pmu"]) \in Range(strings') /\ build_c_string(e, metric) \in Range(strings')
<1> DEFINE Has(metric) == IF metric THEN IsMetric(e) ELSE IsEvent(e)
           new(metric) == IF Has(metric) THEN StringsOf(e, metric) ELSE <<>>
           a == new(FALSE)
           b == new(TRUE)
<1>1. strings' = Added(new(FALSE) \o new(TRUE))
    BY DEF ReadEntry, AddAll
<1>2. ASSUME NEW metric \in BOOLEAN
      PROVE  /\ new(metric) \in Seq(Texts)
             /\ Has(metric) => PmuString(e["pmu"]) \in Range(new(metric)) /\ build_c_string(e, metric) \in Range(new(metric))
    <2>1. StringsOf(e, metric) \in Seq(Texts)
          /\ Range(StringsOf(e, metric)) = {PmuString(e["pmu"]), build_c_string(e, metric)}
        BY NewStrings
    <2> HIDE DEF Has
    <2>2. CASE Has(metric)
        BY <2>1, <2>2
    <2>3. CASE ~ Has(metric)
        <3>1. new(metric) = <<>>
            BY <2>3
        <3>2. QED
            BY <2>3, <3>1, EmptySeq
    <2>4. QED
        BY <2>2, <2>3
<1> HIDE DEF new
<1>3. a \in Seq(Texts) /\ b \in Seq(Texts)
    BY <1>2
<1>4. /\ Has(FALSE) => PmuString(e["pmu"]) \in Range(a) /\ build_c_string(e, FALSE) \in Range(a)
      /\ Has(TRUE) => PmuString(e["pmu"]) \in Range(b) /\ build_c_string(e, TRUE) \in Range(b)
    BY <1>2
<1> HIDE DEF a, b
<1>5. a \o b \in Seq(Texts) /\ Range(a \o b) = Range(a) \cup Range(b)
    BY <1>3, RangeConcatenation, ConcatProperties
<1>6. Range(strings') = Range(strings) \cup (Range(a) \cup Range(b))
    BY <1>1, <1>5, AddedIs DEF a, b
<1>7. ASSUME NEW metric \in BOOLEAN, Has(metric)
      PROVE  PmuString(e["pmu"]) \in Range(strings') /\ build_c_string(e, metric) \in Range(strings')
    <2>1. CASE metric = FALSE
        BY <1>4, <1>6, <1>7, <2>1
    <2>2. CASE metric = TRUE
        BY <1>4, <1>6, <1>7, <2>2
    <2>3. QED
        BY <2>1, <2>2
<1>8. QED
    BY <1>6, <1>7 DEF Has

LEMMA AddedInit ==
    Init => AddedInv
<1> SUFFICES ASSUME Init
             PROVE  AddedInv
    OBVIOUS
<1>1. entries = <<>>
    BY DEF Init
<1>2. DOMAIN entries = {}
    BY <1>1
<1>3. QED
    BY <1>2 DEF AddedInv, OwnOf

LEMMA AddedStep ==
    FoldingInv /\ PrintInv /\ AddedInv /\ [Next]_vars => AddedInv'
<1> SUFFICES ASSUME FoldingInv, PrintInv, AddedInv, [Next]_vars
             PROVE  AddedInv'
    OBVIOUS
<1>1. ASSUME NEW e \in Entries, ReadEntry(e)
      PROVE  AddedInv'
    <2> DEFINE n == Len(entries)
               R == Range(strings')
    <2>1. entries \in Seq(Entries) /\ n \in Nat /\ DOMAIN entries = 1..n
        BY LenProperties DEF PrintInv
    <2>2. entries' = Append(entries, e)
        BY <1>1 DEF ReadEntry
    <2> HIDE DEF n
    <2>3. DOMAIN entries' = 1..(n + 1) /\ entries'[n + 1] = e /\ \A i \in 1..n : entries'[i] = entries[i]
        <3>1. Len(entries) = n
            BY DEF n
        <3>2. QED
            BY <2>1, <2>2, <3>1, AppendProperties
    <2>4. /\ \A s \in Range(strings) : s \in R
          /\ \A metric \in BOOLEAN : (IF metric THEN IsMetric(e) ELSE IsEvent(e)) =>
                PmuString(e["pmu"]) \in R /\ build_c_string(e, metric) \in R
        BY <1>1, ReadAdds DEF FoldingInv
    <2> HIDE DEF R
    <2>5. ASSUME NEW metric \in BOOLEAN, NEW i \in OwnOf(entries', metric)
          PROVE  PmuString(entries'[i]["pmu"]) \in R /\ build_c_string(entries'[i], metric) \in R
        <3>1. i \in 1..(n + 1) /\ (IF metric THEN IsMetric(entries'[i]) ELSE IsEvent(entries'[i]))
            BY <2>3, <2>5 DEF OwnOf
        <3>2. CASE i = n + 1
            <4>1. entries'[i] = e
                BY <2>3, <3>2
            <4>2. QED
                BY <2>4, <3>1, <4>1
        <3>3. CASE i # n + 1
            <4>1. i \in 1..n
                BY <2>1, <3>1, <3>3
            <4>2. entries'[i] = entries[i] /\ i \in OwnOf(entries, metric)
                BY <2>1, <2>3, <3>1, <4>1 DEF OwnOf
            <4>3. PmuString(entries[i]["pmu"]) \in Range(strings) /\ build_c_string(entries[i], metric) \in Range(strings)
                BY <4>2 DEF AddedInv
            <4>4. QED
                BY <2>4, <4>2, <4>3
        <3>4. QED
            BY <3>2, <3>3
    <2>6. QED
        BY <2>5 DEF AddedInv, R
<1>2. CASE UNCHANGED <<entries, strings>>
    BY <1>2 DEF AddedInv
<1>3. CASE ComputeStrings
    <2>1. UNCHANGED entries
        BY <1>3 DEF ComputeStrings
    <2>2. UNCHANGED strings
        BY <1>3 DEF ComputeStrings, BcsStep, Compute, FoldString, FoldEnds, EmitString, EmitEnds, PlaceFolded, PlaceEnds
    <2>3. QED
        BY <1>2, <2>1, <2>2
<1>4. CASE StartEvents \/ PrintEntry \/ PrintRaises \/ StartMetrics \/ PrintEnds \/ UNCHANGED vars
    <2>1. UNCHANGED <<entries, strings>>
        BY <1>4 DEF StartEvents, PrintEntry, PrintRaises, StartMetrics, PrintEnds, vars, bcsVars
    <2>2. QED
        BY <1>2, <2>1
<1>5. QED
    BY <1>1, <1>3, <1>4 DEF Next

\* The strings that are printed for an entry are among those the preprocessing has added.
THEOREM AlwaysAddedInv ==
    Spec => []AddedInv
BY AddedInit, AddedStep, AlwaysFoldingInv, AlwaysPrintInv, PTL DEF Spec

-----------------------------------------------------------------------------
(* EntriesReadBack. *)

\* The string of an entry, and the name of its PMU, stand in the memory of the library.
LEMMA MemoryHolds ==
    ASSUME OffsetsInv, pc = "printed", PlainEscapes, NEW s \in Range(strings)
    PROVE  /\ Memory \in Seq(Texts)
           /\ s \in Texts /\ ~ LooksLikeNul(s) /\ StandsAt(Memory, offsets[s], Compiled(s))
<1> DEFINE b == Compiled(big)
           nul == NulEscape
           x == Compiled(s)
<1>1. b \in Seq(Texts) /\ s \in Texts /\ StandsAt(b, offsets[s], x)
    BY AllStand DEF Before, Placing
<1>2. nul \in Texts /\ x \in Seq(Texts)
    BY <1>1, TextParts, CompiledStep
<1>3. Memory = b \o <<nul>>
    BY DEF Memory
<1> HIDE DEF b, nul, x
<1>4. <<nul>> \in Seq(Texts) /\ Len(<<nul>>) = 1
    BY <1>2
<1>5. /\ Memory \in Seq(Texts) /\ Len(Memory) = Len(b) + 1
      /\ \A i \in 1..(Len(b) + 1) : Memory[i] = IF i <= Len(b) THEN b[i] ELSE <<nul>>[i - Len(b)]
    BY <1>1, <1>3, <1>4, ConcatProperties
<1>6. Len(b) \in Nat /\ Len(x) \in Nat
    BY <1>1, <1>2, LenProperties
<1>7. StandsAt(Memory, offsets[s], x)
    <2> DEFINE o == offsets[s]
    <2>1. o \in Nat /\ o + Len(x) <= Len(b) /\ \A j \in 1..Len(x) : b[o + j] = x[j]
        BY <1>1 DEF StandsAt
    <2> HIDE DEF o
    <2>2. o + Len(x) <= Len(Memory)
        BY <1>5, <1>6, <2>1
    <2>3. ASSUME NEW j \in 1..Len(x)
          PROVE  Memory[o + j] = x[j]
        <3>1. o + j \in 1..(Len(b) + 1) /\ o + j <= Len(b)
            BY <1>6, <2>1
        <3>2. Memory[o + j] = b[o + j]
            BY <1>5, <3>1
        <3>3. QED
            BY <2>1, <3>2
    <2>4. QED
        BY <2>1, <2>2, <2>3 DEF StandsAt, o
<1>8. ~ LooksLikeNul(s)
    BY DEF PlainEscapes
<1>9. QED
    BY <1>1, <1>5, <1>7, <1>8 DEF x

\* The name of a PMU is read back.
LEMMA PmuReadsBack ==
    ASSUME NEW e \in Entries, NEW m \in Seq(Texts), NEW o, ~ LooksLikeNul(PmuString(e["pmu"])),
           StandsAt(m, o, Compiled(PmuString(e["pmu"])))
    PROVE  CString(m, o + 1) = Compiled(e["pmu"])
<1> DEFINE pmu == e["pmu"]
<1>1. pmu \in Texts /\ PmuString(pmu) \in Texts /\ PmuString(pmu) = pmu \o NulEscape
    BY EntryParts DEF PmuString
<1>2. Excess(PmuString(pmu)) = 0
    BY <1>1, NoExcess
<1>3. Compiled(PmuString(pmu)) = Compiled(pmu) \o <<NulEscape>>
    BY <1>1, <1>2, NulIsLast
<1>4. NulEscape \notin Range(Compiled(pmu))
    <2>1. "pmu" \in Fields /\ FALSE \in BOOLEAN
        BY DEF Fields
    <2>2. NulEscape \notin Range(Compiled(Source(e, "pmu", FALSE)))
        BY <2>1, TextsAssumption
    <2>3. Source(e, "pmu", FALSE) = e["pmu"]
        BY DEF Source
    <2>4. QED
        BY <2>2, <2>3
<1>5. Compiled(pmu) \in Seq(Texts)
    BY <1>1, CompiledStep
<1>6. QED
    BY <1>3, <1>4, <1>5, CStringIs

\* The array with the name of a PMU, and the entries that belong there.
ArrayOf(A, metric, pmu) == CHOOSE k \in DOMAIN A : ArrayName(A[k]) = <<metric, Underscored(pmu)>>
OwnOfPmu(es, metric, pmu) == {i \in OwnOf(es, metric) : es[i]["pmu"] = pmu}
RowHolds(A, g, es, metric, pmu) ==
    LET k == ArrayOf(A, metric, pmu)
        o == A[k].offsets
        own == OwnOfPmu(es, metric, pmu)
    IN  /\ k \in DOMAIN A
        /\ Len(o) = Cardinality(own)
        /\ \A i \in own : \E j \in 1..Len(o) : o[j] = g[build_c_string(es[i], metric)]
        /\ \A j \in 1..Len(o) : \E i \in own : o[j] = g[build_c_string(es[i], metric)]

\* When all names differ the array with the name of a PMU holds all its entries and no others.
LEMMA ArrayOfPmu ==
    ASSUME NEW A, NEW n \in Nat, DOMAIN A = 1..n,
           \A a, b \in DOMAIN A : ArrayName(A[a]) = ArrayName(A[b]) => a = b,
           NEW es, NEW g, NEW metric \in BOOLEAN, NEW lo \in Nat, NEW hi \in Nat, hi <= n,
           WholeTable(es, metric, lo, hi, A, g), NEW p \in OwnOf(es, metric)
    PROVE  RowHolds(A, g, es, metric, es[p]["pmu"])
<1> DEFINE P == OwnOf(es, metric)
           U(i) == es[i]["pmu"]
           N(a) == ArrayName(A[a])
           k == CHOOSE c \in DOMAIN A : N(c) = <<metric, Underscored(U(p))>>
           own == {i \in P : U(i) = U(p)}
<1>1. PICK at : Cut(es, metric, P, lo, hi, A, g, at)
    BY DEF WholeTable
<1>2. \A i \in P : at[i] \in (lo + 1)..hi /\ A[at[i]].metric = metric /\ A[at[i]].pmu = U(i)
    BY <1>1 DEF Cut
<1>3. \A i \in P : at[i] \in DOMAIN A
    <2>1. \A a \in (lo + 1)..hi : a \in 1..n
        OBVIOUS
    <2>2. QED
        BY <1>2, <2>1
<1>4. \A i \in P : N(at[i]) = <<metric, Underscored(U(i))>>
    BY <1>2 DEF ArrayName
<1>5. \A a, b \in DOMAIN A : N(a) = N(b) => a = b
    OBVIOUS
<1> HIDE DEF N
<1>6. k = at[p]
    <2>1. at[p] \in DOMAIN A /\ N(at[p]) = <<metric, Underscored(U(p))>>
        BY <1>3, <1>4
    <2> HIDE DEF U
    <2>2. \A c \in DOMAIN A : N(c) = <<metric, Underscored(U(p))>> => c = at[p]
        BY <1>5, <2>1
    <2>3. QED
        BY <2>1, <2>2
<1> HIDE DEF k
<1>7. \A i \in P : at[i] = k <=> U(i) = U(p)
    <2> SUFFICES ASSUME NEW i \in P
                 PROVE  at[i] = k <=> U(i) = U(p)
        OBVIOUS
    <2>1. ASSUME at[i] = k
          PROVE  U(i) = U(p)
        BY <1>2, <1>6, <2>1
    <2>2. ASSUME U(i) = U(p)
          PROVE  at[i] = k
        <3>1. N(at[i]) = N(at[p])
            BY <1>4, <2>2
        <3>2. QED
            BY <1>3, <1>5, <1>6, <3>1
    <2>3. QED
        BY <2>1, <2>2
<1>8. own = {i \in P : at[i] = k}
    BY <1>7
<1>9. Holds(es, metric, P, at, k, A[k].offsets, g)
    BY <1>1, <1>2, <1>6 DEF Cut
<1>10. k \in DOMAIN A
    BY <1>3, <1>6
<1> HIDE DEF own, P, U
<1>11. /\ Len(A[k].offsets) = Cardinality(own)
       /\ \A i \in own : \E j \in 1..Len(A[k].offsets) : A[k].offsets[j] = g[build_c_string(es[i], metric)]
       /\ \A j \in 1..Len(A[k].offsets) : \E i \in own : A[k].offsets[j] = g[build_c_string(es[i], metric)]
    BY <1>8, <1>9 DEF Holds
<1>12. QED
    BY <1>10, <1>11 DEF RowHolds, ArrayOf, OwnOfPmu, k, own, P, U, N

\* EntriesReadBack of TableLayout: in tables that compile the row of a PMU has its name, and
\* decompressing its array gives every field of every entry of that PMU, and nothing else.
THEOREM AlwaysEntriesReadBack ==
    Spec => []EntriesReadBack
<1>1. ASSUME OffsetsInv, PrintInv, AddedInv, pc = "printed", PlainEscapes,
             IsInjective([k \in DOMAIN arrays |-> ArrayName(arrays[k])]),
             NEW metric \in BOOLEAN, NEW pmu \in PmusOf(metric)
      PROVE  LET array == arrays[CHOOSE k \in DOMAIN arrays : ArrayName(arrays[k]) = <<metric, Underscored(pmu)>>]
                 own == {i \in EntriesOf(metric) : entries[i]["pmu"] = pmu}
             IN  /\ CString(Memory, offsets[PmuString(pmu)] + 1) = Compiled(pmu)
                 /\ Len(array.offsets) = Cardinality(own)
                 /\ {decompress(Memory, array.offsets[k], Attributes(metric)) : k \in DOMAIN array.offsets}
                     = {Meant(entries[i], metric) : i \in own}
    <2> DEFINE es == entries
               n == Len(arrays)
               P == OwnOf(es, metric)
               own == {i \in P : es[i]["pmu"] = pmu}
               k == CHOOSE c \in DOMAIN arrays : ArrayName(arrays[c]) = <<metric, Underscored(pmu)>>
               o == arrays[k].offsets
               D(x) == decompress(Memory, x, Attributes(metric))
               M(i) == Meant(es[i], metric)
               G(i) == offsets[build_c_string(es[i], metric)]
    <2>1. es \in Seq(Entries) /\ n \in Nat /\ DOMAIN arrays = 1..n /\ arrays \in Seq(ArraysOf(offsets))
        BY <1>1, LenProperties DEF PrintInv
    <2>2. P = EntriesOf(metric) /\ \A i \in P : es[i] \in Entries
        <3>1. P = EntriesOf(metric)
            BY DEF EntriesOf, OwnOf
        <3>2. \A i \in P : es[i] \in Entries
            BY <2>1, ElementOfSeq, LenProperties DEF OwnOf
        <3>3. QED
            BY <3>1, <3>2
    <2>3. PICK p \in P : es[p]["pmu"] = pmu
        BY <2>2 DEF PmusOf
    <2>4. \E lo, hi \in Nat : hi <= n /\ WholeTable(es, metric, lo, hi, arrays, offsets)
        <3>1. PICK mid \in 0..n :
                    /\ WholeTable(es, FALSE, 0, mid, arrays, offsets)
                    /\ WholeTable(es, TRUE, mid, n, arrays, offsets)
            BY <1>1 DEF PrintInv
        <3>2. 0 \in Nat /\ mid \in Nat /\ mid <= n /\ n <= n
            BY <2>1
        <3>3. CASE metric = FALSE
            BY <3>1, <3>2, <3>3
        <3>4. CASE metric = TRUE
            BY <2>1, <3>1, <3>2, <3>4
        <3>5. QED
            BY <3>3, <3>4
    <2>5. /\ k \in DOMAIN arrays
          /\ Len(o) = Cardinality(own)
          /\ \A i \in own : \E j \in 1..Len(o) : o[j] = G(i)
          /\ \A j \in 1..Len(o) : \E i \in own : o[j] = G(i)
        <3>1. k = ArrayOf(arrays, metric, pmu) /\ own = OwnOfPmu(es, metric, pmu)
            BY DEF ArrayOf, OwnOfPmu
        <3> HIDE DEF k, own
        <3>2. PICK lo \in Nat, hi \in Nat : hi <= n /\ WholeTable(es, metric, lo, hi, arrays, offsets)
            BY <2>4
        <3>3. \A a, b \in DOMAIN arrays : ArrayName(arrays[a]) = ArrayName(arrays[b]) => a = b
            BY <1>1 DEF IsInjective
        <3>4. RowHolds(arrays, offsets, es, metric, pmu)
            <4>1. RowHolds(arrays, offsets, es, metric, es[p]["pmu"])
                BY <2>1, <3>2, <3>3, ArrayOfPmu
            <4>2. QED
                BY <2>3, <4>1
        <3>5. QED
            BY <3>1, <3>4 DEF RowHolds
    <2>6. DOMAIN o = 1..Len(o)
        <3>1. arrays[k] \in ArraysOf(offsets)
            BY <2>1, <2>5, ElementOfSeq
        <3>2. o \in Seq(OffsetsOf(offsets))
            BY <3>1 DEF ArraysOf
        <3>3. QED
            BY <3>2, LenProperties
    <2>7. \A i \in P : D(G(i)) = M(i)
        <3> SUFFICES ASSUME NEW i \in P
                     PROVE  D(G(i)) = M(i)
            OBVIOUS
        <3>1. build_c_string(es[i], metric) \in Range(strings)
            BY <1>1 DEF AddedInv
        <3>2. /\ Memory \in Seq(Texts) /\ ~ LooksLikeNul(build_c_string(es[i], metric))
              /\ StandsAt(Memory, G(i), Compiled(build_c_string(es[i], metric)))
            BY <1>1, <3>1, MemoryHolds
        <3>3. QED
            BY <2>2, <3>2, DecompressIs
    <2>8. CString(Memory, offsets[PmuString(pmu)] + 1) = Compiled(pmu)
        <3>1. PmuString(pmu) \in Range(strings)
            BY <1>1, <2>3 DEF AddedInv
        <3>2. /\ Memory \in Seq(Texts) /\ ~ LooksLikeNul(PmuString(pmu))
              /\ StandsAt(Memory, offsets[PmuString(pmu)], Compiled(PmuString(pmu)))
            BY <1>1, <3>1, MemoryHolds
        <3>3. QED
            BY <2>2, <2>3, <3>2, PmuReadsBack
    <2> HIDE DEF es, P, k, o, D, M, G
    <2>9. {D(o[j]) : j \in DOMAIN o} = {M(i) : i \in own}
        <3>1. \A i \in own : \E j \in DOMAIN o : D(o[j]) = M(i)
            BY <2>5, <2>6, <2>7
        <3>2. \A j \in DOMAIN o : \E i \in own : D(o[j]) = M(i)
            BY <2>5, <2>6, <2>7
        <3> HIDE DEF own
        <3>3. QED
            BY <3>1, <3>2
    <2>10. own = {i \in EntriesOf(metric) : entries[i]["pmu"] = pmu}
        BY <2>2 DEF es
    <2> HIDE DEF own
    <2>11. QED
        BY <2>5, <2>8, <2>9, <2>10 DEF es, k, o, D, M
<1>2. OffsetsInv /\ PrintInv /\ AddedInv => EntriesReadBack
    BY <1>1 DEF EntriesReadBack
<1>3. QED
    BY <1>2, AlwaysOffsetsInv, AlwaysPrintInv, AlwaysAddedInv, PTL
=============================================================================
