----------------------------- MODULE LookupProofs -----------------------------
(***************************************************************************)
(* Theorems about the two lookups of the generated C code: map_for_cpu,    *)
(* for every table of rows, every set of CPUs and every matching of ids    *)
(* and rows, and describe_metricgroup, for every set of names.             *)
(***************************************************************************)
EXTENDS MapForCpu, MetricGroupIndex, TLAPS, FiniteSetTheorems, WellFoundedInduction

-----------------------------------------------------------------------------
(* map_for_cpu. *)

(***************************************************************************)
(* Type correctness.                                                       *)
(***************************************************************************)
THEOREM TypeCorrect == Spec => []TypeOK
<1> USE CpusAssumption, RowsAssumption, NullAssumption
    DEF Rows, Maps, MaybeIds, CpuId, Lookup!Rows, Lookup!Maps, Lookup!MaybeIds, Lookup!CpuId
<1>1. Init => TypeOK
    <2> SUFFICES ASSUME Init
                 PROVE  TypeOK
        OBVIOUS
    <2>1. override \in MaybeIds /\ hardware \in [Cpus -> MaybeIds]
        BY DEF Init
    <2>2. lastResult \in [cpu : Cpus, map : Maps] /\ answer \in Maps
        BY DEF Init
    <2>3. lastSearch \in [map : Maps, cpuid : MaybeIds] /\ cpuid \in MaybeIds
        BY DEF Init
    <2>4. i \in 1..(NumRows + 1) /\ cpu \in Cpus
        BY DEF Init
    <2>5. QED
        BY <2>1, <2>2, <2>3, <2>4 DEF Init, TypeOK
<1>2. TypeOK /\ [Next]_vars => TypeOK'
    <2> SUFFICES ASSUME TypeOK, [Next]_vars
                 PROVE  TypeOK'
        OBVIOUS
    <2>1. CASE Setenv
        BY <2>1 DEF TypeOK, Setenv, call
    <2>2. CASE CpuChanges
        BY <2>2 DEF TypeOK, CpuChanges, call
    <2>3. ASSUME NEW c \in Cpus, AnswerFromResult(c)
          PROVE  TypeOK'
        BY <2>3 DEF TypeOK, AnswerFromResult, env, call
    <2>4. ASSUME NEW c \in Cpus, AnswerUnidentified(c)
          PROVE  TypeOK'
        BY <2>4 DEF TypeOK, AnswerUnidentified, UpdateLastResult, env, call
    <2>5. ASSUME NEW c \in Cpus, AnswerFromSearch(c)
          PROVE  TypeOK'
        BY <2>5 DEF TypeOK, AnswerFromSearch, UpdateLastResult, env, call
    <2>6. ASSUME NEW c \in Cpus, StartScan(c)
          PROVE  TypeOK'
        BY <2>6 DEF TypeOK, StartScan, env
    <2>7. CASE ScanOn
        BY <2>7 DEF TypeOK, ScanOn, env
    <2>8. ASSUME NEW m \in Maps, StopAt(m)
          PROVE  TypeOK'
        BY <2>8 DEF TypeOK, StopAt, RememberSearch, UpdateLastResult, env
    <2>9. CASE ScanMatches
        BY <2>8, <2>9 DEF ScanMatches
    <2>10. CASE ScanEnds
        BY <2>8, <2>10 DEF ScanEnds
    <2>11. CASE UNCHANGED vars
        BY <2>11 DEF TypeOK, vars
    <2>12. QED
        BY <2>1, <2>2, <2>3, <2>4, <2>5, <2>6, <2>7, <2>9, <2>10, <2>11 DEF Next
<1>3. QED
    BY <1>1, <1>2, PTL DEF Spec

(***************************************************************************)
(* The first match is the row that matches with none that matches before   *)
(* it, and NULL if no row matches.                                         *)
(***************************************************************************)
LEMMA FirstMatchIs ==
    ASSUME NEW r \in Rows, NEW id, Lookup!IsFirstMatch(r, id)
    PROVE  Lookup!FirstMatch(id) = r
<1>1. ASSUME NEW q \in Rows, Lookup!IsFirstMatch(q, id)
      PROVE  q = r
    BY <1>1, RowsAssumption DEF Lookup!IsFirstMatch, Rows, Lookup!Rows
<1>2. QED
    BY <1>1 DEF Lookup!FirstMatch, Rows

\* A cpuid that no row of the map matches has no first match.
LEMMA NoMatchIsNull ==
    ASSUME NEW id, \A q \in Rows : id \notin Matching[q]
    PROVE  Lookup!FirstMatch(id) = NoMap
BY DEF Lookup!FirstMatch, Lookup!IsFirstMatch, Rows

(***************************************************************************)
(* What the loop and the cached search keep: the rows already passed do    *)
(* not match, so that the row the loop stops at is the first match.        *)
(***************************************************************************)
IInv == TypeOK /\ SearchCacheSound /\ ScanSound

\* Where the loop stops at a row, that row is the first match.
LEMMA StopAtFirst ==
    ASSUME IInv, pc = "scan"
    PROVE  /\ i \in Rows /\ cpuid \in Matching[i] => Lookup!FirstMatch(cpuid) = i
           /\ i \notin Rows => Lookup!FirstMatch(cpuid) = NoMap
<1>1. \A q \in 1..(i - 1) : cpuid \notin Matching[q]
    BY DEF IInv, ScanSound
<1>2. ASSUME i \in Rows, cpuid \in Matching[i]
      PROVE  Lookup!FirstMatch(cpuid) = i
    BY <1>1, <1>2, FirstMatchIs DEF Lookup!IsFirstMatch
<1>3. ASSUME i \notin Rows
      PROVE  Lookup!FirstMatch(cpuid) = NoMap
    <2>1. i = NumRows + 1
        BY <1>3, RowsAssumption DEF IInv, TypeOK, Rows, Lookup!Rows
    <2>2. \A q \in Rows : cpuid \notin Matching[q]
        BY <1>1, <2>1, RowsAssumption DEF Rows, Lookup!Rows
    <2>3. QED
        BY <2>2, NoMatchIsNull
<1>4. QED
    BY <1>2, <1>3

\* The strengthened invariant holds in every reachable state.
LEMMA Invariance == Spec => []IInv
<1>1. Init /\ TypeOK => IInv
    BY DEF Init, IInv, SearchCacheSound, ScanSound
<1>2. IInv /\ TypeOK' /\ [Next]_vars => IInv'
    <2> SUFFICES ASSUME IInv, TypeOK', [Next]_vars
                 PROVE  IInv'
        OBVIOUS
    <2> USE DEF IInv, SearchCacheSound, ScanSound
    <2>1. CASE Setenv
        BY <2>1 DEF Setenv, call
    <2>2. CASE CpuChanges
        BY <2>2 DEF CpuChanges, call
    <2>3. ASSUME NEW c \in Cpus, AnswerFromResult(c)
          PROVE  IInv'
        BY <2>3 DEF AnswerFromResult, call
    <2>4. ASSUME NEW c \in Cpus, AnswerUnidentified(c)
          PROVE  IInv'
        BY <2>4 DEF AnswerUnidentified, call
    <2>5. ASSUME NEW c \in Cpus, AnswerFromSearch(c)
          PROVE  IInv'
        BY <2>5 DEF AnswerFromSearch, call
    <2>6. ASSUME NEW c \in Cpus, StartScan(c)
          PROVE  IInv'
        BY <2>6 DEF StartScan
    <2>7. CASE ScanOn
        <3>1. \A q \in 1..(i' - 1) : q \in 1..(i - 1) \/ q = i
            BY <2>7 DEF ScanOn, TypeOK
        <3>2. QED
            BY <2>7, <3>1 DEF ScanOn
    <2>8. CASE ScanMatches
        BY <2>8, StopAtFirst DEF ScanMatches, StopAt, RememberSearch
    <2>9. CASE ScanEnds
        BY <2>9, StopAtFirst DEF ScanEnds, StopAt, RememberSearch
    <2>10. CASE UNCHANGED vars
        BY <2>10 DEF vars
    <2>11. QED
        BY <2>1, <2>2, <2>3, <2>4, <2>5, <2>6, <2>7, <2>8, <2>9, <2>10 DEF Next
<1>3. QED
    BY <1>1, <1>2, TypeCorrect, PTL DEF Spec

(***************************************************************************)
(* The cached search is sound however the environment and the CPUs change. *)
(***************************************************************************)
THEOREM SearchCacheAlwaysSound == Spec => []SearchCacheSound
<1>1. IInv => SearchCacheSound
    BY DEF IInv
<1>2. QED
    BY <1>1, Invariance, PTL

(***************************************************************************)
(* Each step of map_for_cpu is a step of CpuLookup or changes nothing of   *)
(* what CpuLookup sees.                                                    *)
(***************************************************************************)
LEMMA StepRefines == IInv /\ IInv' /\ [Next]_vars => [Lookup!Next]_(Lookup!vars)
<1> SUFFICES ASSUME IInv, IInv', [Next]_vars
             PROVE  [Lookup!Next]_(Lookup!vars)
    OBVIOUS
<1>1. CASE Setenv
    <2>1. Lookup!Setenv
        BY <1>1 DEF Setenv, call, Lookup!Setenv, MaybeIds
    <2>2. QED
        BY <2>1 DEF Lookup!Next
<1>2. CASE CpuChanges
    <2>1. Lookup!CpuChanges
        BY <1>2 DEF CpuChanges, call, Lookup!CpuChanges, MaybeIds
    <2>2. QED
        BY <2>1 DEF Lookup!Next
<1>3. ASSUME NEW c \in Cpus, AnswerFromResult(c)
      PROVE  Lookup!Next
    <2>1. Lookup!AnswerAgain
        BY <1>3 DEF AnswerFromResult, CachedResult, env, call, Lookup!AnswerAgain
    <2>2. QED
        BY <2>1 DEF Lookup!Next
<1>4. ASSUME NEW c \in Cpus, pc = "idle", ~ CachedResult(c),
             UpdateLastResult(c, Lookup!FirstMatch(CpuId(c))), UNCHANGED <<env, call>>
      PROVE  Lookup!Next
    <2>1. Lookup!AskAndSettle(c)
        BY <1>4 DEF UpdateLastResult, CachedResult, env, call, CpuId, Lookup!AskAndSettle, Lookup!Settle
    <2>2. QED
        BY <2>1 DEF Lookup!Next
<1>5. ASSUME NEW c \in Cpus, AnswerUnidentified(c)
      PROVE  Lookup!Next
    <2>1. \A r \in Rows : NoId \notin Matching[r]
        BY RowsAssumption, NullAssumption
    <2>2. Lookup!FirstMatch(CpuId(c)) = NoMap
        BY <1>5, <2>1, NoMatchIsNull DEF AnswerUnidentified
    <2>3. QED
        BY <1>4, <1>5, <2>2 DEF AnswerUnidentified
<1>6. ASSUME NEW c \in Cpus, AnswerFromSearch(c)
      PROVE  Lookup!Next
    <2>1. Lookup!FirstMatch(CpuId(c)) = lastSearch.map
        BY <1>6 DEF AnswerFromSearch, CachedSearch, IInv, SearchCacheSound
    <2>2. QED
        BY <1>4, <1>6, <2>1 DEF AnswerFromSearch
<1>7. ASSUME NEW c \in Cpus, StartScan(c)
      PROVE  Lookup!Next
    <2>1. Lookup!Ask(c)
        BY <1>7 DEF StartScan, CachedResult, env, CpuId, Lookup!Ask
    <2>2. QED
        BY <2>1 DEF Lookup!Next
<1>8. CASE ScanOn
    BY <1>8 DEF ScanOn, env, Lookup!vars
<1>9. ASSUME pc = "scan", StopAt(Lookup!FirstMatch(cpuid))
      PROVE  Lookup!Next
    <2>1. Lookup!Settle(cpu, cpuid)
        BY <1>9 DEF StopAt, UpdateLastResult, env, Lookup!Settle
    <2>2. Lookup!SettleLater
        BY <1>9, <2>1 DEF Lookup!SettleLater
    <2>3. QED
        BY <2>2 DEF Lookup!Next
<1>10. CASE ScanMatches
    BY <1>9, <1>10, StopAtFirst DEF ScanMatches
<1>11. CASE ScanEnds
    BY <1>9, <1>11, StopAtFirst DEF ScanEnds
<1>12. CASE UNCHANGED vars
    BY <1>12 DEF vars, Lookup!vars
<1>13. QED
    BY <1>1, <1>2, <1>3, <1>5, <1>6, <1>7, <1>8, <1>10, <1>11, <1>12 DEF Next

(***************************************************************************)
(* map_for_cpu, with its two caches and its loop, implements CpuLookup: it *)
(* answers with the first row that matches the CPU as it was when its      *)
(* number was last asked for after another one.                            *)
(***************************************************************************)
THEOREM Implements == Spec => ImplementsLookup
<1>1. Init => Lookup!Init
    BY DEF Init, Lookup!Init, MaybeIds
<1>2. QED
    BY <1>1, StepRefines, Invariance, PTL DEF Spec, ImplementsLookup, Lookup!Spec

-----------------------------------------------------------------------------
(* describe_metricgroup: the two orders of the names. *)

\* A set of natural numbers has a least one.
LEMMA LeastNumber ==
    ASSUME NEW S, S \subseteq Nat, S # {}
    PROVE  \E n \in S : \A m \in S : n <= m
<1>1. \E n \in S : \A m \in S : ~ (<<m, n>> \in OpToRel(<, Nat))
    BY WFMin, NatLessThanWellFounded
<1>2. PICK n \in S : \A m \in S : ~ (<<m, n>> \in OpToRel(<, Nat))
    BY <1>1
<1>3. \A m \in S : m < n => <<m, n>> \in OpToRel(<, Nat)
    BY DEF OpToRel
<1>4. ASSUME NEW m \in S
      PROVE  n <= m
    <2>1. n \in Nat /\ m \in Nat /\ ~ (m < n)
        BY <1>2, <1>3
    <2>2. QED
        BY <2>1
<1>5. QED
    BY <1>4

Texts(end) == Seq(Nat \ {end})

\* A text with its end character behind it.
LEMMA EndedText ==
    ASSUME NEW end \in Nat, NEW a \in Texts(end)
    PROVE  /\ Len(a) \in Nat
           /\ Append(a, end) \in Seq(Nat)
           /\ DOMAIN Append(a, end) = 1..(Len(a) + 1)
           /\ Append(a, end)[Len(a) + 1] = end
           /\ \A k \in 1..Len(a) : Append(a, end)[k] = a[k] /\ a[k] \in Nat \ {end}
           /\ \A k \in 1..(Len(a) + 1) : Append(a, end)[k] \in Nat
<1>1. a \in Seq(Nat)
    BY DEF Texts
<1>2. \A k \in 1..Len(a) : a[k] \in Nat \ {end}
    BY DEF Texts
<1>3. QED
    BY <1>1, <1>2

\* Two texts are in order one way or the other.
LEMMA OrderIsTotal ==
    ASSUME NEW end \in Nat, NEW a \in Texts(end), NEW b \in Texts(end), a # b
    PROVE  Before(a, b, end) \/ Before(b, a, end)
<1> DEFINE x == Append(a, end)
           y == Append(b, end)
           Differ == {k \in 1..(Len(a) + 1) : k <= Len(b) + 1 /\ x[k] # y[k]}
<1>1. Len(a) \in Nat /\ Len(b) \in Nat
    BY EndedText
<1>2. Differ # {}
    <2> SUFFICES ASSUME Differ = {}
                 PROVE  FALSE
        OBVIOUS
    <2>1. \A k \in 1..(Len(a) + 1) : k <= Len(b) + 1 => x[k] = y[k]
        OBVIOUS
    <2>2. Len(a) = Len(b)
        <3>1. ASSUME Len(a) < Len(b)
              PROVE  FALSE
            <4>1. Len(a) + 1 \in 1..(Len(a) + 1) /\ Len(a) + 1 \in 1..Len(b) /\ Len(a) + 1 <= Len(b) + 1
                BY <1>1, <3>1
            <4>2. x[Len(a) + 1] = end /\ y[Len(a) + 1] # end
                BY <4>1, EndedText
            <4>3. QED
                BY <2>1, <4>1, <4>2
        <3>2. ASSUME Len(b) < Len(a)
              PROVE  FALSE
            <4>1. Len(b) + 1 \in 1..(Len(a) + 1) /\ Len(b) + 1 \in 1..Len(a) /\ Len(b) + 1 <= Len(b) + 1
                BY <1>1, <3>2
            <4>2. y[Len(b) + 1] = end /\ x[Len(b) + 1] # end
                BY <4>1, EndedText
            <4>3. QED
                BY <2>1, <4>1, <4>2
        <3>3. QED
            BY <1>1, <3>1, <3>2
    <2>3. \A k \in 1..Len(a) : a[k] = b[k]
        <3> SUFFICES ASSUME NEW k \in 1..Len(a)
                     PROVE  a[k] = b[k]
            OBVIOUS
        <3>1. k \in 1..(Len(a) + 1) /\ k <= Len(b) + 1 /\ k \in 1..Len(b)
            BY <1>1, <2>2
        <3>2. x[k] = a[k] /\ y[k] = b[k]
            BY <3>1, EndedText
        <3>3. QED
            BY <2>1, <3>1, <3>2
    <2>4. a = b
        BY <2>2, <2>3 DEF Texts
    <2>5. QED
        BY <2>4
<1>3. PICK k \in Differ : \A m \in Differ : k <= m
    <2>1. Differ \subseteq Nat
        BY <1>1
    <2> HIDE DEF Differ
    <2>2. QED
        BY <1>2, <2>1, LeastNumber
<1>4. k \in 1..(Len(a) + 1) /\ k \in 1..(Len(b) + 1) /\ x[k] # y[k]
    BY <1>1, <1>3
<1>5. \A m \in 1..(k - 1) : x[m] = y[m]
    BY <1>1, <1>3, <1>4
<1>6. x[k] \in Nat /\ y[k] \in Nat
    BY <1>4, EndedText
<1>7. DOMAIN x = 1..(Len(a) + 1) /\ DOMAIN y = 1..(Len(b) + 1)
    BY EndedText
<1> HIDE DEF x, y
<1>8. x[k] < y[k] \/ y[k] < x[k]
    BY <1>4, <1>6
<1>9. QED
    BY <1>4, <1>5, <1>7, <1>8 DEF Before, x, y

\* The order of texts is an order.
LEMMA OrderIsStrict ==
    ASSUME NEW end \in Nat, NEW a \in Texts(end)
    PROVE  /\ ~ Before(a, a, end)
           /\ \A b, c \in Texts(end) :
                Before(a, b, end) /\ Before(b, c, end) => Before(a, c, end)
<1>1. ~ Before(a, a, end)
    <2>1. \A k \in 1..(Len(a) + 1) : Append(a, end)[k] \in Nat
        BY EndedText
    <2>2. DOMAIN Append(a, end) = 1..(Len(a) + 1)
        BY EndedText
    <2>3. QED
        BY <2>1, <2>2 DEF Before
<1>2. ASSUME NEW b \in Texts(end), NEW c \in Texts(end), Before(a, b, end), Before(b, c, end)
      PROVE  Before(a, c, end)
    <2> DEFINE x == Append(a, end)
               y == Append(b, end)
               z == Append(c, end)
    <2>1. /\ Len(a) \in Nat /\ Len(b) \in Nat /\ Len(c) \in Nat
          /\ DOMAIN x = 1..(Len(a) + 1) /\ DOMAIN y = 1..(Len(b) + 1) /\ DOMAIN z = 1..(Len(c) + 1)
          /\ \A k \in DOMAIN x : x[k] \in Nat
          /\ \A k \in DOMAIN y : y[k] \in Nat
          /\ \A k \in DOMAIN z : z[k] \in Nat
        BY EndedText
    <2>2. PICK p \in DOMAIN x \cap DOMAIN y : x[p] < y[p] /\ \A m \in 1..(p - 1) : x[m] = y[m]
        BY <1>2 DEF Before
    <2>3. PICK q \in DOMAIN y \cap DOMAIN z : y[q] < z[q] /\ \A m \in 1..(q - 1) : y[m] = z[m]
        BY <1>2 DEF Before
    <2> HIDE DEF x, y, z
    <2>4. p \in Nat /\ q \in Nat /\ p >= 1 /\ q >= 1
        BY <2>1
    <2>5. CASE p < q
        <3>1. p \in 1..(q - 1) /\ p \in DOMAIN z
            BY <2>1, <2>3, <2>4, <2>5
        <3>2. x[p] < z[p]
            BY <2>2, <2>3, <3>1
        <3>3. \A m \in 1..(p - 1) : x[m] = z[m]
            <4>1. \A m \in 1..(p - 1) : m \in 1..(q - 1)
                BY <2>4, <2>5
            <4>2. QED
                BY <2>2, <2>3, <4>1
        <3>4. QED
            BY <2>2, <3>1, <3>2, <3>3 DEF Before, x, z
    <2>6. CASE q <= p
        <3>1. q \in DOMAIN x
            BY <2>1, <2>2, <2>3, <2>4, <2>6
        <3>2. x[q] < z[q]
            <4>1. x[q] \in Nat /\ y[q] \in Nat /\ z[q] \in Nat
                BY <2>1, <2>3, <3>1
            <4>2. q < p => x[q] = y[q]
                BY <2>2, <2>4
            <4>3. q = p => x[q] < y[q]
                BY <2>2
            <4>4. QED
                BY <2>3, <2>4, <2>6, <4>1, <4>2, <4>3
        <3>3. \A m \in 1..(q - 1) : x[m] = z[m]
            <4>1. \A m \in 1..(q - 1) : m \in 1..(p - 1)
                BY <2>4, <2>6
            <4>2. QED
                BY <2>2, <2>3, <4>1
        <3>4. QED
            BY <2>3, <3>1, <3>2, <3>3 DEF Before, x, z
    <2>7. QED
        BY <2>4, <2>5, <2>6
<1>3. QED
    BY <1>1, <1>2

(***************************************************************************)
(* Names of which none continues another one below a backslash are in the  *)
(* order of Python when they are in that of strcmp.                        *)
(***************************************************************************)
LEMMA SameOrder ==
    ASSUME NEW a \in Names, NEW b \in Names, ~ Extends(a, b), StrcmpBefore(a, b)
    PROVE  PythonBefore(a, b)
<1> DEFINE x == Append(a, 0)
           y == Append(b, 0)
           u == Append(a, Backslash)
           v == Append(b, Backslash)
<1>1. a \in Texts(0) /\ b \in Texts(0) /\ a \in Texts(Backslash) /\ b \in Texts(Backslash)
    BY NamesAssumption DEF Texts
<1>2. /\ Len(a) \in Nat /\ Len(b) \in Nat
      /\ DOMAIN x = 1..(Len(a) + 1) /\ DOMAIN y = 1..(Len(b) + 1)
      /\ x[Len(a) + 1] = 0 /\ y[Len(b) + 1] = 0
      /\ \A k \in 1..Len(a) : x[k] = a[k] /\ a[k] \in Nat \ {0}
      /\ \A k \in 1..Len(b) : y[k] = b[k] /\ b[k] \in Nat \ {0}
    BY <1>1, EndedText
<1>3. /\ DOMAIN u = 1..(Len(a) + 1) /\ DOMAIN v = 1..(Len(b) + 1)
      /\ u[Len(a) + 1] = Backslash
      /\ \A k \in 1..Len(a) : u[k] = a[k]
      /\ \A k \in 1..Len(b) : v[k] = b[k] /\ b[k] \in Nat \ {Backslash}
    BY <1>1, BackslashAssumption, EndedText
<1>4. PICK p \in DOMAIN x \cap DOMAIN y : x[p] < y[p] /\ \A m \in 1..(p - 1) : x[m] = y[m]
    BY DEF StrcmpBefore, Before
<1> HIDE DEF x, y, u, v
<1>5. p \in 1..Len(b)
    <2>1. p # Len(b) + 1
        <3>1. \A k \in DOMAIN x : x[k] \in Nat
            BY <1>2
        <3>2. QED
            BY <1>2, <1>4, <3>1
    <2>2. QED
        BY <1>2, <1>4, <2>1
<1>6. \A m \in 1..(p - 1) : m \in 1..Len(a) /\ m \in 1..Len(b) /\ a[m] = b[m] /\ u[m] = v[m]
    <2> SUFFICES ASSUME NEW m \in 1..(p - 1)
                 PROVE  m \in 1..Len(a) /\ m \in 1..Len(b) /\ a[m] = b[m] /\ u[m] = v[m]
        OBVIOUS
    <2>1. m \in 1..Len(a) /\ m \in 1..Len(b)
        BY <1>2, <1>4, <1>5
    <2>2. QED
        BY <1>2, <1>3, <1>4, <2>1
<1>7. u[p] < v[p]
    <2>1. CASE p \in 1..Len(a)
        BY <1>2, <1>3, <1>4, <1>5, <2>1
    <2>2. CASE p = Len(a) + 1
        <3>1. Len(a) < Len(b) /\ a # b
            BY <1>2, <1>5, <2>2
        <3>2. SubSeq(a, 1, Len(a)) = SubSeq(b, 1, Len(a))
            <4>1. \A m \in 1..Len(a) : a[m] = b[m]
                BY <1>2, <1>6, <2>2
            <4>2. a \in Seq(Nat) /\ b \in Seq(Nat)
                BY NamesAssumption
            <4>3. QED
                BY <1>2, <3>1, <4>1, <4>2
        <3>3. IsStrictPrefix(a, b)
            BY <1>2, <3>1, <3>2 DEF IsStrictPrefix, IsPrefix
        <3>4. ~ (b[p] < Backslash)
            BY <2>2, <3>3 DEF Extends
        <3>5. b[p] \in Nat \ {Backslash} /\ v[p] = b[p] /\ u[p] = Backslash
            BY <1>3, <1>5, <2>2
        <3>6. QED
            BY <3>4, <3>5, BackslashAssumption
    <2>3. QED
        BY <1>2, <1>4, <2>1, <2>2
<1>8. p \in DOMAIN u \cap DOMAIN v
    BY <1>2, <1>3, <1>4
<1>9. QED
    BY <1>6, <1>7, <1>8 DEF PythonBefore, Before, u, v

-----------------------------------------------------------------------------
(* describe_metricgroup: the sorted rows. *)

BeforeIn(S, g) == {f \in S : PythonBefore(f, g)}
Place(S, g) == Cardinality(BeforeIn(S, g))

LEMMA GroupsAreNames ==
    ASSUME NEW S \in GroupSets
    PROVE  /\ S \subseteq Names /\ S \subseteq Texts(Backslash) /\ IsFiniteSet(S)
           /\ Cardinality(S) \in Nat
           /\ \A g \in S : IsFiniteSet(BeforeIn(S, g)) /\ Place(S, g) \in Nat
<1>1. S \subseteq Names /\ S \subseteq Texts(Backslash) /\ IsFiniteSet(S)
    BY GroupSetsAssumption, NamesAssumption DEF Texts
<1>2. \A g \in S : BeforeIn(S, g) \subseteq S
    BY DEF BeforeIn
<1>3. QED
    BY <1>1, <1>2, FS_Subset, FS_CardinalityType DEF Place

\* The place of a name counts the names in front of it.
LEMMA PlacesRise ==
    ASSUME NEW S \in GroupSets, NEW g \in S
    PROVE  /\ Place(S, g) < Cardinality(S)
           /\ \A h \in S : PythonBefore(g, h) => Place(S, g) < Place(S, h)
<1>1. ASSUME NEW T, T \subseteq S, BeforeIn(S, g) \cup {g} \subseteq T
      PROVE  Place(S, g) < Cardinality(T)
    <2>1. g \notin BeforeIn(S, g)
        BY GroupsAreNames, OrderIsStrict, BackslashAssumption DEF BeforeIn, PythonBefore
    <2>2. IsFiniteSet(BeforeIn(S, g)) /\ Place(S, g) \in Nat
        BY GroupsAreNames
    <2>3. IsFiniteSet(T) /\ Cardinality(T) \in Nat
        BY <1>1, GroupsAreNames, FS_Subset, FS_CardinalityType
    <2>4. Cardinality(BeforeIn(S, g) \cup {g}) = Place(S, g) + 1
        BY <2>1, <2>2, FS_AddElement DEF Place
    <2>5. Cardinality(BeforeIn(S, g) \cup {g}) <= Cardinality(T)
        BY <1>1, <2>3, FS_Subset
    <2>6. QED
        BY <2>2, <2>3, <2>4, <2>5
<1>2. Place(S, g) < Cardinality(S)
    BY <1>1 DEF BeforeIn
<1>3. ASSUME NEW h \in S, PythonBefore(g, h)
      PROVE  Place(S, g) < Place(S, h)
    <2>1. \A f \in S : PythonBefore(f, g) => PythonBefore(f, h)
        BY <1>3, GroupsAreNames, OrderIsStrict, BackslashAssumption DEF PythonBefore
    <2>2. BeforeIn(S, g) \cup {g} \subseteq BeforeIn(S, h) /\ BeforeIn(S, h) \subseteq S
        BY <1>3, <2>1 DEF BeforeIn
    <2>3. QED
        BY <1>1, <2>2 DEF Place
<1>4. QED
    BY <1>2, <1>3

\* No two names have the same place.
LEMMA PlacesDiffer ==
    ASSUME NEW S \in GroupSets, NEW g \in S, NEW h \in S, Place(S, g) = Place(S, h)
    PROVE  g = h
<1>1. Place(S, g) \in Nat
    BY GroupsAreNames
<1>2. ~ PythonBefore(g, h) /\ ~ PythonBefore(h, g)
    BY <1>1, PlacesRise
<1>3. QED
    BY <1>2, GroupsAreNames, OrderIsTotal, BackslashAssumption DEF PythonBefore

\* Each row holds the name whose place it is.
LEMMA RowsArePlaces ==
    ASSUME NEW S \in GroupSets
    PROVE  /\ \A k \in 0..(Cardinality(S) - 1) :
                Metricgroups(S)[k + 1] \in S /\ Place(S, Metricgroups(S)[k + 1]) = k
           /\ \A g \in S : Metricgroups(S)[Place(S, g) + 1] = g
<1> DEFINE n == Cardinality(S)
           place == [g \in S |-> Place(S, g)]
<1>1. n \in Nat /\ IsFiniteSet(S)
    BY GroupsAreNames
<1>2. \A g \in S : Place(S, g) \in 0..(n - 1)
    <2> SUFFICES ASSUME NEW g \in S
                 PROVE  Place(S, g) \in 0..(n - 1)
        OBVIOUS
    <2>1. Place(S, g) < n /\ Place(S, g) \in Nat
        BY PlacesRise, GroupsAreNames
    <2> HIDE DEF n
    <2>2. QED
        BY <1>1, <2>1
<1>3. \A k \in 0..(n - 1) : \E g \in S : Place(S, g) = k
    <2>1. place \in Injection(S, 0..(n - 1))
        BY <1>2, PlacesDiffer DEF Injection, IsInjective
    <2>2. IsFiniteSet(0..(n - 1)) /\ Cardinality(0..(n - 1)) = n
        <3> HIDE DEF n
        <3>1. 0 \in Int /\ n - 1 \in Int /\ (IF 0 > n - 1 THEN 0 ELSE n - 1 - 0 + 1) = n
            BY <1>1
        <3>2. QED
            BY <3>1, FS_Interval
    <2> HIDE DEF place
    <2>3. place \in Surjection(S, 0..(n - 1))
        BY <2>1, <2>2, FS_Injection
    <2>4. QED
        BY <2>3 DEF Surjection, place
<1>4. ASSUME NEW k \in 0..(n - 1)
      PROVE  Metricgroups(S)[k + 1] \in S /\ Place(S, Metricgroups(S)[k + 1]) = k
    <2>1. k + 1 \in 1..n /\ k + 1 - 1 = k
        BY <1>1
    <2>2. \A m \in 1..n : Metricgroups(S)[m] = CHOOSE g \in S : Cardinality({f \in S : PythonBefore(f, g)}) = m - 1
        BY DEF Metricgroups
    <2>3. \A m \in 1..n : m - 1 \in 0..(n - 1)
        BY <1>1
    <2>4. \A m \in 1..n : \E g \in S : Cardinality({f \in S : PythonBefore(f, g)}) = m - 1
        BY <1>3, <2>3 DEF Place, BeforeIn
    <2>5. \A m \in 1..n : Metricgroups(S)[m] \in S /\ Cardinality({f \in S : PythonBefore(f, Metricgroups(S)[m])}) = m - 1
        <3> SUFFICES ASSUME NEW m \in 1..n
                     PROVE  /\ Metricgroups(S)[m] \in S
                            /\ Cardinality({f \in S : PythonBefore(f, Metricgroups(S)[m])}) = m - 1
            OBVIOUS
        <3> HIDE DEF n
        <3>1. QED
            BY <2>2, <2>4, Zenon
    <2>6. \A m \in 1..n : Metricgroups(S)[m] \in S /\ Place(S, Metricgroups(S)[m]) = m - 1
        BY <2>5 DEF Place, BeforeIn
    <2>7. QED
        BY <2>1, <2>6
<1>5. ASSUME NEW g \in S
      PROVE  Metricgroups(S)[Place(S, g) + 1] = g
    <2>1. Metricgroups(S)[Place(S, g) + 1] \in S
          /\ Place(S, Metricgroups(S)[Place(S, g) + 1]) = Place(S, g)
        BY <1>2, <1>4
    <2>2. QED
        BY <2>1, PlacesDiffer
<1>6. QED
    BY <1>4, <1>5

-----------------------------------------------------------------------------
(* describe_metricgroup: the search. *)

NoneExtends == \A a, b \in groups : ~ Extends(a, b)

\* The interval lies in the table, and where the orders agree the group that is
\* asked for has its place in it.
GroupTyped ==
    /\ groups \in GroupSets
    /\ table = Metricgroups(groups)
    /\ group \in Names
    /\ low \in Nat /\ high \in Int /\ high < Cardinality(groups)
    /\ searchPc \in {"search", "returned"}

PlaceInInterval ==
    searchPc = "search" /\ NoneExtends /\ group \in groups => Place(groups, group) \in low..high

GroupInv == GroupTyped /\ PlaceInInterval /\ FoundUnlessExtended

\* The row in the middle is one of the table.
LEMMA MiddleRow ==
    ASSUME GroupTyped, low <= high
    PROVE  /\ mid \in low..high /\ mid \in Nat
           /\ mgroup \in groups /\ mgroup \in Names /\ Place(groups, mgroup) = mid
<1>1. mid \in low..high /\ mid \in Nat /\ mid \in 0..(Cardinality(groups) - 1)
    <2>1. Cardinality(groups) \in Nat
        BY GroupsAreNames DEF GroupTyped
    <2>2. QED
        BY <2>1 DEF GroupTyped, mid
<1>2. mgroup \in groups /\ Place(groups, mgroup) = mid
    BY <1>1, RowsArePlaces DEF GroupTyped, mgroup
<1>3. QED
    BY <1>1, <1>2, GroupsAreNames DEF GroupTyped

LEMMA GroupInvInit == GroupInit => GroupInv
<1> SUFFICES ASSUME GroupInit
             PROVE  GroupInv
    OBVIOUS
<1>1. Cardinality(groups) \in Nat
    BY GroupsAreNames DEF GroupInit
<1>2. GroupTyped
    BY <1>1 DEF GroupInit, GroupTyped
<1>3. PlaceInInterval
    <2> SUFFICES ASSUME group \in groups
                 PROVE  Place(groups, group) \in low..high
        BY DEF PlaceInInterval
    <2>1. Place(groups, group) < Cardinality(groups) /\ Place(groups, group) \in Nat
        BY PlacesRise, GroupsAreNames DEF GroupInit
    <2>2. QED
        BY <1>1, <2>1 DEF GroupInit
<1>4. QED
    BY <1>2, <1>3 DEF GroupInit, GroupInv, FoundUnlessExtended

\* A comparison that leaves a half of the table leaves the half of the group.
LEMMA HalfIsRight ==
    ASSUME GroupInv, searchPc = "search", low <= high, NoneExtends, group \in groups
    PROVE  /\ StrcmpBefore(mgroup, group) => Place(groups, group) \in (mid + 1)..high
           /\ StrcmpBefore(group, mgroup) => Place(groups, group) \in low..(mid - 1)
<1>1. mgroup \in groups /\ mgroup \in Names /\ group \in Names /\ Place(groups, mgroup) = mid /\ mid \in Nat
    BY MiddleRow DEF GroupInv, GroupTyped
<1>2. Place(groups, group) \in low..high /\ Place(groups, group) \in Nat /\ high \in Int /\ low \in Nat
    BY GroupsAreNames DEF GroupInv, GroupTyped, PlaceInInterval
<1>3. ASSUME StrcmpBefore(mgroup, group)
      PROVE  mid < Place(groups, group)
    <2>1. PythonBefore(mgroup, group)
        BY <1>1, <1>3, SameOrder DEF NoneExtends
    <2>2. QED
        BY <1>1, <2>1, PlacesRise DEF GroupInv, GroupTyped
<1>4. ASSUME StrcmpBefore(group, mgroup)
      PROVE  Place(groups, group) < mid
    <2>1. PythonBefore(group, mgroup)
        BY <1>1, <1>4, SameOrder DEF NoneExtends
    <2>2. QED
        BY <1>1, <2>1, PlacesRise DEF GroupInv, GroupTyped
<1>5. QED
    BY <1>1, <1>2, <1>3, <1>4

LEMMA GroupInvStep == GroupInv /\ [GroupNext]_groupVars => GroupInv'
<1> SUFFICES ASSUME GroupInv, [GroupNext]_groupVars
             PROVE  GroupInv'
    OBVIOUS
<1>1. low \in Nat /\ high \in Int /\ Cardinality(groups) \in Nat
    BY GroupsAreNames DEF GroupInv, GroupTyped
<1>2. CASE Hit
    <2>1. mgroup \in groups /\ mgroup = group
        BY <1>2, MiddleRow DEF Hit, GroupInv
    <2>2. QED
        BY <1>2, <2>1 DEF Hit, Return, GroupInv, GroupTyped, PlaceInInterval, FoundUnlessExtended, NoneExtends
<1>3. CASE GoRight
    <2>1. mid \in Nat
        BY <1>3, MiddleRow DEF GoRight, GroupInv
    <2>2. GroupTyped'
        BY <1>3, <2>1 DEF GoRight, GroupInv, GroupTyped
    <2>3. PlaceInInterval'
        <3>1. NoneExtends' <=> NoneExtends
            BY <1>3 DEF GoRight, NoneExtends
        <3>2. Place(groups, group)' = Place(groups, group)
            BY <1>3 DEF GoRight, Place, BeforeIn
        <3>3. QED
            BY <1>3, <3>1, <3>2, HalfIsRight DEF GoRight, PlaceInInterval
    <2>4. QED
        BY <1>3, <2>2, <2>3 DEF GoRight, GroupInv, FoundUnlessExtended
<1>4. CASE GoLeft
    <2>1. mid \in low..high /\ mid \in Nat
        BY <1>4, MiddleRow DEF GoLeft, GroupInv
    <2>2. GroupTyped'
        BY <1>1, <1>4, <2>1 DEF GoLeft, GroupInv, GroupTyped
    <2>3. PlaceInInterval'
        <3>1. NoneExtends' <=> NoneExtends
            BY <1>4 DEF GoLeft, NoneExtends
        <3>2. Place(groups, group)' = Place(groups, group)
            BY <1>4 DEF GoLeft, Place, BeforeIn
        <3>3. QED
            BY <1>4, <3>1, <3>2, HalfIsRight DEF GoLeft, PlaceInInterval
    <2>4. QED
        BY <1>4, <2>2, <2>3 DEF GoLeft, GroupInv, FoundUnlessExtended
<1>5. CASE Miss
    <2>1. ~ (NoneExtends /\ group \in groups)
        BY <1>1, <1>5 DEF Miss, GroupInv, PlaceInInterval
    <2>2. QED
        BY <1>5, <2>1 DEF Miss, Return, GroupInv, GroupTyped, PlaceInInterval, FoundUnlessExtended, NoneExtends
<1>6. CASE UNCHANGED groupVars
    BY <1>6 DEF groupVars, GroupInv, GroupTyped, PlaceInInterval, NoneExtends, Place, BeforeIn, FoundUnlessExtended
<1>7. QED
    BY <1>2, <1>3, <1>4, <1>5, <1>6 DEF GroupNext

LEMMA GroupInvariance == GroupSpec => []GroupInv
<1>1. QED
    BY GroupInvInit, GroupInvStep, PTL DEF GroupSpec

(***************************************************************************)
(* While describe_metricgroup searches a table without the extensions that *)
(* the two orders disagree on, a group that is defined lies between low    *)
(* and high, for any set of names.                                         *)
(***************************************************************************)
THEOREM AlwaysInInterval == GroupSpec => []StaysInInterval
<1>1. GroupInv => StaysInInterval
    <2> SUFFICES ASSUME GroupInv, searchPc = "search", NoneExtends, group \in groups
                 PROVE  \E n \in low..high : table[n + 1] = group
        BY DEF StaysInInterval, NoneExtends
    <2>1. Place(groups, group) \in low..high
        BY DEF GroupInv, PlaceInInterval
    <2>2. table[Place(groups, group) + 1] = group
        BY RowsArePlaces DEF GroupInv, GroupTyped
    <2>3. QED
        BY <2>1, <2>2
<1>2. QED
    BY <1>1, GroupInvariance, PTL

(***************************************************************************)
(* describe_metricgroup finds no other group than the one asked for, and   *)
(* each defined one, unless a name is another one with a character below a *)
(* backslash behind it.                                                    *)
(***************************************************************************)
THEOREM FoundAlwaysUnlessExtended == GroupSpec => []FoundUnlessExtended
<1>1. GroupInv => FoundUnlessExtended
    BY DEF GroupInv
<1>2. QED
    BY <1>1, GroupInvariance, PTL
=============================================================================
