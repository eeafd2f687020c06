--------------------------- MODULE EventAttrProofs ---------------------------
(***************************************************************************)
(* Theorems about the values of a perf_event_attr: about the loop of       *)
(* apply_range_list_to_val, for every word width, every list of ranges,    *)
(* every value and every previous content of the member; and about         *)
(* gen_attr_for_event, which calls it, for every set of formats, events    *)
(* and type numbers, and any number of changes of the device.              *)
(***************************************************************************)
EXTENDS EventAttr, ApplyRanges, TLAPS, FiniteSetTheorems, WellFoundedInduction

-----------------------------------------------------------------------------
(* Words and range lists of any width. *)

(***************************************************************************)
(* The numbers of a well-formed range.                                     *)
(***************************************************************************)
LEMMA RangeNumbers ==
    ASSUME NEW r \in Ranges
    PROVE  /\ W \in Nat \ {0}
           /\ r.start \in Nat /\ r.end \in Nat
           /\ r.start <= r.end /\ r.end < W
           /\ RangeLen(r) \in 1..W
           /\ RangeBits(r) \subseteq Bits
BY WidthAssumption DEF Ranges, Bits, RangeLen, RangeBits

(***************************************************************************)
(* The mask computed with two shifts is exactly the set of positions of    *)
(* the range.                                                              *)
(***************************************************************************)
LEMMA MaskOfRange ==
    ASSUME NEW r \in Ranges
    PROVE  MaskOf(r) = RangeBits(r)
<1>1. ShiftRight(Bits, W - RangeLen(r)) = 0..(RangeLen(r) - 1)
    BY RangeNumbers DEF ShiftRight, Bits
<1>2. QED
    BY <1>1, RangeNumbers DEF MaskOf, ShiftLeft, RangeBits, RangeLen, Bits

(***************************************************************************)
(* What one iteration does to one position of the member.                  *)
(***************************************************************************)
LEMMA ApplyRangeBit ==
    ASSUME NEW r \in Ranges, NEW c, NEW t, NEW p \in Bits
    PROVE  p \in ApplyRange(c, t, r)
             <=> IF p \in RangeBits(r) THEN p - r.start \in t ELSE p \in c
BY MaskOfRange DEF ApplyRange, ShiftLeft

(***************************************************************************)
(* Range n + 1 is dealt RangeLen bits more than the ranges before it.      *)
(***************************************************************************)
LEMMA DealtStep ==
    ASSUME NEW l \in Seq(Ranges), NEW n \in 0..(Len(l) - 1)
    PROVE  /\ Cardinality(Dealt(l, n)) \in Nat
           /\ Cardinality(Dealt(l, n + 1)) = Cardinality(Dealt(l, n)) + RangeLen(l[n + 1])
           /\ Dealt(l, n + 1) = Dealt(l, n) \cup ({n + 1} \X RangeBits(l[n + 1]))
<1> DEFINE fresh == {n + 1} \X RangeBits(l[n + 1])
<1>1. /\ W \in Nat \ {0}
      /\ n \in Nat /\ n + 1 \in 1..Len(l)
      /\ \A i \in 1..Len(l) : l[i] \in Ranges
    BY WidthAssumption
<1>2. /\ l[n + 1].start \in Int /\ l[n + 1].end \in Int
      /\ l[n + 1].start <= l[n + 1].end
      /\ RangeLen(l[n + 1]) \in Nat
    BY <1>1, RangeNumbers
<1>3. RangeBits(l[n + 1]) \subseteq Bits
    BY <1>1, RangeNumbers
<1>4. IsFiniteSet(Dealt(l, n)) /\ Cardinality(Dealt(l, n)) \in Nat
    <2>1. IsFiniteSet(1..n) /\ IsFiniteSet(Bits)
        BY <1>1, FS_Interval DEF Bits
    <2>2. IsFiniteSet((1..n) \X Bits)
        BY <2>1, FS_Product
    <2>3. Dealt(l, n) \in SUBSET ((1..n) \X Bits)
        BY DEF Dealt
    <2>4. QED
        BY <2>2, <2>3, FS_Subset, FS_CardinalityType
<1>5. IsFiniteSet(fresh) /\ Cardinality(fresh) = RangeLen(l[n + 1])
    <2>1. /\ IsFiniteSet(RangeBits(l[n + 1]))
          /\ Cardinality(RangeBits(l[n + 1])) = RangeLen(l[n + 1])
        <3>1. ASSUME NEW a \in Int, NEW b \in Int, a <= b
              PROVE  IsFiniteSet(a..b) /\ Cardinality(a..b) = b - a + 1
            BY <3>1, FS_Interval
        <3>2. QED
            BY <1>2, <3>1 DEF RangeBits, RangeLen
    <2>2. IsFiniteSet({n + 1}) /\ Cardinality({n + 1}) = 1
        BY FS_Singleton
    <2>3. IsFiniteSet(fresh) /\ Cardinality(fresh) = 1 * RangeLen(l[n + 1])
        BY <2>1, <2>2, FS_Product
    <2>4. QED
        BY <2>3, <1>2
<1>6. Dealt(l, n + 1) = Dealt(l, n) \cup fresh
    <2>1. 1..(n + 1) = (1..n) \cup {n + 1}
        BY <1>1
    <2>2. QED
        BY <2>1, <1>3 DEF Dealt
<1>7. Dealt(l, n) \cap fresh = {}
    BY <1>1 DEF Dealt
<1> HIDE DEF fresh
<1>8. Cardinality(Dealt(l, n) \cup fresh)
        = Cardinality(Dealt(l, n)) + Cardinality(fresh) - Cardinality(Dealt(l, n) \cap fresh)
    BY <1>4, <1>5, FS_Union
<1>9. Cardinality(Dealt(l, n) \cap fresh) = 0
    BY <1>7, FS_EmptySet
<1>10. Cardinality(Dealt(l, n + 1)) = Cardinality(Dealt(l, n)) + RangeLen(l[n + 1]) - 0
    BY <1>5, <1>6, <1>8, <1>9, Zenon
<1>11. ASSUME NEW a \in Nat, NEW b \in Nat
       PROVE  a + b - 0 = a + b
    OBVIOUS
<1>12. Cardinality(Dealt(l, n + 1)) = Cardinality(Dealt(l, n)) + RangeLen(l[n + 1])
    BY <1>2, <1>4, <1>10, <1>11, Zenon
<1>13. QED
    BY <1>4, <1>6, <1>12 DEF fresh

(***************************************************************************)
(* Before the first iteration no bit has been dealt.                       *)
(***************************************************************************)
LEMMA NothingDealtAtFirst ==
    ASSUME NEW l
    PROVE  Cardinality(Dealt(l, 0)) = 0
<1>1. Dealt(l, 0) = {}
    BY DEF Dealt
<1>2. QED
    BY <1>1, FS_EmptySet

(***************************************************************************)
(* Two shifts in a row are one shift by the sum.                           *)
(***************************************************************************)
LEMMA ShiftRightTwice ==
    ASSUME NEW x \in Words, NEW j \in Nat, NEW k \in Nat
    PROVE  ShiftRight(ShiftRight(x, j), k) = ShiftRight(x, j + k)
BY WidthAssumption DEF ShiftRight, Words, Bits

(***************************************************************************)
(* A shift by nothing changes nothing.                                     *)
(***************************************************************************)
LEMMA ShiftRightZero ==
    ASSUME NEW x \in Words
    PROVE  ShiftRight(x, 0) = x
<1>1. \A b \in Bits : b + 0 = b
    BY WidthAssumption DEF Bits
<1>2. QED
    BY <1>1 DEF ShiftRight, Words

(***************************************************************************)
(* Induction up to a bound, as a fact about sets of numbers.               *)
(***************************************************************************)
LEMMA CountingUp ==
    ASSUME NEW n \in Nat, NEW S, 0 \in S,
           \A k \in 0..(n - 1) : k \in S => k + 1 \in S
    PROVE  \A k \in 0..n : k \in S
<1> DEFINE Missing == {k \in 0..n : k \notin S}
<1>1. ASSUME Missing # {}
      PROVE  FALSE
    <2>1. Missing \subseteq Nat
        OBVIOUS
    <2>2. PICK m \in Missing : \A k \in Missing : ~ (<<k, m>> \in OpToRel(<, Nat))
        BY <1>1, <2>1, WFMin, NatLessThanWellFounded
    <2>3. m \in Nat /\ m \in 0..n /\ m # 0 /\ m \notin S
        OBVIOUS
    <2>4. m - 1 \in 0..(n - 1) /\ m - 1 \in 0..n /\ m - 1 \in Nat /\ m - 1 + 1 = m /\ m - 1 < m
        BY <2>3
    <2>5. m - 1 \notin S
        BY <2>3, <2>4
    <2>6. <<m - 1, m>> \in OpToRel(<, Nat)
        BY <2>3, <2>4 DEF OpToRel
    <2>7. QED
        BY <2>2, <2>4, <2>5, <2>6
<1>2. QED
    BY <1>1

(***************************************************************************)
(* The ranges take the bits of the value without a gap: the first n of     *)
(* them are dealt bits 0, 1, ... up to the number of their positions.      *)
(***************************************************************************)
SourceBits(l, n) == {SourceBit(l, pr[1], pr[2]) : pr \in Dealt(l, n)}

LEMMA DealtWithoutGap ==
    ASSUME NEW l \in Seq(Ranges)
    PROVE  \A n \in 0..Len(l) : /\ Cardinality(Dealt(l, n)) \in Nat
                                /\ SourceBits(l, n) = 0..(Cardinality(Dealt(l, n)) - 1)
<1> DEFINE C(n) == Cardinality(Dealt(l, n))
           S == {n \in 0..Len(l) : C(n) \in Nat /\ SourceBits(l, n) = 0..(C(n) - 1)}
<1>1. Len(l) \in Nat
    OBVIOUS
<1>2. 0 \in S
    <2>1. Dealt(l, 0) = {}
        BY DEF Dealt
    <2>2. SourceBits(l, 0) = {}
        BY <2>1 DEF SourceBits
    <2>3. C(0) = 0
        BY NothingDealtAtFirst
    <2>4. 0..(0 - 1) = {} /\ 0 \in Nat
        OBVIOUS
    <2>5. C(0) \in Nat /\ SourceBits(l, 0) = 0..(C(0) - 1)
        BY <2>2, <2>3, <2>4, Zenon
    <2>6. 0 \in 0..Len(l)
        BY <1>1
    <2>7. QED
        BY <2>5, <2>6, Zenon
<1>3. ASSUME NEW n \in 0..(Len(l) - 1), n \in S
      PROVE  n + 1 \in S
    <2> DEFINE r == l[n + 1]
    <2>1. n + 1 \in 1..Len(l) /\ n + 1 \in 0..Len(l) /\ n + 1 - 1 = n /\ n \in Nat
        BY <1>1
    <2>2. r \in Ranges
        BY <2>1
    <2>3. r.start \in Nat /\ r.end \in Nat /\ r.start <= r.end
          /\ RangeLen(r) = r.end - r.start + 1
        BY <2>2, RangeNumbers DEF RangeLen
    <2>4. /\ C(n) \in Nat
          /\ C(n + 1) = C(n) + RangeLen(r)
          /\ Dealt(l, n + 1) = Dealt(l, n) \cup ({n + 1} \X RangeBits(r))
        BY DealtStep
    <2>5. SourceBits(l, n + 1)
            = SourceBits(l, n) \cup {SourceBit(l, n + 1, p) : p \in RangeBits(r)}
        <3>1. \A pr \in {n + 1} \X RangeBits(r) : pr[1] = n + 1 /\ pr[2] \in RangeBits(r)
            OBVIOUS
        <3>2. \A p \in RangeBits(r) :
                /\ <<n + 1, p>> \in {n + 1} \X RangeBits(r)
                /\ <<n + 1, p>>[1] = n + 1 /\ <<n + 1, p>>[2] = p
            OBVIOUS
        <3>3. {SourceBit(l, pr[1], pr[2]) : pr \in {n + 1} \X RangeBits(r)}
                = {SourceBit(l, n + 1, p) : p \in RangeBits(r)}
            BY <3>1, <3>2, Zenon
        <3>4. SourceBits(l, n + 1)
                = SourceBits(l, n)
                  \cup {SourceBit(l, pr[1], pr[2]) : pr \in {n + 1} \X RangeBits(r)}
            BY <2>4, Zenon DEF SourceBits
        <3>5. QED
            BY <3>3, <3>4, Zenon
    <2>6. \A p : SourceBit(l, n + 1, p) = C(n) + p - r.start
        BY <2>1 DEF SourceBit
    <2> HIDE DEF C, r
    <2>7. {SourceBit(l, n + 1, p) : p \in RangeBits(r)} = C(n)..(C(n) + RangeLen(r) - 1)
        <3>1. \A p \in RangeBits(r) : C(n) + p - r.start \in C(n)..(C(n) + RangeLen(r) - 1)
            BY <2>3, <2>4 DEF RangeBits
        <3>2. ASSUME NEW b \in C(n)..(C(n) + RangeLen(r) - 1)
              PROVE  \E p \in RangeBits(r) : b = C(n) + p - r.start
            <4>1. b - C(n) + r.start \in RangeBits(r)
                BY <2>3, <2>4 DEF RangeBits
            <4>2. b = C(n) + (b - C(n) + r.start) - r.start
                BY <2>3, <2>4
            <4>3. QED
                BY <4>1, <4>2
        <3>3. QED
            BY <2>6, <3>1, <3>2
    <2>8. SourceBits(l, n) = 0..(C(n) - 1)
        BY <1>3
    <2>9. 0..(C(n) - 1) \cup C(n)..(C(n) + RangeLen(r) - 1) = 0..(C(n + 1) - 1)
        BY <2>3, <2>4
    <2>10. C(n + 1) \in Nat
        BY <2>3, <2>4
    <2>11. QED
        BY <2>1, <2>5, <2>7, <2>8, <2>9, <2>10
<1> HIDE DEF S
<1>4. \A n \in 0..Len(l) : n \in S
    BY <1>1, <1>2, <1>3, CountingUp
<1>5. QED
    BY <1>4 DEF S

(***************************************************************************)
(* A word that holds at each covered position the bit of the value dealt   *)
(* to it holds the whole value, cut to the number of positions.            *)
(***************************************************************************)
LEMMA ValueCollected ==
    ASSUME NEW l \in Seq(Ranges), NEW v \in Words, NEW c,
           \A i \in 1..Len(l) : \A p \in RangeBits(l[i]) :
                p \in c <=> SourceBit(l, i, p) \in v
    PROVE  {SourceBit(l, pr[1], pr[2]) : pr \in {q \in Dealt(l, Len(l)) : q[2] \in c}}
           = {b \in v : b < Cardinality(Dealt(l, Len(l)))}
<1> DEFINE C == Cardinality(Dealt(l, Len(l)))
<1>1. Len(l) \in Nat /\ Len(l) \in 0..Len(l)
    OBVIOUS
<1>2. C \in Nat /\ SourceBits(l, Len(l)) = 0..(C - 1)
    BY <1>1, DealtWithoutGap
<1>3. \A pr \in Dealt(l, Len(l)) : pr[2] \in c <=> SourceBit(l, pr[1], pr[2]) \in v
    BY DEF Dealt
<1>4. v \subseteq Nat
    BY WidthAssumption DEF Words, Bits
<1> HIDE DEF C
<1>5. ASSUME NEW pr \in Dealt(l, Len(l)), pr[2] \in c
      PROVE  SourceBit(l, pr[1], pr[2]) \in {b \in v : b < C}
    <2>1. SourceBit(l, pr[1], pr[2]) \in v /\ SourceBit(l, pr[1], pr[2]) \in 0..(C - 1)
        BY <1>2, <1>3, <1>5 DEF SourceBits
    <2>2. QED
        BY <1>2, <2>1
<1>6. ASSUME NEW b \in v, b < C
      PROVE  \E pr \in Dealt(l, Len(l)) : pr[2] \in c /\ b = SourceBit(l, pr[1], pr[2])
    <2>1. b \in 0..(C - 1)
        BY <1>2, <1>4, <1>6
    <2>2. PICK pr \in Dealt(l, Len(l)) : b = SourceBit(l, pr[1], pr[2])
        BY <1>2, <2>1 DEF SourceBits
    <2>3. QED
        BY <1>3, <2>2
<1>7. {SourceBit(l, pr[1], pr[2]) : pr \in {q \in Dealt(l, Len(l)) : q[2] \in c}}
      = {b \in v : b < C}
    BY <1>5, <1>6
<1>8. QED
    BY <1>7 DEF C

(***************************************************************************)
(* Among disjoint ranges each one has the last word on its positions.      *)
(***************************************************************************)
LEMMA DisjointDecides ==
    ASSUME NEW l \in Seq(Ranges), Disjoint(l),
           NEW i \in 1..Len(l), NEW p \in RangeBits(l[i])
    PROVE  p \in Bits /\ Decides(l, Len(l), i, p)
<1>1. l[i] \in Ranges /\ DOMAIN l = 1..Len(l)
    OBVIOUS
<1>2. p \in Bits
    BY <1>1, RangeNumbers
<1>3. ASSUME NEW j \in (i + 1)..Len(l)
      PROVE  p \notin RangeBits(l[j])
    <2>1. j \in 1..Len(l) /\ i # j
        OBVIOUS
    <2>2. RangeBits(l[i]) \cap RangeBits(l[j]) = {}
        BY <1>1, <2>1 DEF Disjoint
    <2>3. QED
        BY <2>2
<1>4. QED
    BY <1>2, <1>3 DEF Decides, Covers

(***************************************************************************)
(* Disjoint ranges leave no shift undefined: none but a lone one can take  *)
(* the whole word.                                                         *)
(***************************************************************************)
LEMMA DisjointShiftsDefined ==
    ASSUME NEW l \in Seq(Ranges), Disjoint(l)
    PROVE  ShiftsDefined(l)
<1> SUFFICES ASSUME NEW i \in 1..(Len(l) - 1), ~ (RangeLen(l[i]) < W)
             PROVE  FALSE
    BY DEF ShiftsDefined
<1>1. /\ i \in 1..Len(l) /\ i + 1 \in 1..Len(l) /\ i # i + 1 /\ DOMAIN l = 1..Len(l)
    OBVIOUS
<1>2. l[i] \in Ranges /\ l[i + 1] \in Ranges
    BY <1>1
<1>3. RangeBits(l[i]) = Bits
    BY <1>2, RangeNumbers DEF RangeLen, RangeBits, Bits
<1>4. l[i + 1].start \in RangeBits(l[i + 1]) /\ RangeBits(l[i + 1]) \subseteq Bits
    BY <1>2, RangeNumbers DEF RangeBits
<1>5. RangeBits(l[i]) \cap RangeBits(l[i + 1]) = {}
    BY <1>1 DEF Disjoint
<1>6. QED
    BY <1>3, <1>4, <1>5

-----------------------------------------------------------------------------
(* apply_range_list_to_val: the loop. *)

\* The member and the rest of the value are words as the lemmas above need them.
LEMMA TypeCorrect == LoopSpec => []TypeOK
<1>1. LoopInit => TypeOK
    BY ListsAssumption DEF LoopInit, TypeOK
<1>2. TypeOK /\ [ApplyNextRange]_loopVars => TypeOK'
    <2> SUFFICES ASSUME TypeOK, [ApplyNextRange]_loopVars
                 PROVE  TypeOK'
        OBVIOUS
    <2>1. CASE ApplyNextRange
        <3>1. list \in Seq(Ranges) /\ rangeNr + 1 \in 1..Len(list)
            BY <2>1, ListsAssumption DEF TypeOK, ApplyNextRange
        <3>2. list[rangeNr + 1] \in Ranges
            BY <3>1
        <3>3. config' \in Words
            BY <2>1, <3>2, MaskOfRange DEF TypeOK, ApplyNextRange, ApplyRange, ShiftLeft, Words
        <3>4. toApply' \in Words
            BY <2>1 DEF TypeOK, ApplyNextRange, ShiftRightOutcomes, ShiftRight, Words
        <3>5. QED
            BY <2>1, <3>1, <3>3, <3>4 DEF TypeOK, ApplyNextRange, loopArgs
    <2>2. CASE UNCHANGED loopVars
        BY <2>2 DEF TypeOK, loopVars
    <2>3. QED
        BY <2>1, <2>2
<1>3. QED
    BY <1>1, <1>2, PTL DEF LoopSpec

(***************************************************************************)
(* What the loop keeps between two iterations: the bits not dealt out yet  *)
(* are the value shifted by the number of bits dealt out.  LastRangeDecides*)
(* is not inductive without it.                                            *)
(***************************************************************************)
RestIsShiftedValue ==
    ShiftsDefined(list) /\ rangeNr < Len(list) =>
        toApply = ShiftRight(value, Cardinality(Dealt(list, rangeNr)))

LoopInv ==
    /\ TypeOK
    /\ OutsideUntouched
    /\ LastRangeDecides
    /\ RestIsShiftedValue

\* Before the first range the strengthened invariant holds.
LEMMA LoopInvInit == LoopInit => LoopInv
<1> SUFFICES ASSUME LoopInit
             PROVE  LoopInv
    OBVIOUS
<1>1. TypeOK /\ list \in Seq(Ranges)
    BY ListsAssumption DEF LoopInit, TypeOK
<1>2. OutsideUntouched
    BY DEF LoopInit, OutsideUntouched
<1>3. LastRangeDecides
    BY <1>1 DEF LoopInit, LastRangeDecides
<1>4. RestIsShiftedValue
    <2>1. Cardinality(Dealt(list, rangeNr)) = 0
        BY NothingDealtAtFirst DEF LoopInit
    <2>2. value = ShiftRight(value, 0)
        BY <1>1, ShiftRightZero DEF TypeOK
    <2>3. QED
        BY <2>1, <2>2 DEF LoopInit, RestIsShiftedValue
<1>5. QED
    BY <1>1, <1>2, <1>3, <1>4 DEF LoopInv

\* One iteration of the loop keeps the strengthened invariant.
LEMMA LoopInvStep == LoopInv /\ TypeOK' /\ ApplyNextRange => LoopInv'
<1> SUFFICES ASSUME LoopInv, TypeOK', ApplyNextRange
             PROVE  LoopInv'
    OBVIOUS
<1> DEFINE n == rangeNr
           r == list[n + 1]
<1>1. /\ list \in Seq(Ranges)
      /\ n \in 0..(Len(list) - 1)
      /\ n + 1 \in 1..Len(list)
      /\ rangeNr' = n + 1
      /\ list' = list /\ value' = value /\ old' = old
      /\ value \in Words /\ config \in Words /\ toApply \in Words
    BY ListsAssumption DEF LoopInv, TypeOK, ApplyNextRange, loopArgs
<1>2. r \in Ranges
    BY <1>1
<1>3. \A p \in Bits :
        p \in config' <=> IF p \in RangeBits(r) THEN p - r.start \in toApply ELSE p \in config
    BY <1>1, <1>2, ApplyRangeBit DEF ApplyNextRange
<1>4. OutsideUntouched'
    <2> SUFFICES ASSUME NEW p \in Bits, p \notin Covered(list, n + 1)
                 PROVE  p \in config' <=> p \in old
        BY <1>1 DEF OutsideUntouched, Covered, Covers
    <2>1. p \notin Covered(list, n) /\ p \notin RangeBits(r)
        BY <1>1 DEF Covered, Covers
    <2>2. QED
        BY <1>3, <2>1 DEF LoopInv, OutsideUntouched
<1>5. LastRangeDecides'
    <2> SUFFICES ASSUME ShiftsDefined(list), NEW p \in Bits, NEW i \in 1..(n + 1),
                        Decides(list, n + 1, i, p)
                 PROVE  p \in config' <=> SourceBit(list, i, p) \in value
        BY <1>1 DEF LastRangeDecides
    <2>1. CASE i = n + 1
        <3>1. p \in RangeBits(r)
            BY <2>1 DEF Decides, Covers
        <3>2. toApply = ShiftRight(value, Cardinality(Dealt(list, n)))
            BY <1>1 DEF LoopInv, RestIsShiftedValue
        <3>3. Cardinality(Dealt(list, n)) \in Nat
            BY <1>1, DealtStep
        <3>4. p - r.start \in Bits
            BY <1>2, <3>1, RangeNumbers DEF RangeBits, Bits
        <3>5. p - r.start \in toApply <=> p - r.start + Cardinality(Dealt(list, n)) \in value
            BY <3>2, <3>4 DEF ShiftRight
        <3>6. r.start \in Int /\ p \in Int /\ i - 1 = n /\ list[i] = r
            <4>1. r.start \in Int
                BY <1>2, RangeNumbers
            <4>2. i - 1 = n /\ list[i] = r
                BY <1>1, <2>1
            <4>3. QED
                BY <4>1, <4>2, WidthAssumption DEF Bits
        <3>7. SourceBit(list, i, p) = Cardinality(Dealt(list, n)) + p - r.start
            BY <3>6 DEF SourceBit
        <3>8. QED
            BY <1>3, <3>1, <3>3, <3>5, <3>6, <3>7
    <2>2. CASE i \in 1..n
        <3>1. Decides(list, n, i, p) /\ p \notin RangeBits(r)
            BY <1>1, <2>2 DEF Decides, Covers
        <3>2. QED
            BY <1>3, <2>2, <3>1 DEF LoopInv, LastRangeDecides
    <2>3. QED
        BY <1>1, <2>1, <2>2
<1>6. RestIsShiftedValue'
    <2> SUFFICES ASSUME ShiftsDefined(list), n + 1 < Len(list)
                 PROVE  toApply' = ShiftRight(value, Cardinality(Dealt(list, n + 1)))
        BY <1>1 DEF RestIsShiftedValue
    <2>1. RangeLen(r) < W /\ RangeLen(r) \in Nat
        <3>1. n + 1 \in 1..(Len(list) - 1)
            BY <1>1
        <3>2. QED
            BY <1>2, <3>1, RangeNumbers DEF ShiftsDefined
    <2>2. toApply' = ShiftRight(toApply, RangeLen(r))
        BY <2>1 DEF ApplyNextRange, ShiftRightOutcomes
    <2>3. toApply = ShiftRight(value, Cardinality(Dealt(list, n)))
        BY <1>1 DEF LoopInv, RestIsShiftedValue
    <2>4. /\ Cardinality(Dealt(list, n)) \in Nat
          /\ Cardinality(Dealt(list, n + 1)) = Cardinality(Dealt(list, n)) + RangeLen(r)
        BY <1>1, DealtStep
    <2>5. QED
        BY <1>1, <2>1, <2>2, <2>3, <2>4, ShiftRightTwice
<1>7. QED
    BY <1>4, <1>5, <1>6 DEF LoopInv

(***************************************************************************)
(* The strengthened invariant holds in every reachable state.              *)
(***************************************************************************)
LEMMA LoopInvariance == LoopSpec => []LoopInv
<1>1. LoopInv /\ TypeOK' /\ [ApplyNextRange]_loopVars => LoopInv'
    <2>1. ASSUME LoopInv, UNCHANGED loopVars
          PROVE  LoopInv'
        BY <2>1 DEF LoopInv, TypeOK, OutsideUntouched, LastRangeDecides, RestIsShiftedValue, loopVars
    <2>2. QED
        BY <2>1, LoopInvStep
<1>2. QED
    BY <1>1, LoopInvInit, TypeCorrect, PTL DEF LoopSpec

(***************************************************************************)
(* The loop never touches a bit of the member that no range has claimed.   *)
(***************************************************************************)
THEOREM OutsideNeverTouched == LoopSpec => []OutsideUntouched
<1>1. LoopInv => OutsideUntouched
    BY DEF LoopInv
<1>2. QED
    BY <1>1, LoopInvariance, PTL

(***************************************************************************)
(* Every covered position holds the bit of the value that the last range   *)
(* covering it was dealt, for every list of ranges, overlapping ones too.  *)
(***************************************************************************)
THEOREM CoveredHoldsValue == LoopSpec => []LastRangeDecides
<1>1. LoopInv => LastRangeDecides
    BY DEF LoopInv
<1>2. QED
    BY <1>1, LoopInvariance, PTL

(***************************************************************************)
(* No bit of the value is lost: with disjoint ranges, collecting them from *)
(* the finished member in order gives the value back, cut to as many bits  *)
(* as they hold, for every width and number of ranges.                     *)
(***************************************************************************)
THEOREM ValueAlwaysReadsBack == LoopSpec => []ValueReadsBack
<1>1. LoopInv => ValueReadsBack
    <2> SUFFICES ASSUME LoopInv, Returned, Disjoint(list)
                 PROVE  {SourceBit(list, pr[1], pr[2]) :
                            pr \in {q \in Dealt(list, Len(list)) : q[2] \in config}}
                        = {b \in value : b < Cardinality(Dealt(list, Len(list)))}
        BY DEF ValueReadsBack
    <2>1. list \in Seq(Ranges) /\ value \in Words /\ rangeNr = Len(list)
        BY ListsAssumption DEF LoopInv, TypeOK, Returned
    <2>2. ASSUME NEW i \in 1..Len(list), NEW p \in RangeBits(list[i])
          PROVE  p \in config <=> SourceBit(list, i, p) \in value
        <3>1. p \in Bits /\ Decides(list, Len(list), i, p)
            BY <2>1, DisjointDecides
        <3>2. ShiftsDefined(list)
            BY <2>1, DisjointShiftsDefined
        <3>3. QED
            BY <2>1, <3>1, <3>2 DEF LoopInv, LastRangeDecides
    <2>3. QED
        BY <2>1, <2>2, ValueCollected
<1>2. QED
    BY <1>1, LoopInvariance, PTL

-----------------------------------------------------------------------------
(* gen_attr_for_event: the inductive invariant. *)

\* Where the call is bounds how many terms are parsed and how many handled.
TypedInv ==
    /\ present \in BOOLEAN /\ noMemory \in BOOLEAN /\ badFree \in BOOLEAN
    /\ type \in Types \cup {NotANumber}
    /\ format \in Formats
    /\ plugs \in Nat
    /\ event \in Events
    /\ DOMAIN attr = Members \cup {"type"}
    /\ pc \in {"type", "parse", "apply", "returned"}
    /\ asnList \in Seq(Assignments)
    /\ asnNr \in 0..Len(asnList)

ProgressInv ==
    /\ pc = "type" => asnList = <<>>
    /\ pc = "parse" => Len(asnList) < Len(event)
    /\ pc = "apply" => Len(asnList) = Len(event)
    /\ Len(asnList) <= Len(event)

\* What is parsed are the terms of the event, and what is handled is resolved.
ResolvedInv ==
    /\ \A i \in 1..Len(asnList) : asnList[i] = event[i] /\ event[i] # Malformed
    /\ \A i \in 1..asnNr :
          asnList[i].key # Period => format[asnList[i].key] \notin {Absent, Malformed}
    /\ pc \in {"parse", "apply"} => attr["type"] \in Types
    /\ pc \in {"parse", "apply"} /\ plugs = 0 => present /\ type # NotANumber
    /\ pc = "returned" <=> ret # Running

\* What is live at every moment of the call.
KeyObjects == {Key(i) : i \in 1..Len(asnList)}
LiveInv ==
    /\ pc = "type" => heap = {}
    /\ pc = "parse" => heap = (IF asnList = <<>> THEN {} ELSE KeyObjects \cup {Array, Copy})
    /\ pc = "apply" => heap = KeyObjects \cup {Array}

\* Success is returned when all assignments have been handled, and only then.
DoneInv == ret = 0 => asnNr = Len(asnList)

IInv ==
    /\ TypedInv /\ ProgressInv /\ ResolvedInv /\ LiveInv /\ DoneInv
    /\ HeapBalanced /\ ZeroIffResolvable /\ AttrMatchesPrefix

-----------------------------------------------------------------------------
(* Lemmas. *)

\* The objects of the ledger differ from one another.
LEMMA ObjectsDiffer ==
    /\ Array # Copy /\ TypeFd # TypeContent
    /\ \A i, j : Key(i) = Key(j) => i = j
    /\ \A i : Key(i) \notin {Array, Copy, TypeFd, TypeContent}
BY DEF Array, Copy, TypeFd, TypeContent, Key

\* An assignment to one member leaves the others, and the record its shape.
LEMMA OneMemberWritten ==
    ASSUME DOMAIN attr = Members \cup {"type"},
           NEW member \in Members \cup {"type"}, NEW number
    PROVE  /\ DOMAIN With(member, number) = Members \cup {"type"}
           /\ With(member, number)[member] = number
           /\ \A m \in (Members \cup {"type"}) \ {member} : With(member, number)[m] = attr[m]
BY DEF With

\* The term that ParseTerm takes.
LEMMA TermTaken ==
    ASSUME TypedInv, pc = "parse", Len(asnList) < Len(event)
    PROVE  /\ Len(asnList) \in Nat /\ Len(event) \in Nat
           /\ event[Len(asnList) + 1] \in Assignments \cup {Malformed}
<1>1. event \in Seq(Assignments \cup {Malformed}) /\ asnList \in Seq(Assignments)
    BY EventsAssumption DEF TypedInv
<1>2. Len(asnList) \in Nat /\ Len(event) \in Nat
    BY <1>1
<1>3. Len(asnList) + 1 \in 1..Len(event)
    BY <1>2
<1>4. QED
    BY <1>1, <1>2, <1>3

\* The assignment at hand, and the file its key resolves to.
LEMMA AssignmentAtHand ==
    ASSUME TypedInv, asnNr < Len(asnList)
    PROVE  /\ Len(asnList) \in Nat /\ asnNr + 1 \in 1..Len(asnList)
           /\ NextAssignment \in Assignments
           /\ NextAssignment.key # Period /\ Resolves(NextAssignment.key) =>
                 format[NextAssignment.key].member \in Members
<1>1. asnList \in Seq(Assignments) /\ asnNr \in 0..Len(asnList) /\ format \in Formats
    BY DEF TypedInv
<1>2. Len(asnList) \in Nat /\ asnNr + 1 \in 1..Len(asnList)
    BY <1>1
<1>3. NextAssignment \in Assignments
    BY <1>1, <1>2 DEF NextAssignment
<1>4. format \in [Keys -> ConfigDefs \cup {Absent, Malformed}]
    BY <1>1, FormatsAssumption
<1>5. ASSUME NextAssignment.key # Period, Resolves(NextAssignment.key)
      PROVE  format[NextAssignment.key].member \in Members
    <2>1. NextAssignment.key \in Keys
        BY <1>3, <1>5 DEF Assignments, AllKeys
    <2>2. format[NextAssignment.key] \in ConfigDefs
        BY <2>1, <1>4, <1>5 DEF Resolves
    <2>3. QED
        BY <2>2 DEF ConfigDefs
<1>6. QED
    BY <1>2, <1>3, <1>5

(***************************************************************************)
(* What the ranges of a list make of one position of a member: the bit the *)
(* last range that covers it was dealt, or what was there.                 *)
(***************************************************************************)
BitAfter(l, n, v, c, p) ==
    IF p \in Covered(l, n)
    THEN \E r \in 1..n : Decides(l, n, r, p) /\ SourceBit(l, r, p) \in v
    ELSE p \in c

LEMMA BitAfterOneMore ==
    ASSUME NEW l \in Seq(Ranges), NEW v \in Words, NEW c, NEW p \in Bits,
           NEW n \in 0..(Len(l) - 1), NEW before,
           p \in before <=> BitAfter(l, n, v, c, p)
    PROVE  p \in ApplyRange(before, ShiftRight(v, Cardinality(Dealt(l, n))), l[n + 1])
             <=> BitAfter(l, n + 1, v, c, p)
<1> DEFINE r == l[n + 1]
           C == Cardinality(Dealt(l, n))
           after == ApplyRange(before, ShiftRight(v, C), r)
<1>1. n \in Nat /\ n + 1 \in 1..Len(l) /\ 1..(n + 1) = 1..n \cup {n + 1} /\ n + 1 \notin 1..n
    OBVIOUS
<1>2. r \in Ranges
    BY <1>1
<1>3. p \in after <=> IF p \in RangeBits(r) THEN p - r.start \in ShiftRight(v, C) ELSE p \in before
    BY <1>2, ApplyRangeBit
<1>4. CASE p \in RangeBits(r)
    <2>1. p \in Covered(l, n + 1)
        BY <1>1, <1>4 DEF Covered, Covers
    <2>2. Decides(l, n + 1, n + 1, p)
        <3>1. (n + 1 + 1)..(n + 1) = {}
            BY <1>1
        <3>2. QED
            BY <1>1, <1>4, <3>1 DEF Decides, Covers
    <2>3. \A i \in 1..n : ~ Decides(l, n + 1, i, p)
        <3>1. \A i \in 1..n : n + 1 \in (i + 1)..(n + 1)
            BY <1>1
        <3>2. QED
            BY <1>4, <3>1 DEF Decides, Covers
    <2>4. BitAfter(l, n + 1, v, c, p) <=> SourceBit(l, n + 1, p) \in v
        BY <1>1, <2>1, <2>2, <2>3, Zenon DEF BitAfter
    <2>5. C \in Nat
        BY DealtStep
    <2>6. r.start \in Nat /\ p \in Int /\ p - r.start \in Bits
        BY <1>2, <1>4, RangeNumbers DEF RangeBits, Bits
    <2>7. SourceBit(l, n + 1, p) = C + p - r.start
        <3>1. n + 1 - 1 = n
            BY <1>1
        <3>2. QED
            BY <3>1 DEF SourceBit
    <2> HIDE DEF C, r
    <2>8. p - r.start + C = C + p - r.start
        BY <2>5, <2>6
    <2>9. p - r.start \in ShiftRight(v, C) <=> C + p - r.start \in v
        BY <2>6, <2>8 DEF ShiftRight
    <2>10. QED
        BY <1>3, <1>4, <2>4, <2>7, <2>9 DEF C, r
<1>5. CASE p \notin RangeBits(r)
    <2>1. p \in Covered(l, n + 1) <=> p \in Covered(l, n)
        BY <1>1, <1>5 DEF Covered, Covers
    <2>2. ~ Decides(l, n + 1, n + 1, p)
        BY <1>5 DEF Decides, Covers
    <2>3. \A i \in 1..n : Decides(l, n + 1, i, p) <=> Decides(l, n, i, p)
        <3>1. ASSUME NEW i \in 1..n
              PROVE  (i + 1)..(n + 1) = (i + 1)..n \cup {n + 1}
            BY <1>1
        <3>2. QED
            BY <1>1, <1>5, <3>1 DEF Decides, Covers
    <2>4. BitAfter(l, n + 1, v, c, p) <=> BitAfter(l, n, v, c, p)
        BY <1>1, <2>1, <2>2, <2>3, Zenon DEF BitAfter
    <2>5. QED
        BY <1>3, <1>5, <2>4
<1>6. QED
    BY <1>4, <1>5

\* The loop over the ranges, for any list of them.
LEMMA ApplyRangeListBit ==
    ASSUME NEW l \in Seq(Ranges), NEW v \in Words, NEW c, NEW p \in Bits
    PROVE  p \in ApplyRangeList(c, v, l) <=> BitAfter(l, Len(l), v, c, p)
<1> DEFINE First == [config |-> c, toApply |-> v]
           Step(w, r) == [config |-> ApplyRange(w.config, w.toApply, r),
                          toApply |-> ShiftRight(w.toApply, RangeLen(r))]
           IsLoop(g, n) == g = [k \in 0..n |-> IF k = 0 THEN First ELSE Step(g[k - 1], l[k])]
           Loops == {n \in 0..Len(l) : \E g : IsLoop(g, n)}
           D == CHOOSE g : IsLoop(g, Len(l))
           C(n) == Cardinality(Dealt(l, n))
           Dealing == {n \in 0..Len(l) : /\ D[n].toApply = ShiftRight(v, C(n))
                                         /\ p \in D[n].config <=> BitAfter(l, n, v, c, p)}
<1>1. Len(l) \in Nat /\ 0 \in 0..Len(l) /\ Len(l) \in 0..Len(l)
    OBVIOUS
<1>2. \A n \in 0..Len(l) : n \in Loops
    <2>1. 0 \in Loops
        <3> DEFINE g == [k \in 0..0 |-> First]
        <3>1. IsLoop(g, 0)
            OBVIOUS
        <3>2. QED
            BY <1>1, <3>1
    <2>2. ASSUME NEW n \in 0..(Len(l) - 1), n \in Loops
          PROVE  n + 1 \in Loops
        <3>1. PICK g : IsLoop(g, n)
            BY <2>2
        <3> DEFINE h == [k \in 0..(n + 1) |-> IF k = 0 THEN First ELSE Step(g[k - 1], l[k])]
        <3> HIDE DEF First, Step
        <3>2. \A k \in 0..(n + 1) : k # 0 => k - 1 \in 0..n /\ k - 1 \in 0..(n + 1)
            OBVIOUS
        <3>3. \A k \in 0..n : g[k] = h[k]
            BY <3>1
        <3>4. h = [k \in 0..(n + 1) |-> IF k = 0 THEN First ELSE Step(h[k - 1], l[k])]
            BY <3>2, <3>3
        <3>5. n + 1 \in 0..Len(l)
            BY <1>1
        <3>6. QED
            BY <3>4, <3>5
    <2> HIDE DEF Loops
    <2>3. QED
        BY <1>1, <2>1, <2>2, CountingUp
<1>3. IsLoop(D, Len(l))
    <2>1. \E g : IsLoop(g, Len(l))
        BY <1>1, <1>2
    <2> HIDE DEF IsLoop
    <2>2. QED
        BY <2>1
<1>4. ApplyRangeList(c, v, l) = D[Len(l)].config
    BY DEF ApplyRangeList
<1>5. D[0] = First /\ \A n \in 0..(Len(l) - 1) : D[n + 1] = Step(D[n], l[n + 1])
    <2> HIDE DEF First, Step, D
    <2>1. D[0] = First
        BY <1>1, <1>3
    <2>2. ASSUME NEW n \in 0..(Len(l) - 1)
          PROVE  D[n + 1] = Step(D[n], l[n + 1])
        <3>1. n + 1 \in 0..Len(l) /\ n + 1 # 0 /\ n + 1 - 1 = n
            OBVIOUS
        <3>2. D[n + 1] = IF n + 1 = 0 THEN First ELSE Step(D[n + 1 - 1], l[n + 1])
            BY <1>3, <3>1
        <3>3. QED
            BY <3>1, <3>2
    <2>3. QED
        BY <2>1, <2>2
<1> HIDE DEF D
<1>6. 0 \in Dealing
    <2>1. D[0].toApply = ShiftRight(v, C(0))
        BY <1>5, NothingDealtAtFirst, ShiftRightZero
    <2>2. Covered(l, 0) = {}
        BY DEF Covered
    <2>3. p \in D[0].config <=> BitAfter(l, 0, v, c, p)
        BY <1>5, <2>2 DEF BitAfter
    <2>4. QED
        BY <1>1, <2>1, <2>3
<1>7. ASSUME NEW n \in 0..(Len(l) - 1), n \in Dealing
      PROVE  n + 1 \in Dealing
    <2>1. D[n].toApply = ShiftRight(v, C(n)) /\ (p \in D[n].config <=> BitAfter(l, n, v, c, p))
        BY <1>7
    <2>2. /\ D[n + 1].config = ApplyRange(D[n].config, D[n].toApply, l[n + 1])
          /\ D[n + 1].toApply = ShiftRight(D[n].toApply, RangeLen(l[n + 1]))
        <3>1. D[n + 1] = Step(D[n], l[n + 1])
            BY <1>5, Zenon
        <3>2. QED
            BY <3>1
    <2>3. p \in D[n + 1].config <=> BitAfter(l, n + 1, v, c, p)
        BY <2>1, <2>2, BitAfterOneMore
    <2>4. n + 1 \in 1..Len(l) /\ n + 1 \in 0..Len(l)
        BY <1>1
    <2>5. C(n) \in Nat /\ C(n + 1) = C(n) + RangeLen(l[n + 1])
        BY DealtStep
    <2>6. RangeLen(l[n + 1]) \in Nat
        <3>1. l[n + 1] \in Ranges
            BY <2>4
        <3>2. QED
            BY <3>1, RangeNumbers
    <2>7. D[n + 1].toApply = ShiftRight(v, C(n + 1))
        BY <2>1, <2>2, <2>5, <2>6, ShiftRightTwice
    <2>8. QED
        BY <2>3, <2>4, <2>7
<1> HIDE DEF Dealing
<1>8. Len(l) \in Dealing
    BY <1>1, <1>6, <1>7, CountingUp
<1>9. QED
    BY <1>4, <1>8 DEF Dealing

\* A position that is covered has a last range that covers it.
LEMMA LastCovering ==
    ASSUME NEW l \in Seq(Ranges), NEW p \in Bits, p \in Covered(l, Len(l))
    PROVE  \E r \in 1..Len(l) : Decides(l, Len(l), r, p)
<1> DEFINE S == {k \in 0..Len(l) : p \in Covered(l, k) => \E r \in 1..k : Decides(l, k, r, p)}
<1>1. Len(l) \in Nat /\ 0 \in 0..Len(l) /\ Len(l) \in 0..Len(l)
    OBVIOUS
<1>2. 0 \in S
    BY <1>1 DEF Covered
<1>3. ASSUME NEW k \in 0..(Len(l) - 1), k \in S
      PROVE  k + 1 \in S
    <2>1. /\ k + 1 \in 0..Len(l) /\ 1..(k + 1) = 1..k \cup {k + 1} /\ k + 1 \in 1..(k + 1)
          /\ (k + 1 + 1)..(k + 1) = {}
        BY <1>1
    <2>2. CASE Covers(l, k + 1, p)
        BY <2>1, <2>2 DEF Decides
    <2>3. CASE ~ Covers(l, k + 1, p)
        <3>1. \A r \in 1..k : (r + 1)..(k + 1) = (r + 1)..k \cup {k + 1}
            BY <1>1
        <3>2. \A r \in 1..k : Decides(l, k, r, p) => Decides(l, k + 1, r, p)
            BY <2>1, <2>3, <3>1 DEF Decides
        <3>3. p \in Covered(l, k + 1) => p \in Covered(l, k)
            BY <2>1, <2>3 DEF Covered
        <3>4. QED
            BY <1>3, <2>1, <3>2, <3>3
    <2>4. QED
        BY <2>2, <2>3
<1> HIDE DEF S
<1>4. Len(l) \in S
    BY <1>1, <1>2, <1>3, CountingUp
<1>5. QED
    BY <1>4 DEF S

(***************************************************************************)
(* The loop, one range per iteration, ends with the word ApplyRangeList    *)
(* says: gen_attr_for_event may take apply_range_list_to_val for one step. *)
(***************************************************************************)
THEOREM LoopMakesApplyRangeList ==
    LoopSpec => [](Returned /\ ShiftsDefined(list) =>
                    \A p \in Bits : p \in config <=> p \in ApplyRangeList(old, value, list))
<1>1. ASSUME LoopInv, Returned, ShiftsDefined(list), NEW p \in Bits
      PROVE  p \in config <=> p \in ApplyRangeList(old, value, list)
    <2>1. list \in Seq(Ranges) /\ value \in Words /\ rangeNr = Len(list)
        BY <1>1, ListsAssumption DEF LoopInv, TypeOK, Returned
    <2>2. p \in ApplyRangeList(old, value, list) <=> BitAfter(list, Len(list), value, old, p)
        BY <2>1, ApplyRangeListBit
    <2>3. CASE p \in Covered(list, Len(list))
        <3>1. PICK r \in 1..Len(list) : Decides(list, Len(list), r, p)
            BY <2>1, <2>3, LastCovering
        <3>2. \A i \in 1..Len(list) :
                Decides(list, Len(list), i, p) =>
                    (p \in config <=> SourceBit(list, i, p) \in value)
            BY <1>1, <2>1 DEF LoopInv, LastRangeDecides
        <3>3. BitAfter(list, Len(list), value, old, p) <=>
                  \E i \in 1..Len(list) : Decides(list, Len(list), i, p) /\ SourceBit(list, i, p) \in value
            BY <2>3 DEF BitAfter
        <3>4. QED
            BY <2>2, <3>1, <3>2, <3>3
    <2>4. CASE p \notin Covered(list, Len(list))
        BY <1>1, <2>1, <2>2, <2>4 DEF LoopInv, OutsideUntouched, BitAfter
    <2>5. QED
        BY <2>3, <2>4
<1>2. LoopInv => (Returned /\ ShiftsDefined(list) =>
                    \A p \in Bits : p \in config <=> p \in ApplyRangeList(old, value, list))
    BY <1>1
<1>3. QED
    BY <1>2, LoopInvariance, PTL

-----------------------------------------------------------------------------
LEMMA TypedStep ==
    ASSUME TypedInv, ProgressInv, [Next]_vars
    PROVE  TypedInv'
<1> USE DEF TypedInv
<1>1. asnList \in Seq(Assignments) /\ Len(asnList) \in Nat
    OBVIOUS
<1>2. CASE DeviceChanges
    BY <1>2 DEF DeviceChanges, args
<1>3. CASE ReadPerfType
    <2>1. PICK number : attr' = With("type", number)
        BY <1>3 DEF ReadPerfType
    <2>2. DOMAIN attr' = Members \cup {"type"}
        BY <2>1, OneMemberWritten
    <2>3. QED
        BY <1>3, <2>2 DEF ReadPerfType, Return, sysfs
<1>4. CASE ParseTerm
    <2>1. event[Len(asnList) + 1] \in Assignments
        BY <1>4, TermTaken DEF ParseTerm, ProgressInv
    <2>2. asnList' = Append(asnList, event[Len(asnList) + 1])
        BY <1>4 DEF ParseTerm
    <2>3. asnList' \in Seq(Assignments) /\ Len(asnList') = Len(asnList) + 1
        BY <1>1, <2>1, <2>2
    <2>4. asnNr' \in 0..Len(asnList')
        BY <1>1, <1>4, <2>3 DEF ParseTerm
    <2>5. pc' \in {"type", "parse", "apply", "returned"}
        BY <1>4 DEF ParseTerm
    <2>6. QED
        BY <1>4, <2>3, <2>4, <2>5 DEF ParseTerm, sysfs
<1>5. CASE ParseFails
    BY <1>5 DEF ParseFails, Return, sysfs
<1>6. CASE SkipPeriod
    <2>1. asnNr' \in 0..Len(asnList')
        BY <1>1, <1>6 DEF SkipPeriod
    <2>2. QED
        BY <1>6, <2>1 DEF SkipPeriod, sysfs
<1>7. CASE ApplyAssignment
    <2>1. format[NextAssignment.key].member \in Members
        BY <1>7, AssignmentAtHand DEF ApplyAssignment
    <2>2. PICK number : attr' = With(format[NextAssignment.key].member, number)
        BY <1>7 DEF ApplyAssignment
    <2>3. DOMAIN attr' = Members \cup {"type"}
        BY <2>1, <2>2, OneMemberWritten
    <2>4. asnNr' \in 0..Len(asnList')
        BY <1>1, <1>7 DEF ApplyAssignment
    <2>5. QED
        BY <1>7, <2>3, <2>4 DEF ApplyAssignment, sysfs
<1>8. CASE LookupFails
    <2>1. noMemory' \in BOOLEAN /\ badFree' \in BOOLEAN
        BY <1>8 DEF LookupFails, Release
    <2>2. QED
        BY <1>8, <2>1 DEF LookupFails, Return, sysfs
<1>9. CASE Finish
    <2>1. badFree' \in BOOLEAN
        BY <1>9 DEF Finish, Release
    <2>2. QED
        BY <1>9, <2>1 DEF Finish, Return, sysfs
<1>10. CASE UNCHANGED vars
    BY <1>10 DEF vars
<1>11. QED
    BY <1>2, <1>3, <1>4, <1>5, <1>6, <1>7, <1>8, <1>9, <1>10 DEF Next

LEMMA ProgressStep ==
    ASSUME TypedInv, ProgressInv, [Next]_vars
    PROVE  ProgressInv'
<1> USE DEF ProgressInv
<1>1. event \in Seq(Assignments \cup {Malformed}) /\ Len(event) > 0
    BY EventsAssumption DEF TypedInv
<1>2. asnList \in Seq(Assignments) /\ Len(asnList) \in Nat /\ Len(event) \in Nat
    BY <1>1 DEF TypedInv
<1>3. CASE ReadPerfType
    BY <1>1, <1>2, <1>3 DEF ReadPerfType, Return, sysfs
<1>4. CASE ParseTerm
    <2>1. event[Len(asnList) + 1] \in Assignments
        BY <1>4, TermTaken DEF ParseTerm
    <2>2. asnList' = Append(asnList, event[Len(asnList) + 1]) /\ pc = "parse"
        BY <1>4 DEF ParseTerm
    <2>3. Len(asnList') = Len(asnList) + 1
        BY <1>2, <2>1, <2>2
    <2>4. pc' = (IF Len(asnList) + 1 = Len(event) THEN "apply" ELSE "parse") /\ event' = event
        BY <1>4 DEF ParseTerm
    <2>5. QED
        BY <1>2, <2>2, <2>3, <2>4
<1>5. CASE DeviceChanges \/ SkipPeriod \/ ApplyAssignment \/ UNCHANGED vars
    BY <1>5 DEF DeviceChanges, SkipPeriod, ApplyAssignment, vars, args
<1>6. CASE ParseFails \/ LookupFails \/ Finish
    BY <1>6 DEF ParseFails, LookupFails, Finish, Return
<1>7. QED
    BY <1>3, <1>4, <1>5, <1>6 DEF Next

LEMMA ResolvedStep ==
    ASSUME TypedInv, ProgressInv, ResolvedInv, [Next]_vars
    PROVE  ResolvedInv'
<1>1. event \in Seq(Assignments \cup {Malformed}) /\ Len(event) \in Nat /\ Len(event) > 0
    BY EventsAssumption DEF TypedInv
<1>2. asnList \in Seq(Assignments) /\ Len(asnList) \in Nat /\ plugs \in Nat
      /\ asnNr \in 0..Len(asnList)
    BY DEF TypedInv
<1>3. Running # Failed /\ Running # 0 /\ Failed \notin Types
    BY TypesAssumption DEF Running, Failed
<1>4. CASE DeviceChanges
    <2>1. plugs' # 0
        BY <1>2, <1>4 DEF DeviceChanges
    <2>2. QED
        BY <1>4, <2>1 DEF ResolvedInv, DeviceChanges, args
<1>5. CASE ReadPerfType
    <2>1. asnList' = <<>> /\ asnNr' = 0
        BY <1>2, <1>5 DEF ReadPerfType, ProgressInv
    <2>2. 1..Len(asnList') = {} /\ 1..asnNr' = {}
        BY <2>1
    <2>3. pc' = "returned" <=> ret' # Running
        BY <1>3, <1>5 DEF ReadPerfType, Return, ResolvedInv
    <2>4. pc' \in {"parse", "apply"} =>
              attr' = With("type", type) /\ present /\ type \in Types
        BY <1>5 DEF ReadPerfType, Return
    <2>5. attr' = With("type", type) => attr'["type"] = type
        BY OneMemberWritten DEF TypedInv
    <2>6. pc' \in {"parse", "apply"} =>
              attr'["type"] \in Types /\ present' /\ type' # NotANumber
        BY <1>5, <2>4, <2>5, TypesAssumption DEF ReadPerfType, sysfs
    <2>7. QED
        BY <2>2, <2>3, <2>6 DEF ResolvedInv
<1>6. CASE ParseTerm
    <2> DEFINE term == event[Len(asnList) + 1]
    <2>1. /\ asnList' = Append(asnList, term) /\ term # Malformed /\ pc = "parse"
          /\ UNCHANGED <<event, format, attr, asnNr, present, type, plugs, ret>>
        BY <1>6 DEF ParseTerm, sysfs
    <2>2. Len(asnList) < Len(event) /\ term \in Assignments
        BY <2>1, TermTaken DEF ProgressInv
    <2>3. Len(asnList') = Len(asnList) + 1 /\ asnList'[Len(asnList) + 1] = term
          /\ \A i \in 1..Len(asnList) : asnList'[i] = asnList[i]
        BY <1>2, <2>1, <2>2
    <2>4. \A i \in 1..Len(asnList') : asnList'[i] = event'[i] /\ event'[i] # Malformed
        BY <1>2, <2>1, <2>3 DEF ResolvedInv
    <2>5. \A i \in 1..asnNr' : i \in 1..Len(asnList) /\ asnList'[i] = asnList[i]
        BY <1>2, <2>1, <2>3
    <2>6. \A i \in 1..asnNr' : asnList'[i].key # Period
              => format'[asnList'[i].key] \notin {Absent, Malformed}
        BY <2>1, <2>5 DEF ResolvedInv
    <2>7. pc' \in {"parse", "apply"}
        BY <1>6 DEF ParseTerm
    <2>8. QED
        BY <2>1, <2>4, <2>6, <2>7 DEF ResolvedInv
<1>7. CASE ParseFails
    BY <1>3, <1>7 DEF ParseFails, Return, sysfs, ResolvedInv
<1>8. CASE SkipPeriod
    <2>1. asnNr' = asnNr + 1 /\ asnList[asnNr + 1].key = Period
          /\ UNCHANGED <<event, format, asnList>>
        BY <1>8 DEF SkipPeriod, NextAssignment, sysfs
    <2>2. \A i \in 1..asnNr' : i \in 1..asnNr \/ i = asnNr + 1
        BY <1>2, <2>1
    <2>3. \A i \in 1..asnNr' : asnList'[i].key # Period
              => format'[asnList'[i].key] \notin {Absent, Malformed}
        BY <2>1, <2>2 DEF ResolvedInv
    <2>4. QED
        BY <1>8, <2>3 DEF SkipPeriod, sysfs, ResolvedInv
<1>9. CASE ApplyAssignment
    <2>1. asnNr' = asnNr + 1 /\ Resolves(asnList[asnNr + 1].key)
          /\ UNCHANGED <<event, format, asnList>>
        BY <1>9 DEF ApplyAssignment, NextAssignment, sysfs
    <2>2. \A i \in 1..asnNr' : i \in 1..asnNr \/ i = asnNr + 1
        BY <1>2, <2>1
    <2>3. \A i \in 1..asnNr' : asnList'[i].key # Period
              => format'[asnList'[i].key] \notin {Absent, Malformed}
        BY <2>1, <2>2 DEF ResolvedInv, Resolves
    <2>4. format[NextAssignment.key].member \in Members
        BY <1>9, AssignmentAtHand DEF ApplyAssignment
    <2>5. PICK number : attr' = With(format[NextAssignment.key].member, number)
        BY <1>9 DEF ApplyAssignment
    <2>6. attr'["type"] = attr["type"]
        BY <2>4, <2>5, OneMemberWritten DEF TypedInv, Members
    <2>7. QED
        BY <1>9, <2>3, <2>6 DEF ApplyAssignment, sysfs, ResolvedInv
<1>10. CASE LookupFails
    BY <1>3, <1>10 DEF LookupFails, Return, sysfs, ResolvedInv
<1>11. CASE Finish
    BY <1>3, <1>11 DEF Finish, Return, sysfs, ResolvedInv
<1>12. CASE UNCHANGED vars
    BY <1>12 DEF vars, ResolvedInv
<1>13. QED
    BY <1>4, <1>5, <1>6, <1>7, <1>8, <1>9, <1>10, <1>11, <1>12 DEF Next

LEMMA LiveStep ==
    ASSUME TypedInv, ProgressInv, LiveInv, [Next]_vars
    PROVE  LiveInv'
<1>1. asnList \in Seq(Assignments) /\ Len(asnList) \in Nat
    BY DEF TypedInv
<1>2. CASE DeviceChanges \/ SkipPeriod \/ ApplyAssignment \/ UNCHANGED vars
    <2>1. UNCHANGED <<pc, asnList, heap>>
        BY <1>2 DEF DeviceChanges, SkipPeriod, ApplyAssignment, vars
    <2>2. QED
        BY <2>1 DEF LiveInv, KeyObjects
<1>3. CASE ReadPerfType
    BY <1>3 DEF ReadPerfType, Return, LiveInv, ProgressInv
<1>4. CASE ParseTerm
    <2>1. event[Len(asnList) + 1] \in Assignments
        BY <1>4, TermTaken DEF ParseTerm, ProgressInv
    <2>2. asnList' = Append(asnList, event[Len(asnList) + 1]) /\ pc = "parse"
        BY <1>4 DEF ParseTerm
    <2>3. Len(asnList') = Len(asnList) + 1 /\ asnList' # <<>>
        BY <1>1, <2>1, <2>2
    <2>4. KeyObjects' = KeyObjects \cup {Key(Len(asnList) + 1)}
        <3>1. 1..Len(asnList') = 1..Len(asnList) \cup {Len(asnList) + 1}
            BY <1>1, <2>3
        <3>2. QED
            BY <3>1 DEF KeyObjects, Key
    <2>5. asnList = <<>> => KeyObjects = {}
        <3>1. asnList = <<>> => 1..Len(asnList) = {}
            OBVIOUS
        <3>2. QED
            BY <3>1 DEF KeyObjects
    <2>6. ParsedHeap = KeyObjects' \cup {Array, Copy}
        BY <2>2, <2>4, <2>5 DEF ParsedHeap, LiveInv
    <2>7. Copy \notin KeyObjects'
        BY ObjectsDiffer DEF KeyObjects, Key, Copy
    <2>8. (KeyObjects' \cup {Array, Copy}) \ {Copy} = KeyObjects' \cup {Array}
        BY <2>7, ObjectsDiffer
    <2>9. CASE Len(asnList) + 1 = Len(event)
        <3>1. pc' = "apply" /\ heap' = ParsedHeap \ {Copy}
            BY <1>4, <2>9 DEF ParseTerm
        <3>2. QED
            BY <2>6, <2>8, <3>1 DEF LiveInv
    <2>10. CASE Len(asnList) + 1 # Len(event)
        <3>1. pc' = "parse" /\ heap' = ParsedHeap
            BY <1>4, <2>10 DEF ParseTerm
        <3>2. QED
            BY <2>3, <2>6, <3>1 DEF LiveInv
    <2>11. QED
        BY <2>9, <2>10
<1>5. CASE ParseFails \/ LookupFails \/ Finish
    BY <1>5 DEF ParseFails, LookupFails, Finish, Return, LiveInv
<1>6. QED
    BY <1>2, <1>3, <1>4, <1>5 DEF Next

\* What free_assignment_list releases is live, and nothing else is.
LEMMA AllReleased ==
    ASSUME TypedInv, LiveInv, pc = "apply", Release(AssignmentListObjects)
    PROVE  heap' = {} /\ badFree' = badFree
<1>1. AssignmentListObjects = heap
    BY DEF AssignmentListObjects, LiveInv, KeyObjects
<1>2. heap' = {}
    BY <1>1 DEF Release
<1>3. badFree' = badFree
    BY <1>1 DEF Release, TypedInv
<1>4. QED
    BY <1>2, <1>3

LEMMA HeapStep ==
    ASSUME TypedInv, ProgressInv, ResolvedInv, LiveInv, HeapBalanced, [Next]_vars
    PROVE  HeapBalanced'
<1>1. Failed \notin Types /\ NotANumber \notin Types
    BY TypesAssumption DEF Failed
<1>2. asnList \in Seq(Assignments) /\ Len(asnList) \in Nat
    BY DEF TypedInv
<1>3. ASSUME UNCHANGED badFree, pc' # "returned"
      PROVE  HeapBalanced'
    BY <1>3 DEF HeapBalanced
<1>4. CASE UNCHANGED vars
    BY <1>4 DEF HeapBalanced, vars
<1>5. CASE DeviceChanges \/ ParseTerm \/ SkipPeriod \/ ApplyAssignment
    <2>1. UNCHANGED badFree /\ pc' # "returned"
        BY <1>5 DEF DeviceChanges, ParseTerm, SkipPeriod, ApplyAssignment
    <2>2. QED
        BY <1>3, <2>1
<1>6. CASE ReadPerfType
    <2>1. CASE pc' # "returned"
        BY <1>3, <1>6, <2>1 DEF ReadPerfType
    <2>2. CASE pc' = "returned"
        <3>1. attr' = With("type", Failed)
            BY <1>6, <2>2 DEF ReadPerfType
        <3>2. attr'["type"] = Failed
            BY <3>1, OneMemberWritten DEF TypedInv
        <3>3. heap' \in {{}, {TypeFd, TypeContent}} /\ (type' \in Types => heap' = {})
            BY <1>1, <1>6, <2>2 DEF ReadPerfType, LiveInv, sysfs
        <3>4. UNCHANGED badFree
            BY <1>6 DEF ReadPerfType
        <3>5. QED
            BY <3>2, <3>3, <3>4 DEF HeapBalanced
    <2>3. QED
        BY <2>1, <2>2
<1>7. CASE ParseFails
    <2>1. attr' = attr /\ attr["type"] # Failed /\ pc = "parse" /\ asnList' = asnList
          /\ event' = event /\ UNCHANGED badFree /\ heap' = heap \ {Array, Copy}
        BY <1>1, <1>7 DEF ParseFails, ResolvedInv
    <2>2. Len(asnList) # Len(event)
        BY <1>2, <2>1 DEF ProgressInv
    <2>3. DOMAIN asnList = 1..Len(asnList)
        BY <1>2
    <2>4. KeyObjects \cap {Array, Copy} = {}
        BY ObjectsDiffer DEF KeyObjects
    <2>5. asnList = <<>> => KeyObjects = {}
        <3>1. asnList = <<>> => 1..Len(asnList) = {}
            OBVIOUS
        <3>2. QED
            BY <3>1 DEF KeyObjects
    <2>6. heap' = KeyObjects
        BY <2>1, <2>4, <2>5 DEF LiveInv
    <2>7. KeyObjects = {Key(i) : i \in DOMAIN asnList}
        BY <2>3 DEF KeyObjects
    <2>8. QED
        BY <2>1, <2>2, <2>6, <2>7 DEF HeapBalanced
<1>8. CASE LookupFails \/ Finish
    <2>1. pc = "apply" /\ Release(AssignmentListObjects) /\ UNCHANGED <<attr, asnList, event>>
        BY <1>8 DEF LookupFails, Finish
    <2>2. heap' = {} /\ badFree' = badFree
        BY <2>1, AllReleased
    <2>3. Len(asnList') = Len(event') /\ attr'["type"] # Failed
        BY <1>1, <2>1 DEF ProgressInv, ResolvedInv
    <2>4. QED
        BY <2>2, <2>3 DEF HeapBalanced
<1>9. QED
    BY <1>4, <1>5, <1>6, <1>7, <1>8 DEF Next

\* The event string and the format directory can be resolved, all of it.
AllResolve ==
    \A i \in 1..Len(event) :
        /\ event[i] # Malformed
        /\ event[i].key # Period => format[event[i].key] \notin {Absent, Malformed}

\* Finish is reached with every term resolved.
LEMMA FinishResolved ==
    ASSUME TypedInv, ProgressInv, ResolvedInv, Finish
    PROVE  AllResolve
<1>1. asnNr = Len(asnList) /\ Len(asnList) = Len(event)
    BY DEF Finish, ProgressInv
<1>2. QED
    BY <1>1 DEF ResolvedInv, AllResolve

LEMMA ZeroStep ==
    ASSUME TypedInv, ProgressInv, ResolvedInv, ZeroIffResolvable, [Next]_vars
    PROVE  ZeroIffResolvable'
<1> DEFINE Resolvable == present /\ type # NotANumber /\ AllResolve
<1>1. Failed # 0 /\ NotANumber \notin Types
    BY TypesAssumption DEF Failed
<1>2. Resolvable <=>
          /\ present
          /\ type # NotANumber
          /\ \A i \in 1..Len(event) :
                /\ event[i] # Malformed
                /\ event[i].key # Period => Resolves(event[i].key)
    BY DEF AllResolve, Resolves
<1>3. ZeroIffResolvable' <=>
          (pc' = "returned" /\ plugs' = 0 /\ ~ noMemory' => (ret' = 0 <=> Resolvable'))
    BY DEF ZeroIffResolvable, AllResolve, Resolves
<1> HIDE DEF Resolvable
<1>4. ASSUME UNCHANGED <<present, type, format, plugs, event>>
      PROVE  Resolvable' = Resolvable
    BY <1>4 DEF Resolvable, AllResolve
<1>5. CASE UNCHANGED vars
    BY <1>5 DEF ZeroIffResolvable, Resolves, vars
<1>6. CASE DeviceChanges \/ ParseTerm \/ SkipPeriod \/ ApplyAssignment
    BY <1>3, <1>6 DEF DeviceChanges, ParseTerm, SkipPeriod, ApplyAssignment
<1>7. CASE ReadPerfType
    <2>1. Resolvable' = Resolvable
        BY <1>4, <1>7 DEF ReadPerfType, sysfs
    <2>2. pc' = "returned" => ret' = Failed /\ ~ (present /\ type # NotANumber)
        BY <1>1, <1>7 DEF ReadPerfType, Return, TypedInv
    <2>3. pc' = "returned" => ~ Resolvable
        BY <2>2 DEF Resolvable
    <2>4. QED
        BY <1>1, <1>3, <2>1, <2>2, <2>3
<1>8. CASE ParseFails
    <2>1. Resolvable' = Resolvable
        BY <1>4, <1>8 DEF ParseFails, sysfs
    <2>2. ret' = Failed /\ (noMemory' \/ event[Len(asnList) + 1] = Malformed)
        BY <1>8 DEF ParseFails, Return
    <2>3. Len(asnList) + 1 \in 1..Len(event)
        BY <1>8, TermTaken DEF ParseFails, ProgressInv
    <2>4. noMemory' \/ ~ Resolvable
        BY <2>2, <2>3 DEF Resolvable, AllResolve
    <2>5. QED
        BY <1>1, <1>3, <2>1, <2>2, <2>4
<1>9. CASE LookupFails
    <2>1. Resolvable' = Resolvable /\ plugs' = plugs
        BY <1>4, <1>9 DEF LookupFails, sysfs
    <2>2. ret' = Failed /\ (noMemory' \/ ~ Resolves(NextAssignment.key))
          /\ NextAssignment.key # Period
        BY <1>9 DEF LookupFails, Return
    <2>3. asnNr + 1 \in 1..Len(asnList) /\ Len(asnList) = Len(event)
        BY <1>9, AssignmentAtHand DEF LookupFails, ProgressInv
    <2>4. event[asnNr + 1] = NextAssignment
        BY <2>3 DEF ResolvedInv, NextAssignment
    <2>5. noMemory' \/ ~ Resolvable
        BY <2>2, <2>3, <2>4 DEF Resolvable, AllResolve, Resolves
    <2>6. QED
        BY <1>1, <1>3, <2>1, <2>2, <2>5
<1>10. CASE Finish
    <2>1. Resolvable' = Resolvable /\ plugs' = plugs
        BY <1>4, <1>10 DEF Finish, sysfs
    <2>2. ret' = 0
        BY <1>10 DEF Finish, Return
    <2>3. plugs = 0 => present /\ type # NotANumber
        BY <1>10 DEF Finish, ResolvedInv
    <2>4. plugs = 0 => Resolvable
        BY <1>10, <2>3, FinishResolved DEF Resolvable
    <2>5. QED
        BY <1>3, <2>1, <2>2, <2>4
<1>11. QED
    BY <1>5, <1>6, <1>7, <1>8, <1>9, <1>10 DEF Next

LEMMA DoneStep ==
    ASSUME TypedInv, ResolvedInv, DoneInv, [Next]_vars
    PROVE  DoneInv'
<1>1. Failed # 0 /\ Running # 0
    BY DEF Failed, Running
<1>2. CASE DeviceChanges \/ UNCHANGED vars
    BY <1>2 DEF DeviceChanges, DoneInv, vars
<1>3. CASE ReadPerfType \/ ParseTerm \/ ParseFails \/ SkipPeriod \/ ApplyAssignment \/ LookupFails
    <2>1. ret' \in {ret, Failed} /\ pc # "returned"
        BY <1>3 DEF ReadPerfType, ParseTerm, ParseFails, SkipPeriod, ApplyAssignment,
                    LookupFails, Return
    <2>2. ret' # 0
        BY <1>1, <2>1 DEF ResolvedInv
    <2>3. QED
        BY <2>2 DEF DoneInv
<1>4. CASE Finish
    BY <1>4 DEF Finish, DoneInv
<1>5. QED
    BY <1>2, <1>3, <1>4 DEF Next

-----------------------------------------------------------------------------
(* The member that is built. *)

\* The bit a position holds after the first n assignments.
WritersOf(n, m, p) == {i \in 1..n : WritesBit(i, m, p)}
BitOfPrefix(n, m, p) ==
    IF WritersOf(n, m, p) = {}
    THEN p \in attr0[m]
    ELSE \E i \in WritersOf(n, m, p) : /\ \A j \in WritersOf(n, m, p) : j <= i
                                      /\ WrittenBit(i, p)

LEMMA PrefixAsBits ==
    AttrMatchesPrefix <=>
        \A m \in Members : \A p \in Bits : p \in attr[m] <=> BitOfPrefix(asnNr, m, p)
BY DEF AttrMatchesPrefix, BitOfPrefix, WritersOf

\* One assignment more: it decides the positions it writes, and no others.
LEMMA OneMoreWriter ==
    ASSUME NEW n \in Nat, NEW m, NEW p
    PROVE  BitOfPrefix(n + 1, m, p) <=>
               IF WritesBit(n + 1, m, p) THEN WrittenBit(n + 1, p) ELSE BitOfPrefix(n, m, p)
<1>1. 1..(n + 1) = 1..n \cup {n + 1} /\ \A i \in 1..n : i <= n + 1 /\ ~ (n + 1 <= i)
    OBVIOUS
<1>2. CASE WritesBit(n + 1, m, p)
    <2>1. WritersOf(n + 1, m, p) = WritersOf(n, m, p) \cup {n + 1}
        BY <1>1, <1>2 DEF WritersOf
    <2>2. \A i \in WritersOf(n, m, p) : i <= n + 1 /\ ~ (n + 1 <= i)
        BY <1>1 DEF WritersOf
    <2>3. n + 1 <= n + 1
        OBVIOUS
    <2>4. QED
        BY <1>2, <2>1, <2>2, <2>3 DEF BitOfPrefix
<1>3. CASE ~ WritesBit(n + 1, m, p)
    <2>1. WritersOf(n + 1, m, p) = WritersOf(n, m, p)
        BY <1>1, <1>3 DEF WritersOf
    <2>2. QED
        BY <1>3, <2>1 DEF BitOfPrefix
<1>4. QED
    BY <1>2, <1>3

\* The assignment at hand, its file, and what they write.
LEMMA RangesAtHand ==
    ASSUME TypedInv, asnNr < Len(asnList),
           NextAssignment.key # Period, Resolves(NextAssignment.key)
    PROVE  /\ asnNr + 1 \in 1..Len(asnList)
           /\ RangesOf(asnNr + 1) = format[NextAssignment.key].ranges
           /\ RangesOf(asnNr + 1) \in Seq(Ranges)
           /\ MemberOf(asnNr + 1) = format[NextAssignment.key].member
           /\ MemberOf(asnNr + 1) \in Members
           /\ NextAssignment.value \in Words
           /\ Writes(asnNr + 1)
<1>1. asnNr + 1 \in 1..Len(asnList) /\ NextAssignment \in Assignments
    BY AssignmentAtHand
<1>2. format \in [Keys -> ConfigDefs \cup {Absent, Malformed}]
    BY FormatsAssumption DEF TypedInv
<1>3. NextAssignment.key \in Keys
    BY <1>1 DEF Assignments, AllKeys
<1>4. format[NextAssignment.key] \in ConfigDefs
    BY <1>2, <1>3 DEF Resolves
<1>5. QED
    BY <1>1, <1>4 DEF NextAssignment, RangesOf, MemberOf, Writes, ConfigDefs, Assignments

LEMMA PrefixStep ==
    ASSUME TypedInv, AttrMatchesPrefix, [Next]_vars
    PROVE  AttrMatchesPrefix'
<1>1. asnList \in Seq(Assignments) /\ asnNr \in 0..Len(asnList) /\ asnNr \in Nat
    BY DEF TypedInv
<1>2. \A m \in Members : m # "type"
    BY DEF Members
<1>3. AttrMatchesPrefix' <=>
          \A m \in Members : \A p \in Bits : p \in attr'[m] <=> BitOfPrefix(asnNr, m, p)'
    BY DEF AttrMatchesPrefix, BitOfPrefix, WritersOf
<1>4. ASSUME UNCHANGED <<format, asnNr, attr0>>,
             \A i \in 1..asnNr : asnList'[i] = asnList[i],
             \A m \in Members : attr'[m] = attr[m]
      PROVE  AttrMatchesPrefix'
    <2>1. \A i \in 1..asnNr : \A m, p :
              /\ WritesBit(i, m, p)' <=> WritesBit(i, m, p)
              /\ WrittenBit(i, p)' <=> WrittenBit(i, p)
        BY <1>4 DEF WritesBit, WrittenBit, Writes, RangesOf, MemberOf
    <2>2. \A m, p : WritersOf(asnNr, m, p)' = WritersOf(asnNr, m, p)
        BY <1>4, <2>1 DEF WritersOf
    <2>3. \A m, p : BitOfPrefix(asnNr, m, p)' <=> BitOfPrefix(asnNr, m, p)
        <3> SUFFICES ASSUME NEW m, NEW p
                     PROVE  BitOfPrefix(asnNr, m, p)' <=> BitOfPrefix(asnNr, m, p)
            OBVIOUS
        <3>1. \A i \in WritersOf(asnNr, m, p) : WrittenBit(i, p)' <=> WrittenBit(i, p)
            BY <2>1 DEF WritersOf
        <3>2. QED
            BY <1>4, <2>2, <3>1, Zenon DEF BitOfPrefix
    <2>4. QED
        BY <1>3, <1>4, <2>3, PrefixAsBits
<1>5. CASE DeviceChanges \/ ParseFails \/ LookupFails \/ Finish \/ UNCHANGED vars
    <2>1. UNCHANGED <<format, asnNr, attr0, asnList, attr>>
        BY <1>5 DEF DeviceChanges, ParseFails, LookupFails, Finish, sysfs, args, vars
    <2>2. QED
        BY <1>4, <2>1
<1>6. CASE ReadPerfType
    <2>1. UNCHANGED <<format, asnNr, attr0, asnList>>
        BY <1>6 DEF ReadPerfType, sysfs
    <2>2. PICK number : attr' = With("type", number)
        BY <1>6 DEF ReadPerfType
    <2>3. \A m \in Members : attr'[m] = attr[m]
        BY <1>2, <2>2, OneMemberWritten DEF TypedInv
    <2>4. QED
        BY <1>4, <2>1, <2>3
<1>7. CASE ParseTerm
    <2>1. UNCHANGED <<format, asnNr, attr0, attr>>
          /\ asnList' = Append(asnList, event[Len(asnList) + 1])
        BY <1>7 DEF ParseTerm, sysfs
    <2>2. \A i \in 1..asnNr : asnList'[i] = asnList[i]
        BY <1>1, <2>1
    <2>3. QED
        BY <1>4, <2>1, <2>2
<1>8. CASE SkipPeriod \/ ApplyAssignment
    <2>1. /\ asnNr < Len(asnList)
          /\ asnNr' = asnNr + 1
          /\ UNCHANGED <<format, attr0, asnList>>
        BY <1>8 DEF SkipPeriod, ApplyAssignment, sysfs
    <2>2. ASSUME NEW m \in Members, NEW p \in Bits
          PROVE  p \in attr'[m] <=> BitOfPrefix(asnNr + 1, m, p)
        <3>1. p \in attr[m] <=> BitOfPrefix(asnNr, m, p)
            BY PrefixAsBits
        <3>2. CASE SkipPeriod
            <4>1. attr' = attr /\ ~ WritesBit(asnNr + 1, m, p)
                BY <3>2 DEF SkipPeriod, NextAssignment, WritesBit, Writes
            <4>2. QED
                BY <1>1, <3>1, <4>1, OneMoreWriter
        <3>3. CASE ApplyAssignment
            <4> DEFINE rs == RangesOf(asnNr + 1)
                       mb == MemberOf(asnNr + 1)
                       v == NextAssignment.value
            <4>1. NextAssignment.key # Period /\ Resolves(NextAssignment.key)
                BY <3>3 DEF ApplyAssignment
            <4>2. /\ rs = format[NextAssignment.key].ranges /\ rs \in Seq(Ranges)
                  /\ mb = format[NextAssignment.key].member /\ mb \in Members
                  /\ v \in Words /\ Writes(asnNr + 1)
                BY <2>1, <4>1, RangesAtHand
            <4>3. attr' = With(mb, ApplyRangeList(attr[mb], v, rs))
                BY <3>3, <4>2 DEF ApplyAssignment
            <4>4. asnList[asnNr + 1].value = v
                BY DEF NextAssignment
            <4> HIDE DEF rs, mb, v
            <4>5. WritesBit(asnNr + 1, m, p) <=> mb = m /\ p \in Covered(rs, Len(rs))
                BY <4>2 DEF WritesBit, rs, mb
            <4>6. WrittenBit(asnNr + 1, p) <=>
                      \E r \in 1..Len(rs) : Decides(rs, Len(rs), r, p) /\ SourceBit(rs, r, p) \in v
                BY <4>4 DEF WrittenBit, rs
            <4>7. p \in ApplyRangeList(attr[mb], v, rs) <=>
                      IF p \in Covered(rs, Len(rs)) THEN WrittenBit(asnNr + 1, p) ELSE p \in attr[mb]
                BY <4>2, <4>6, ApplyRangeListBit DEF BitAfter
            <4>8. attr'[m] = IF m = mb THEN ApplyRangeList(attr[mb], v, rs) ELSE attr[m]
                BY <4>2, <4>3, OneMemberWritten DEF TypedInv
            <4>9. p \in attr'[m] <=>
                      IF WritesBit(asnNr + 1, m, p) THEN WrittenBit(asnNr + 1, p) ELSE p \in attr[m]
                BY <4>5, <4>7, <4>8, Zenon
            <4>10. QED
                BY <1>1, <3>1, <4>9, OneMoreWriter
        <3>4. QED
            BY <1>8, <3>2, <3>3
    <2>3. \A m \in Members : \A p \in Bits : BitOfPrefix(asnNr, m, p)' <=> BitOfPrefix(asnNr + 1, m, p)
        <3> SUFFICES ASSUME NEW m \in Members, NEW p \in Bits
                     PROVE  BitOfPrefix(asnNr, m, p)' <=> BitOfPrefix(asnNr + 1, m, p)
            OBVIOUS
        <3>1. 1..asnNr' = 1..(asnNr + 1) /\ attr0' = attr0
            BY <2>1
        <3>2. \A i \in 1..(asnNr + 1) : /\ WritesBit(i, m, p)' <=> WritesBit(i, m, p)
                                        /\ WrittenBit(i, p)' <=> WrittenBit(i, p)
            BY <2>1 DEF WritesBit, WrittenBit, Writes, RangesOf, MemberOf
        <3>3. WritersOf(asnNr, m, p)' = WritersOf(asnNr + 1, m, p)
            BY <3>1, <3>2 DEF WritersOf
        <3>4. \A i \in WritersOf(asnNr + 1, m, p) : WrittenBit(i, p)' <=> WrittenBit(i, p)
            BY <3>2 DEF WritersOf
        <3>5. QED
            BY <3>1, <3>3, <3>4, Zenon DEF BitOfPrefix
    <2>4. QED
        BY <1>3, <2>2, <2>3
<1>9. QED
    BY <1>5, <1>6, <1>7, <1>8 DEF Next

LEMMA Invariance == Spec => []IInv
<1>1. Init => IInv
    <2> SUFFICES ASSUME Init
                 PROVE  IInv
        OBVIOUS
    <2>1. 1..Len(asnList) = {} /\ 1..asnNr = {}
        BY DEF Init
    <2>2. event \in Seq(Assignments \cup {Malformed}) /\ Len(event) > 0 /\ Len(event) \in Nat
        BY EventsAssumption DEF Init
    <2>3. TypedInv
        <3>1. asnList \in Seq(Assignments) /\ asnNr \in 0..Len(asnList)
            BY DEF Init
        <3>2. DOMAIN attr = Members \cup {"type"}
            BY AttrsAssumption DEF Init
        <3>3. QED
            BY <3>1, <3>2 DEF Init, TypedInv
    <2>4. ProgressInv
        BY <2>2 DEF Init, ProgressInv
    <2>5. ResolvedInv
        BY <2>1 DEF Init, ResolvedInv
    <2>6. LiveInv /\ DoneInv /\ HeapBalanced /\ ZeroIffResolvable
        BY DEF Init, LiveInv, DoneInv, Running, HeapBalanced, ZeroIffResolvable
    <2>7. AttrMatchesPrefix
        BY <2>1 DEF Init, AttrMatchesPrefix
    <2>8. QED
        BY <2>3, <2>4, <2>5, <2>6, <2>7 DEF IInv
<1>2. IInv /\ [Next]_vars => IInv'
    BY TypedStep, ProgressStep, ResolvedStep, LiveStep, HeapStep, ZeroStep, DoneStep, PrefixStep
       DEF IInv
<1>3. QED
    BY <1>1, <1>2, PTL DEF Spec

-----------------------------------------------------------------------------
(***************************************************************************)
(* What every way out of the call leaves behind, for every event string,   *)
(* whatever goes away, comes back or fails: nothing that is not live is    *)
(* released, and only the two ways out that HeapBalanced names leave       *)
(* anything, and no more than it says.                                     *)
(***************************************************************************)
THEOREM LeaksAreTheTwoNamed == Spec => []HeapBalanced
<1>1. IInv => HeapBalanced
    BY DEF IInv
<1>2. QED
    BY <1>1, Invariance, PTL

(***************************************************************************)
(* On a device that stays and with memory to be had, the call returns 0    *)
(* exactly when the type is a number, every term parses and every key but  *)
(* "period" has a format file that parses.                                 *)
(***************************************************************************)
THEOREM SucceedsIffResolvable == Spec => []ZeroIffResolvable
<1>1. IInv => ZeroIffResolvable
    BY DEF IInv
<1>2. QED
    BY <1>1, Invariance, PTL

(***************************************************************************)
(* At every moment each bit of each member is the one the last assignment  *)
(* handled so far that covers it has put there, and the caller's own bit   *)
(* where there is none, for format files with any number of ranges that    *)
(* overlap in any way.                                                     *)
(***************************************************************************)
THEOREM AttrAlwaysMatchesPrefix == Spec => []AttrMatchesPrefix
<1>1. IInv => AttrMatchesPrefix
    BY DEF IInv
<1>2. QED
    BY <1>1, Invariance, PTL

(***************************************************************************)
(* A driver that decodes the finished attr with the same format files      *)
(* finds in every field the value the event string assigns to it, cut to   *)
(* the width of the field, whatever the order of the assignments.          *)
(***************************************************************************)
THEOREM DriverAlwaysReadsBack == Spec => []DriverReadsBack
<1>1. IInv => DriverReadsBack
    <2> SUFFICES ASSUME IInv, ret = 0, FormatsDisjoint, NEW i \in 1..Len(asnList), Writes(i)
                 PROVE  FieldValue(i) = {b \in asnList[i].value :
                            b < Cardinality(Dealt(RangesOf(i), Len(RangesOf(i))))}
        BY DEF DriverReadsBack
    <2> DEFINE rs == RangesOf(i)
               mb == MemberOf(i)
               v == asnList[i].value
    <2>1. asnList \in Seq(Assignments) /\ asnNr = Len(asnList) /\ Len(asnList) \in Nat
        BY DEF IInv, TypedInv, DoneInv
    <2>2. rs \in Seq(Ranges) /\ mb \in Members /\ v \in Words
        <3>1. asnList[i] \in Assignments
            BY <2>1
        <3>2. asnList[i].key \in Keys
            BY <3>1 DEF Assignments, AllKeys, Writes
        <3>3. format \in [Keys -> ConfigDefs \cup {Absent, Malformed}]
            BY FormatsAssumption DEF IInv, TypedInv
        <3>4. format[asnList[i].key] \notin {Absent, Malformed}
            BY <2>1 DEF IInv, ResolvedInv, Writes
        <3>5. format[asnList[i].key] \in ConfigDefs
            BY <3>2, <3>3, <3>4
        <3>6. QED
            BY <3>1, <3>5 DEF Assignments, ConfigDefs, RangesOf, MemberOf
    <2>3. i \in {k \in 1..Len(asnList) : Writes(k)}
        OBVIOUS
    <2>4. Disjoint(rs)
        <3>1. DOMAIN rs = 1..Len(rs)
            BY <2>2
        <3>2. QED
            BY <2>3, <3>1 DEF FormatsDisjoint, Disjoint
    <2>5. ASSUME NEW r \in 1..Len(rs), NEW p \in RangeBits(rs[r])
          PROVE  p \in attr[mb] <=> SourceBit(rs, r, p) \in v
        <3>1. p \in Bits /\ Decides(rs, Len(rs), r, p)
            BY <2>2, <2>4, DisjointDecides
        <3>2. WritesBit(i, mb, p)
            BY <3>1 DEF WritesBit, Covered, Covers
        <3>3. ASSUME NEW j \in 1..asnNr, WritesBit(j, mb, p)
              PROVE  j = i
            <4>1. j \in {k \in 1..Len(asnList) : Writes(k)} /\ MemberOf(j) = mb
                BY <2>1, <3>3 DEF WritesBit
            <4>2. PICK s \in 1..Len(RangesOf(j)) : p \in RangeBits(RangesOf(j)[s])
                BY <3>3 DEF WritesBit, Covered, Covers
            <4>3. RangeBits(RangesOf(j)[s]) \cap RangeBits(rs[r]) # {}
                BY <4>2
            <4>4. QED
                BY <2>3, <4>1, <4>2, <4>3 DEF FormatsDisjoint
        <3>4. WritersOf(asnNr, mb, p) = {i}
            BY <2>1, <3>2, <3>3 DEF WritersOf
        <3>5. i <= i
            OBVIOUS
        <3>6. BitOfPrefix(asnNr, mb, p) <=> WrittenBit(i, p)
            BY <3>4, <3>5, Zenon DEF BitOfPrefix
        <3>7. p \in attr[mb] <=> BitOfPrefix(asnNr, mb, p)
            BY <2>2, <3>1, PrefixAsBits DEF IInv
        <3>8. ASSUME NEW s \in 1..Len(rs), Decides(rs, Len(rs), s, p)
              PROVE  s = r
            <4>1. p \in RangeBits(rs[s]) /\ DOMAIN rs = 1..Len(rs)
                BY <2>2, <3>8 DEF Decides, Covers
            <4>2. QED
                BY <2>4, <4>1 DEF Disjoint
        <3>9. WrittenBit(i, p) <=> SourceBit(rs, r, p) \in v
            BY <3>1, <3>8 DEF WrittenBit
        <3>10. QED
            BY <3>6, <3>7, <3>9
    <2> HIDE DEF rs, mb, v
    <2>6. {SourceBit(rs, pr[1], pr[2]) : pr \in {q \in Dealt(rs, Len(rs)) : q[2] \in attr[mb]}}
          = {b \in v : b < Cardinality(Dealt(rs, Len(rs)))}
        BY <2>2, <2>5, ValueCollected
    <2>7. QED
        BY <2>6 DEF FieldValue, rs, mb, v
<1>2. QED
    BY <1>1, Invariance, PTL
=============================================================================
