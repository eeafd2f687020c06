------------------------------ MODULE BitField ------------------------------
(***************************************************************************)
(* Machine words and range lists, as apply_range_list_to_val               *)
(* (src/src/pmu-events.c) uses them.  A word is the set of the positions   *)
(* of its 1 bits, so &, | and ~ are \cap, \cup and \ , and the width of    *)
(* the type is the constant W (64 in the code).                            *)
(***************************************************************************)
EXTENDS Integers, Sequences, FiniteSets

CONSTANT W

ASSUME WidthAssumption == W \in Nat \ {0}

Bits == 0..(W - 1)
Words == SUBSET Bits

(***************************************************************************)
(* struct range: the positions start..end of a word.  The kernel's format  *)
(* files hold only ranges that lie inside a word.                          *)
(***************************************************************************)
Ranges == {r \in [start : Bits, end : Bits] : r.start <= r.end}

RangeBits(r) == r.start..r.end

\* Mutant: the bound of the range taken as exclusive.
RangeLen_Exclusive(r) == r.end - r.start
RangeLen(r) == r.end - r.start + 1

\* x << k and x >> k on W-bit words, for k < W
ShiftLeft(x, k) == {b \in Bits : b - k \in x}
ShiftRight(x, k) == {b \in Bits : b + k \in x}

(***************************************************************************)
(* x >> k as the build evaluates it.  A shift by the whole width is        *)
(* undefined in C: the count is reduced modulo the width by the shifter of *)
(* the processor (the value is unchanged), or a compiler that folds the    *)
(* shift yields 0.                                                         *)
(***************************************************************************)
ShiftRightOutcomes(x, k) == IF k < W THEN {ShiftRight(x, k)} ELSE {x, {}}

\* (UINT64_MAX >> (64 - range_len)) << range.start
MaskOf(r) == ShiftLeft(ShiftRight(Bits, W - RangeLen(r)), r.start)

\* Mutant: the shifted value is neither masked nor cut to the word.
ApplyRange_Unmasked(config, toApply, r) ==
    (config \ MaskOf(r)) \cup {t + r.start : t \in toApply}

\* Mutant: what the range held before is not cleared.
ApplyRange_NotCleared(config, toApply, r) ==
    config \cup (ShiftLeft(toApply, r.start) \cap MaskOf(r))

\* The word "config" after one range has taken its share of "toApply".
ApplyRange(config, toApply, r) ==
    (config \ MaskOf(r)) \cup (ShiftLeft(toApply, r.start) \cap MaskOf(r))

-----------------------------------------------------------------------------
(***************************************************************************)
(* What a range list means, stated without shifts: the bits of a value are *)
(* dealt out to the ranges in the order of the list, lowest bit first.     *)
(***************************************************************************)

\* The positions dealt out by the first n ranges, one pair for every bit.
Dealt(list, n) ==
    {pr \in (1..n) \X Bits : pr[2] \in RangeBits(list[pr[1]])}

\* The bit of the value that range i puts at position p.
SourceBit(list, i, p) == Cardinality(Dealt(list, i - 1)) + p - list[i].start

Covers(list, i, p) == p \in RangeBits(list[i])
Covered(list, n) == {p \in Bits : \E i \in 1..n : Covers(list, i, p)}

\* Range i, among the first n, has the last word on position p.
Decides(list, n, i, p) ==
    /\ i \in 1..n
    /\ Covers(list, i, p)
    /\ \A j \in (i + 1)..n : ~ Covers(list, j, p)

Disjoint(list) ==
    \A i, j \in DOMAIN list : i # j => RangeBits(list[i]) \cap RangeBits(list[j]) = {}

\* No range but the last spans the whole word: no shift is undefined before
\* its result is used.
ShiftsDefined(list) == \A i \in 1..(Len(list) - 1) : RangeLen(list[i]) < W
=============================================================================
