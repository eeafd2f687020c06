---------------------------- MODULE ApplyRanges ----------------------------
(***************************************************************************)
(* apply_range_list_to_val (src/src/pmu-events.c): deal the bits of a      *)
(* value out to the ranges of a perf_event_attr member, one range per      *)
(* iteration of the loop.                                                  *)
(***************************************************************************)
EXTENDS BitField

CONSTANT Lists  \* the range lists a format file may hold

ASSUME ListsAssumption == Lists \subseteq Seq(Ranges)

VARIABLES
    list,     \* range_list: the ranges, in the order of the format file
    value,    \* the value the caller passed as to_apply
    old,      \* the caller's *config before the call
    config,   \* *config
    toApply,  \* to_apply: the bits of the value not dealt out yet
    rangeNr   \* range_nr: how many ranges have been applied

loopArgs == <<list, value, old>>
loopVars == <<list, value, old, config, toApply, rangeNr>>

LoopInit ==
    /\ list \in Lists
    /\ value \in Words
    /\ old \in Words
    /\ config = old
    /\ toApply = value
    /\ rangeNr = 0

\* One iteration of the loop.
ApplyNextRange ==
    /\ rangeNr < Len(list)
    /\ LET range == list[rangeNr + 1]
       IN  /\ config' = ApplyRange(config, toApply, range)
           /\ toApply' \in ShiftRightOutcomes(toApply, RangeLen(range))
    /\ rangeNr' = rangeNr + 1
    /\ UNCHANGED loopArgs

LoopSpec == LoopInit /\ [][ApplyNextRange]_loopVars

-----------------------------------------------------------------------------
Returned == rangeNr = Len(list)

\* What the loop works on, for the proofs about it.
TypeOK ==
    /\ list \in Lists
    /\ value \in Words
    /\ old \in Words
    /\ config \in Words
    /\ toApply \in Words
    /\ rangeNr \in 0..Len(list)

(***************************************************************************)
(* Bits outside the ranges keep the caller's value after every iteration,  *)
(* however the ranges overlap: gen_attr_for_event builds a member out of   *)
(* several assignments and relies on it.                                   *)
(***************************************************************************)
OutsideUntouched ==
    \A p \in Bits \ Covered(list, rangeNr) : p \in config <=> p \in old

(***************************************************************************)
(* After every iteration, a position that some range covers holds the bit  *)
(* of the value that the last such range was dealt, and 0 once the value   *)
(* is used up: what the comment above apply_range_list_to_val says of      *)
(* "config1:0-7,32-39", for any list, overlapping ranges included.         *)
(***************************************************************************)
LastRangeDecides ==
    ShiftsDefined(list) =>
        \A p \in Bits : \A i \in 1..rangeNr :
            Decides(list, rangeNr, i, p) =>
                (p \in config <=> SourceBit(list, i, p) \in value)

(***************************************************************************)
(* With disjoint ranges no bit is lost on the way: collecting the ranges   *)
(* of the result in order gives the value back, cut to as many bits as     *)
(* the ranges hold.                                                        *)
(***************************************************************************)
ValueReadsBack ==
    Returned /\ Disjoint(list) =>
        {SourceBit(list, pr[1], pr[2]) :
            pr \in {q \in Dealt(list, Len(list)) : q[2] \in config}}
        = {b \in value : b < Cardinality(Dealt(list, Len(list)))}
=============================================================================
