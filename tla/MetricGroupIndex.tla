-------------------------- MODULE MetricGroupIndex --------------------------
(***************************************************************************)
(* print_metricgroups and the generated describe_metricgroup               *)
(* (src/jevents.py): jevents writes the metric groups in the order Python  *)
(* sorts them, and the C code looks a group up by binary search in the     *)
(* order of strcmp.                                                        *)
(*                                                                         *)
(* jevents keeps every name with the four characters \000 behind it, which *)
(* only the C compiler turns into the terminating 0.  Python therefore     *)
(* compares a backslash where strcmp compares a 0.  Characters are their   *)
(* codes; names hold no backslash.                                         *)
(***************************************************************************)
EXTENDS Integers, SequencesExt

CONSTANTS
    Backslash,  \* the code of "\"
    Names,      \* names a metric group may have
    GroupSets   \* sets of groups that the metricgroups.json files may define

ASSUME BackslashAssumption == Backslash \in Nat
ASSUME NamesAssumption == Names \subseteq Seq(Nat \ {0, Backslash})
ASSUME GroupSetsAssumption == \A S \in GroupSets : S \subseteq Names /\ IsFiniteSet(S)

VARIABLES
    groups,  \* _metricgroups, the keys
    table,   \* metricgroups[], the rows in the order they are written
    group,   \* the argument of describe_metricgroup
    low, high,
    searchPc,  \* "search" or "returned"
    result   \* the name of the row found, or <<>> for NULL

groupVars == <<groups, table, group, low, high, searchPc, result>>

\* a comes before b character by character; the end of a name compares as "end".
Before(a, b, end) ==
    LET x == Append(a, end)
        y == Append(b, end)
    IN  \E i \in (DOMAIN x) \cap (DOMAIN y) :
            /\ \A j \in 1..(i - 1) : x[j] = y[j]
            /\ x[i] < y[i]

PythonBefore(a, b) == Before(a, b, Backslash)
StrcmpBefore(a, b) == Before(a, b, 0)

\* Mutant: sorted the wrong way round.
Metricgroups_Descending(S) ==
    [n \in 1..Cardinality(S) |->
        CHOOSE g \in S : Cardinality({f \in S : PythonBefore(g, f)}) = n - 1]

\* metricgroups[], as print_metricgroups writes it: sorted(_metricgroups)
Metricgroups(S) ==
    [n \in 1..Cardinality(S) |->
        CHOOSE g \in S : Cardinality({f \in S : PythonBefore(f, g)}) = n - 1]

GroupInit ==
    /\ groups \in GroupSets
    /\ table = Metricgroups(groups)
    /\ group \in Names
    /\ low = 0
    /\ high = Cardinality(groups) - 1
    /\ searchPc = "search"
    /\ result = <<>>

-----------------------------------------------------------------------------
mid == (low + high) \div 2
mgroup == table[mid + 1]

Return(name) ==
    /\ searchPc' = "returned"
    /\ result' = name
    /\ UNCHANGED <<groups, table, group, low, high>>

Hit ==
    /\ searchPc = "search"
    /\ low <= high
    /\ mgroup = group
    /\ Return(mgroup)

\* Mutant: the row just looked at stays in the interval.
GoRight_KeepMid ==
    /\ searchPc = "search"
    /\ low <= high
    /\ StrcmpBefore(mgroup, group)
    /\ low' = mid
    /\ UNCHANGED <<groups, table, group, high, searchPc, result>>

\* Mutant: one row too many is skipped.
GoRight_Skip ==
    /\ searchPc = "search"
    /\ low <= high
    /\ StrcmpBefore(mgroup, group)
    /\ low' = mid + 2
    /\ UNCHANGED <<groups, table, group, high, searchPc, result>>

\* cmp < 0
GoRight ==
    /\ searchPc = "search"
    /\ low <= high
    /\ StrcmpBefore(mgroup, group)
    /\ low' = mid + 1
    /\ UNCHANGED <<groups, table, group, high, searchPc, result>>

\* cmp > 0
GoLeft ==
    /\ searchPc = "search"
    /\ low <= high
    /\ StrcmpBefore(group, mgroup)
    /\ high' = mid - 1
    /\ UNCHANGED <<groups, table, group, low, searchPc, result>>

Miss ==
    /\ searchPc = "search"
    /\ low > high
    /\ Return(<<>>)

GroupNext == Hit \/ GoRight \/ GoLeft \/ Miss

GroupSpec == GroupInit /\ [][GroupNext]_groupVars

FairGroupSpec == GroupSpec /\ WF_groupVars(GroupNext)

-----------------------------------------------------------------------------
\* b continues a with a character that sorts before a backslash: an upper
\* case letter, a digit or a punctuation mark.
Extends(a, b) == IsStrictPrefix(a, b) /\ b[Len(a) + 1] < Backslash

(***************************************************************************)
(* What is found is the group asked for, whatever the table.  A group that *)
(* is defined is found as long as no group name is another one with a      *)
(* capital or a digit (any character below a backslash) behind it: then    *)
(* both orders are the same.                                               *)
(***************************************************************************)
FoundUnlessExtended ==
    searchPc = "returned" =>
        /\ result \in {<<>>, group} /\ (group \notin groups => result = <<>>)
        /\ (\A a, b \in groups : ~ Extends(a, b)) /\ group \in groups => result = group

(***************************************************************************)
(* The interval never leaves the rows it may still hold: while the search  *)
(* goes on in a table without such extensions, a group that is defined     *)
(* lies between low and high.                                              *)
(***************************************************************************)
StaysInInterval ==
    searchPc = "search" /\ (\A a, b \in groups : ~ Extends(a, b)) /\ group \in groups =>
        \E n \in low..high : table[n + 1] = group

(***************************************************************************)
(* The search ends, in whatever order the rows are.                        *)
(***************************************************************************)
SearchEnds == <>(searchPc = "returned")
=============================================================================
