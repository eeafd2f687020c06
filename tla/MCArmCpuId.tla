----------------------------- MODULE MCArmCpuId -----------------------------
(* Five CPUs in two clusters, the numbers of the second with two digits, so  *)
(* that a list cut short can name other CPUs than the whole one.             *)
EXTENDS ArmCpuId

CONSTANTS a53, a72

MCCpus == {0, 1, 2, 10, 12}
MCAsked == {-1, 0, 12}
MCMidr == [c \in MCCpus |-> IF c < 10 THEN a53 ELSE a72]

MCDecimal == [n \in MCCpus |-> IF n < 10 THEN <<n>> ELSE <<n \div 10, n % 10>>]

Runs(S) ==
    {r \in [first : S, last : S] :
        r.first..r.last \subseteq S /\ r.first <= r.last /\ {r.first - 1, r.last + 1} \cap S = {}}
MCOnlineRuns ==
    [S \in SUBSET MCCpus \ {{}} |-> SetToSortSeq(Runs(S), LAMBDA p, q : p.first < q.first)]
=============================================================================
