------------------------- MODULE MCMetricGroupIndex -------------------------
(* Names of up to three characters over one that sorts before the backslash  *)
(* ("B") and one that sorts behind it ("a"); every set of at most MaxGroups. *)
EXTENDS MetricGroupIndex, FiniteSetsExt

CONSTANTS Upper, Lower, MaxGroups

MCNames == UNION {[1..n -> {Upper, Lower}] : n \in 1..3}
MCGroupSets == UNION {kSubset(n, MCNames) : n \in 0..MaxGroups}
=============================================================================
