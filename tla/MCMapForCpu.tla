----------------------------- MODULE MCMapForCpu -----------------------------
(* Two CPUs of an Arm system, and rows for an early and a late version of    *)
(* one part, the late one first, with the row of another part between them.  *)
(* The early row matches both versions, the late one only its own.           *)
EXTENDS MapForCpu, MidrMatch

CONSTANTS a53, a72, unlisted

Midr(p, v, r) == [part |-> p, variant |-> v, revision |-> r]

\* cpuid of the rows of pmu_events_map
MCTable == <<Midr(a53, 1, 0), Midr(a72, 0, 0), Midr(a53, 0, 2)>>

MCIds == {Midr(a53, 1, 1), Midr(a53, 0, 3), Midr(a72, 1, 0), Midr(unlisted, 0, 0)}

MCMatching == [r \in DOMAIN MCTable |-> {id \in MCIds : strcmp_cpuid_str(MCTable[r], id) = 0}]
=============================================================================
