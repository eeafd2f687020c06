------------------------------ MODULE MidrMatch ------------------------------
(***************************************************************************)
(* strcmp_cpuid_str on Arm (src/include/pmu-events/aarch64/util.h).  The   *)
(* value of midr_el1 is a record: bits 23-20 are its variant, bits 3-0 its *)
(* revision, and part is all the others.                                   *)
(***************************************************************************)
EXTENDS Naturals

\* 0: the same part, in the version of the row of the map or a later one.
strcmp_cpuid_str(map, id) ==
    IF /\ map.part = id.part
       /\ \/ id.variant > map.variant
          \/ id.variant = map.variant /\ id.revision >= map.revision
    THEN 0
    ELSE 1
=============================================================================
