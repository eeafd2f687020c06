--------------------------- MODULE MCPmuDiscovery ---------------------------
(* A hybrid x86 or Arm system in small: "cpu", a core PMU with a cpus file,  *)
(* two instances of the uncore class "unc", and one of the class "unc_free", *)
(* whose name begins with that of the other class.                           *)
EXTENDS PmuDiscovery, TLC

Core == <<"default_core">>
Cpu == <<"cpu">>
Atom == <<"cpu", "_", "atom">>
Unc0 == <<"unc", "_", "0">>
Unc1 == <<"unc", "_", "1">>
UncFree == <<"unc", "_", "free">>

MCDevices == {Cpu, Atom, Unc0, Unc1, UncFree}
MCTable == <<Core, <<"unc">>, UncFree>>
MCNumerals == {"0", "1"}

None == [cpus |-> NoFile, cpumask |-> NoFile]
Cpus(S) == [cpus |-> S, cpumask |-> NoFile]
Mask(S) == [cpus |-> NoFile, cpumask |-> S]
Both(S, T) == [cpus |-> S, cpumask |-> T]

MCFileSets ==
    {Cpu :> None @@ Atom :> Cpus({1}) @@ Unc0 :> u @@ Unc1 :> Mask({2}) @@ UncFree :> Both({}, {0}) :
        u \in {Mask({0}), Mask({}), None}}

\* All CPUs, or one below the last is offline: then the count of the others
\* differs from their numbers.
MCOnlines == {{0, 1, 2}, {0, 2}}
=============================================================================
