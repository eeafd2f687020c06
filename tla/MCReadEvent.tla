----------------------------- MODULE MCReadEvent -----------------------------
(* A core PMU and two instances of an uncore class, with one event name that *)
(* both tables hold, one that is there twice, and one in the uncore table    *)
(* alone.                                                                    *)
EXTENDS ReadEvent, TLC

CONSTANTS cpu, unc0, unc1, cycles, clockticks, filtered, unknown

Event(name, nr) == [name |-> name, nr |-> nr]
Core == <<Event(cycles, 1), Event(clockticks, 2)>>
Uncore == <<Event(clockticks, 3), Event(filtered, 4), Event(clockticks, 5)>>

MCEntries == cpu :> Core @@ unc0 :> Uncore @@ unc1 :> Uncore
=============================================================================
