----------------------------- MODULE MCEventAttr -----------------------------
(* Words of W bits, three keys and "period", and format directories that     *)
(* put two fields into one member, two members behind one another, that      *)
(* overlap, lack a file or hold a malformed one.  The loop over a range list *)
(* is also run by itself, on every list of at most two ranges, overlapping   *)
(* or not, and every list of MaxRanges disjoint ranges.                      *)
EXTENDS EventAttr, ApplyRanges, TLC

CONSTANTS event_, umask, inv, MaxTerms, MaxRanges

Bit(b) == [start |-> b, end |-> b]
From(a, b) == [start |-> a, end |-> b]
Def(m, rs) == [member |-> m, ranges |-> rs]

\* "config:0-1,3", "config:2", "config1:0-1"
Split == event_ :> Def("config", <<From(0, 1), Bit(3)>>)
         @@ umask :> Def("config", <<Bit(2)>>)
         @@ inv :> Def("config1", <<From(0, 1)>>)
\* the ranges of umask are out of order and overlap those of event
Overlap == event_ :> Def("config2", <<From(0, 2)>>)
           @@ umask :> Def("config2", <<Bit(3), From(1, 2)>>)
           @@ inv :> Def("config", <<From(0, 3)>>)
Broken == event_ :> Def("config", <<From(0, 1)>>) @@ umask :> Malformed @@ inv :> Absent

MCFormats == {Split, Overlap, Broken}

MCTerms ==
    [key : Keys \ {inv}, value : {{1}, {0, 2, 3}}]
    \cup {[key |-> inv, value |-> {0, 1}], [key |-> Period, value |-> {0}], Malformed}

MCLists ==
    UNION {[1..n -> Ranges] : n \in 0..2} \cup {l \in [1..MaxRanges -> Ranges] : Disjoint(l)}

MCEvents == UNION {[1..n -> MCTerms] : n \in 1..MaxTerms}

MCAttrs ==
    {[type |-> 0, config |-> c, config1 |-> {}, config2 |-> c] : c \in {{}, Bits}}

-----------------------------------------------------------------------------
\* One of the two is called; the other one stands at its beginning.
NoLoop == list = <<>> /\ value = {} /\ old = {} /\ LoopInit
NoCall == /\ event = <<Malformed>> /\ present = FALSE /\ type = NotANumber
          /\ format = Split /\ attr0 = [type |-> 0, config |-> {}, config1 |-> {}, config2 |-> {}]
          /\ Init

EitherInit == (NoLoop /\ Init) \/ (NoCall /\ LoopInit)
EitherNext ==
    \/ Next /\ list = <<>> /\ UNCHANGED loopVars
    \/ ApplyNextRange /\ UNCHANGED vars

EitherSpec == EitherInit /\ [][EitherNext]_<<vars, loopVars>>
=============================================================================
