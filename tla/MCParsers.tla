------------------------------ MODULE MCParsers ------------------------------
(* The texts of MCRangeLists and the entries of MCEventString: one of the two *)
(* is parsed, and the other one stands at its beginning.                      *)
EXTENDS MCRangeLists, MCEventString

NoList == file = NoFile /\ asFormat = FALSE /\ ParseInit
NoString == /\ entry = [code |-> Dec(0), ext |-> 0, config |-> Missing, id |-> Missing,
                        fields |-> [f \in 1..2 |-> Missing], filter |-> <<>>, msr |-> Missing,
                        std |-> "none", fixed |-> FALSE]
            /\ Init

EitherInit == (NoList /\ Init) \/ (NoString /\ ParseInit)
EitherNext ==
    \/ Next /\ file = NoFile /\ UNCHANGED parseVars
    \/ ParseNext /\ UNCHANGED vars

EitherSpec == EitherInit /\ [][EitherNext]_<<vars, parseVars>>
=============================================================================
