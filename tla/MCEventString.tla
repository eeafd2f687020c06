----------------------------- MODULE MCEventString ----------------------------
EXTENDS EventString

Dec(n) == [base |-> 10, n |-> n]
Hex(n) == [base |-> 16, n |-> n]

\* One digit, the last one-digit number, the first two-digit number, and one
\* that needs the prefix to be told from its decimal reading.
MCNumerals == {Dec(0), Dec(9), Dec(10), Hex(0), Hex(16)}

MCCodes == {Dec(0), Hex(16)}
MCConfigCodes == {Missing, Hex(3)}
MCIdCodes == {Missing, Hex(17)}
MCFieldKeys == <<"cmask", "umask">>
MCFields == [1..2 -> {Missing, Malformed} \cup MCNumerals]
MCFilters == {<<>>, <<Term("filter_nm", Hex(1)), Term("filter_opc", Dec(20))>>}
MCMsrs == {Missing, Malformed, Term("ldlat", Hex(12))}
MCStdEvent == <<Term("event", Hex(20))>>
MCFixedEvent == <<Term("event", Hex(19)), Term("period", Dec(7))>>
=============================================================================
