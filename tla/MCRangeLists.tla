---------------------------- MODULE MCRangeLists ----------------------------
(* Every text of at most MaxLen characters over two digits, the dash, the    *)
(* comma and a letter, and every two terms of at most three characters,     *)
(* behind a member or not, with and without a newline.                       *)
EXTENDS RangeLists

CONSTANTS config, config1, letter, MaxLen

MCChars == {1, 2, Dash, Comma, letter}
MCAllChars == MCChars \cup {config, config1, Newline}
MCTerms == BoundedSeq({1, 2, Dash}, 3)
MCTexts ==
    BoundedSeq(MCChars, MaxLen)
    \cup {s \o <<Comma>> \o t : s, t \in MCTerms}
MCFiles ==
    {<<m>> \o s \o <<Newline>> : m \in {config, config1}, s \in MCTexts}
    \cup {s \o <<Newline>> : s \in MCTexts}
    \cup BoundedSeq(MCChars, 2)

\* The buffer holds a 0 behind the text, or something else before it.
MCLeftovers == {<<>>, <<letter>>, <<1, Newline>>}
=============================================================================
