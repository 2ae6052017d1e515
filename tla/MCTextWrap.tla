---------------------------- MODULE MCTextWrap ----------------------------
(* Messages of up to three lines, on terminals too small for most of them. *)
EXTENDS TextWrap

MCChars == {" ", "x"}

LinesUpTo(n) == UNION {[1 .. k -> MCChars] : k \in 1 .. n}

Messages ==
    {<<>>}
    \cup {<<l>> : l \in LinesUpTo(7)}
    \cup {<<l, m>> : l, m \in LinesUpTo(4)}
    \cup {<<l, m, n>> : l, m, n \in LinesUpTo(2)}

MCTexts == Messages
MCWidths == 0 .. 4
MCHeights == 0 .. 4
MCSpace == " "

===========================================================================
