---------------------------- MODULE MCViewList ----------------------------
(* Small instances of ViewList: two items, on two terminals of which one is *)
(* so low that a page is no line at all.                                    *)
EXTENDS ViewList

CONSTANTS a, b

MCAddresses == {a, b}
MCLists     == {<<>>, <<a>>, <<b>>, <<a, b>>}
MCHeights   == {2, 6}
MCContents  == {1, 2}

===========================================================================
