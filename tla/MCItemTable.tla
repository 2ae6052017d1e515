--------------------------- MODULE MCItemTable ---------------------------
(* A table of two slots, enough for an item to move up and be met twice.   *)
EXTENDS ItemTable

CONSTANTS a, b

MCItems   == {a, b}
MCPlayers == {0, 1}
MCCodes   == {1, 2}
MCNoOwner == -1

==========================================================================
