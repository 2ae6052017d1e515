--------------------------- MODULE MCBankTable ---------------------------
(* Two banks, which may be closed, of up to two items.                     *)
EXTENDS BankTable

CONSTANTS a, b

MCBanks   == {a, b}
MCCodes   == {0, 1}
MCAmounts == {0, 100}

==========================================================================
