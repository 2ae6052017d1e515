SPECIFICATION Spec
CONSTANTS
    a = a
    b = b
    Banks <- MCBanks
    NoBank = NoBank
    Codes <- MCCodes
    Amounts <- MCAmounts
    MaxCount = 2
INVARIANTS TypeOK OneBank QuietBank
PROPERTIES ImplementsReading
