SPECIFICATION Spec
CONSTANTS
    a = a
    b = b
    Items <- MCItems
    Players <- MCPlayers
    NoOwner <- MCNoOwner
    Me = 0
    Codes <- MCCodes
    MaxCount = 2
INVARIANTS TypeOK OnlyHeld TornOnlyIfRewritten QuietOrder
PROPERTIES ImplementsReading
