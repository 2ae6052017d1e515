SPECIFICATION Spec
CONSTANTS
    Codes <- MCCodes
    Entries <- MCEntries
    Values <- MCValues
INVARIANTS TypeOK LineRenders WeaponShown
CHECK_DEADLOCK FALSE
