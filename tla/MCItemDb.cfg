SPECIFICATION FairSpec
CONSTANTS
    Tables <- MCTables
    Fullcodes <- MCFullcodes
    Readers <- MCReaders
    Starter = "starter"
INVARIANTS TypeOK LookupWhole BuiltOnce AddedOnce RangesKnown
PROPERTIES InstanceReturns
CHECK_DEADLOCK FALSE
