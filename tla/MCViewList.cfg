SPECIFICATION FairSpec
CONSTANTS
    a = a
    b = b
    Addresses <- MCAddresses
    Lists <- MCLists
    Contents <- MCContents
    Heights <- MCHeights
INVARIANTS TypeOK GhostNeedsFlip
PROPERTIES ReloadKeepsPlace CatchesUp
