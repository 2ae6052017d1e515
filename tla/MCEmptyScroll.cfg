SPECIFICATION Spec
CONSTANTS
    a = a
    b = b
    Addresses <- MCAddresses
    Lists <- MCLists
    Contents <- MCContents
    Heights <- MCHeights
INVARIANT RenderStartsInList
