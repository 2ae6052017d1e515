SPECIFICATION Spec
CONSTANTS
    Texts <- MCTexts
    Widths <- MCWidths
    Heights <- MCHeights
    Chars <- MCChars
    Space <- MCSpace
INVARIANTS TypeOK NoEmptyRow FitsWidth MessageShown
PROPERTIES Advances
CHECK_DEADLOCK FALSE
