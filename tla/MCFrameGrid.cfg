SPECIFICATION Spec
CONSTANTS
    Windows <- MCWindows
    Values <- MCValues
    Blank <- MCBlank
INVARIANTS TypeOK FrameExact UnpressedUnchanged
PROPERTIES FrameShown
