SPECIFICATION Spec
CONSTANTS
    Pids = {p1}
    NoPid = NoPid
    Sizes = {27, 50, 51}
    ShortHeader = 28
    LongHeader = 51
INVARIANTS LayoutFresh CrashCause
