SPECIFICATION FairSpec
CONSTANTS
    Pids = {p1, p2}
    NoPid = NoPid
    Sizes = {80}
    ShortHeader = 28
    LongHeader = 51
INVARIANTS TypeOK ReaderIsLatest ParkedSwitches InputMode
PROPERTIES ImplementsConnection FindsLiveProcess LosesDeadProcess
