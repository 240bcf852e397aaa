SPECIFICATION PartsSpec
CONSTANTS
    n1 = n1
    n2 = n2
    n3 = n3
    n4 = n4
    Node <- Four
    Clients = {n1, n3, n4}
    Texts = {"a"}
    InitialPeers <- TreePeers
    MaxShown = 2
    MaxLost = 1
    MaxTimers = 4
    Names = {"x", "y", "z"}
    Contents <- AllContents
    CHUNK_SIZE = 2
    MAX_FILE_SIZE = 4
    Reuse = FALSE
    ShareRequested = FALSE
INVARIANTS
    OnceEach
    WayBack
    NoStaleEntries
    StoppedLeavesTheList
    TypeOK
    AnswersMatch
    OfferedCanBeHad
    DoneIsWhole
PROPERTIES
    AudienceHears
    RetriedUntilAnswered
CHECK_DEADLOCK FALSE
