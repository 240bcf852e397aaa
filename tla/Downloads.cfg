SPECIFICATION FairSpec
CONSTANTS
    o1 = o1
    o2 = o2
    o3 = o3
    o4 = o4
    f1 = f1
    f2 = f2
    f3 = f3
    f4 = f4
    c1 = c1
    c2 = c2
    d1 = d1
    d2 = d2
    e1 = e1
    e2 = e2
    Files = {f1, f2, f3, f4}
    ChunkIds = {c1, c2, d1, d2, e1, e2}
    Chunks <- ChunksOf
    Origins = {o1, o2, o3, o4}
    Holds <- Serving
    Places <- Split
    Keywords <- OneKeyword
    Requestable <- Nodes
    Searched = {f2}
    Untimely = {o1}
    Ended = Ended
    Sessions <- OneOrTwo
    MaxCommands = 1
    MaxMishaps = 2
    MaxExpired = 2
INVARIANTS
    WrittenInOrder
    DoneIsWhole
    OffersOnlyWritten
    UndisturbedIsExact
PROPERTIES
    DownloadCompletes
CHECK_DEADLOCK FALSE
