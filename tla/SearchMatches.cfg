SPECIFICATION Spec
CONSTANTS
    h1 = h1
    h2 = h2
    f = f
    k1 = k1
    k2 = k2
    Holders = {h1, h2}
    Files = {f}
    Keywords = {k1, k2}
    Count <- TwoChunks
    Matching <- BothMatch
    Shared <- NobodyHasAll
    Searches <- OneAndBoth
    MaxReplies = 3
    MaxDownloads = 1
    MaxDeletions = 1
SYMMETRY Symmetry
CHECK_DEADLOCK FALSE
INVARIANTS
    FoundIsShown
    ShownOnce
PROPERTIES
    FoundIsWhole
