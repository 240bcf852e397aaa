SPECIFICATION FairSpec
CONSTANTS
    n1 = n1
    n2 = n2
    n3 = n3
    n4 = n4
    Node <- Four
    Neighbours <- Tail4
    Miners = {n1, n4}
    Clients = {n4}
    Names = {"a"}
    BlockHopLimit = 3
    TxHopLimit = 0
    MaxMined = 3
    MaxShared = 1
INVARIANTS
    TypeOK
    Agreement
PROPERTIES
    FloodsEnd

CHECK_DEADLOCK FALSE
