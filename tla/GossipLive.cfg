SPECIFICATION FairSpec
CONSTANTS
    a = a
    b = b
    c = c
    Nodes = {a, b, c}
    Texts = {t}
    Empty = Empty
    Neighbours <- Line
    Routers = {}
    MaxIssued <- OneFromA
    MaxTimers = 1
    NetCapacity = 8
    LinkCapacity = 1
PROPERTIES
    EveryRumorArrives
