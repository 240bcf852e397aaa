SPECIFICATION PrivateSpec
CONSTANTS
    a = a
    b = b
    c = c
    Nodes = {a, b, c}
    Texts = {t}
    Empty = Empty
    Neighbours <- Line
    Routers = {}
    MaxIssued <- TwoFromA
    MaxTimers = 1
    NetCapacity = 1
    LinkCapacity = 1
    HopLimit = 1
    Writers = {b}
    MaxPrivate = 1
INVARIANTS
    NeverStuck
