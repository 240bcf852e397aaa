SPECIFICATION Spec
CONSTANTS
    a = a
    b = b
    c = c
    Nodes = {a, b}
    Texts = {t}
    Empty = Empty
    Neighbours <- Pair
    Routers = {a}
    MaxIssued <- TwoFromA
    MaxTimers = 1
    NetCapacity = 2
    LinkCapacity = 2
PROPERTIES
    ClientMessageIsPresent
