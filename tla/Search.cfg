SPECIFICATION FairSpec
CONSTANTS
    a = a
    b = b
    c = c
    d = d
    Nodes = {a, b, c, d}
    NoHop = NoHop
    Keywords = {k}
    Peers <- Kite
    NextHops <- KiteHops
    Budgets = {4}
    MaxBudget = 16
    Owners = {d}
    Slow = {b}
    Budgeting = {b}
    Repeating = {a}
    MaxSearches = 1
    MaxLost = 1
CHECK_DEADLOCK FALSE
INVARIANTS
    BudgetIsKept
    OneAnswerPerRound
PROPERTIES
    EveryNodeIsAsked
