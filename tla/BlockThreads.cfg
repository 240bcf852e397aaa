SPECIFICATION ThreadSpec
CONSTANTS
    Txs <- OneTx
    Nonces = {1, 2}
    Payloads <- EmptyOrClaim
    Pools <- EmptyOrFullPool
    Roots <- OnlyGenesis
    MaxBlocks = 5
    MaxPending = 0
CHECK_DEADLOCK FALSE
INVARIANTS
    OneTree
    HeadLengthsAreRight
    HeadsAreLeavesAtRest
    MainIsHeadAtRest
