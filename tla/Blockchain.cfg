SPECIFICATION Spec
CONSTANTS
    Txs <- TwoOwners
    Nonces = {1, 2}
    Payloads <- EmptyOrClaim
    Roots <- GenesisAndUnseen
    MaxBlocks = 5
    MaxPending = 1
CHECK_DEADLOCK FALSE
INVARIANTS
    HeadsAreLeaves
    MainChainIsLongest
    NamesComeFromMainChain
    NamesUsedOnceAreTaken
PROPERTIES
    ImplementsTree
