SPECIFICATION StateSpec
CHECK_DEADLOCK FALSE
CONSTANTS
    k1 = k1
    k2 = k2
    ca = ca
    cb = cb
    cv = cv
    cx = cx
    CSigners = {k1, k2}
    CCoins = {ca, cb}
    CValues = {cv}
    CDeferreds = {cx}
    CNames = {"n", "o"}
    CMinter = k1
    COwners <- MCOwners
    CMaxCoin = 3
    CExpire = 1
    CMaxTx = 5
    CMaxIndex = 2
    TcReaders = {"r1", "r2"}
    TcWriter = "w"
    TcDarcs = {"d"}
    TcMaxWrites = 2
    ExTxs <- MCTxs
    ExSigners = {"s", "t"}
    ExMaxTxs = 2
    ExMaxBlocks = 2
    ExTimes = {1, 2}
    ExMaxDownloads = 1
    k3 = k3
    dg = dg
    dd = dd
    de = de
    DKeys = {k1, k2, k3}
    DNames = {dg, dd, de}
    DGenesis = dg
    DGenesisRules <- MCGenesisRules
    DRules <- MCRules
    DMaxVersion = 1
    DMaxPending = 1
    DSigners = {{k1}, {k1, k2}, {k2, k3}}
    TrieKeys <- MCTrieKeys
    TrieValues = {1, 2}
    TrieMaxStaged = 2
    TrieMaxOps = 4
    BvInsts = {"b"}
    BvAddrs = {"p", "q"}
    BvCalls <- MCCalls
    BvAllowed <- MCAllowed
    BvCredit = 3
    BvMaxTx = 4
    BvMaxSteps = 8
INVARIANTS
    LedgerTypeOK
    ContractsRight
    ExecutionRight
    
    TrieRight

    
