SPECIFICATION ServicesSpec
CHECK_DEADLOCK FALSE
CONSTANTS
    PNodes <- MCNodes
    PRosters = {"r", "s"}
    PSpans = {1, 2}
    PMaxIndex = 3
    HInstances = {"i", "j"}
    HMaxSize = 3
    HThreshold = 2
    HMaxIndex = 3
    HMaxChanges = 2
    ElMaxNow = 3
    ElMaxEvents = 3
    ElMaxAge = 1
    ElPast = 2
    ElTopics = {"s"}
    ElSearchMax = 2
    BpMaxTip = 5
    BpPageSize = 3
    BpNumPages = 2
    PhAccounts = {"a", "b"}
    PhStart <- MCStart
    PhCosts = {1}
    PhNewCosts = {2}
    PhUpdates = {{"ropasci"}}
    PhOrganizers = {"o", "q"}
    PhLists <- MCLists
    PhReward = 1
    PhGoods = {"credential"}
    PhMaxInstr = 3
    PhMaxGames = 1
INVARIANTS
    ServicesTypeOK
    
    
