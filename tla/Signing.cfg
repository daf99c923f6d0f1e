SPECIFICATION SigningSpec
CHECK_DEADLOCK FALSE
CONSTANTS
    N = 4
    CosiRoot = 0
    NSubTrees = 2
    MaxDown = 1
    MaxLate = 1
    LinkNodes = {"a", "b"}
    LinkLeader = "a"
    LinkThreshold = 1
    BaseHeight = 2
    MaximumHeight = 3
    MaxIndex = 5
    FSelf = "s"
    FOthers = {"l", "o", "p"}
    FLeader = "l"
    FChains = {"c"}
    FKeys = {"k"}
    FMaxList = 1
    FtN = 5
    FtRoot = 1
    FtSubTrees = 2
    FtThreshold = 4
    FtMaxDown = 1
    CosiN = 5
    BftN = 4
    BftMaxDown = 1
    MsgN = 4
    DkgN = 3
    CalNodes = {1, 2, 3}
    CalRosters = {{1, 2}, {1, 2, 3}}
    CalMaxSharings = 2
    EvNodes = 2
    EvVoters = {"u", "w"}
    EvAdminSets = {{"u"}}
    EvVotes = {1}
    EvMaxBallots = 3
    EvMaxUpdates = 2
    EvMaxRuns = 2
INVARIANTS
    SigningTypeOK
    BlsRight
    LinksRight
    
    OlderCosiRight
    
    
    
