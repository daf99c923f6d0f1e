CONSTANTS
    n1 = n1
    n2 = n2
    n3 = n3
    n4 = n4
    Node = {n1, n2, n3, n4}
    Proposer = {n1}
    SlowLeader = FALSE
    Restarting = {n1, n2, n3, n4}
    MaxProposals = 2
    MaxRestarts = 2
SPECIFICATION Spec
SYMMETRY Alike
CHECK_DEADLOCK FALSE
INVARIANTS TypeOK LatestIsTip NoSplitView
PROPERTY ImplementsLedger
