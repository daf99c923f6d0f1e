CONSTANTS
    n1 = n1
    n2 = n2
    n3 = n3
    n4 = n4
    Node = {n1, n2, n3, n4}
    Proposer = {n1}
    SlowLeader = TRUE
    Restarting = {}
    MaxProposals = 3
    MaxRestarts = 0
SPECIFICATION Spec
SYMMETRY Alike
CHECK_DEADLOCK FALSE
INVARIANT NoSplitView
