SPECIFICATION Spec
CONSTANTS
    r = r
    a1 = a1
    a2 = a2
    a3 = a3
    b1 = b1
    b2 = b2
    t1 = t1
    t2 = t2
    c1 = c1
    s2 = s2
    x3 = x3
    w4 = w4
    y3 = y3
    y4 = y4
    f2 = f2
    f3 = f3
    f4 = f4
    f5 = f5
    None = None
    Block <- ForkBlock
    Tx = {t1, t2}
    Parent <- ForkParent
    Height <- ForkHeight
    FailedIn <- ForkFailed
    EventsIn <- ForkEvents
    Root = r
    Projector = {p1, p2}
    Confirmations = 1
    MaxReorgDepth = 2
    PriorAccounts = {}
    Budget = 1
    Payable = 1
    MaxReorgs = 2
SYMMETRY Projectors
INVARIANTS FollowsChain NoWorkUnfunded Converges
PROPERTY IndexHolds
