SPECIFICATION Spec
CONSTANTS
    f1 = f1
    f2 = f2
    f3 = f3
    t1 = t1
    t2 = t2
    Side = {publisher, provider}
    Category = {k1}
    Arbiter = {p, q}
    Event <- MCEvent
    TxOf <- MCTxOf
    Bps = {0, 1}
    Tier = {0}
    Window = 1
    Eligible = 1
    None = None
    MaxTime = 4
    MaxDecisions = 2
INVARIANT AwardsHold
PROPERTIES NothingUnfrozen
SYMMETRY Symmetric
CHECK_DEADLOCK FALSE
