SPECIFICATION Spec
CONSTANTS
    t1 = t1
    t2 = t2
    pub = pub
    ctl = ctl
    gov = gov
    safe = safe
    i1 = i1
    i2 = i2
    zero = zero
    TaskId <- MCTaskId
    PublisherOf <- MCPublisherOf
    BudgetOf <- MCBudgetOf
    FundBefore <- MCFundBefore
    Account <- MCAccount
    Id = {i1, i2}
    Zero = zero
    SelectionProof <- MCSelectionProof
    Admin = gov
    Guardian = safe
    Signer = {gov, safe}
    Resolver = {gov, safe}
    FirstResolver = safe
    FirstSigner = gov
    CoolingOff = 1
    MaxTime = 1
    MaxNonce = 2
INVARIANTS TypeOK Solvency YieldTracksPrincipal OneTimeIds ExitsOpen TaskConservation
PROPERTIES DisputeTermsHold PositionsHold
CHECK_DEADLOCK FALSE
