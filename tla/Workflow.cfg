SPECIFICATION WorkflowSpec
CONSTANTS
    a1 = a1
    a2 = a2
    a3 = a3
    c1 = c1
    c2 = c2
    Agent <- MCAgent
    Revision <- MCRevision
    Cell <- MCCell
    Provider <- MCProvider
    Qualified <- MCQualified
    Limit = 2
    Content = {c1, c2}
    UsedCost <- MCUsedCost
    NoContent = NoContent
    Price = 1
    CostCap = 1
    Deposit = 2
    MaxFundings = 2
    Operation = {o1, o2}
    Input = {i1, i2}
    NoInput = NoInput
    MaxStarted = 1
    MaxFaults = 1
SYMMETRY Alike
INVARIANTS ReservesCovered OverviewSettles OneRevisionPerInput
CHECK_DEADLOCK FALSE
