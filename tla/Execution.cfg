SPECIFICATION Spec
CONSTANTS
    Exec = {e1}
    Content = {c1, c2}
    NoContent = NoContent
    CostCap = 1
    LeaseTTL = 1
    Deadline = 1
    MaxConcurrency = 1
    FlakyStore = TRUE
    MaxAttempts = 2
    MaxPolls = 1
    MaxTime = 1
INVARIANTS TablesAgree OneResult
PROPERTIES CancelPrevails PromiseKept
CHECK_DEADLOCK FALSE
