SPECIFICATION Spec
CONSTANTS
    Lease = {r1, r2}
    Address = {a, b}
    Proc = {p}
    Deadlines = {3}
    HealthTtl = 1
    ReservationTtl = 1
    MaxTime = 3
    MaxPrices = 1
    MaxLimit = 1
    MaxRounds = 2
    MaxSends = 2
INVARIANTS RegistryHolds PayoutIsAgents AssignmentBacked
PROPERTIES RecordedDepositSurvives
SYMMETRY Symmetry
ACTION_CONSTRAINT Staged
CHECK_DEADLOCK FALSE
