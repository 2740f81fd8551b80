SPECIFICATION Spec
CONSTANTS
    IncludedVersions = 2
    MaximumVersions = 3
    Content = {c1,c2,c3}
    Item = {i, o}
    OutOfScope = {o}
    Tx = {t1, t2}
    Price = 1
    MaxReorgs = 2
    MaxNonces = 2
    None = None
SYMMETRY Symmetric
INVARIANTS VersionsInOrder PaidVersionsFunded EscrowConserved ConfirmedIsPaid
CHECK_DEADLOCK FALSE
