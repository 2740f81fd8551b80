SPECIFICATION Spec
CONSTANTS
    Message = {m1}
    Worker = {w1, w2}
    Consumer = {c1, c2}
    Nobody = Nobody
    BatchSize = 1
    MaxAttempts = 2
    MaxReceive = 2
    MaxCopies = 2
    MaxFaults = 2
INVARIANTS MessagesAccounted
PROPERTIES SettledByHolder EventuallySettled
CHECK_DEADLOCK FALSE
