SPECIFICATION Spec
CONSTANTS
    w = w
    Wallet = {w, v}
    Nonce = {n1, n2, n3}
    Login = {l1, l2}
    ChallengeTTL = 1
    SessionTTL = 2
    Minute = 2
    WalletLimit = 2
    ShardLimit = 2
    MaxTime = 3
    Agents = 2
    t1 = t1
    Token = {t1, t2}
    Other = Other
    Key = {k1, k2}
    Process = {p1, p2}
    Configured <- MCConfigured
    None = None
    MaxVersions <- MCVersions
    MaxEdits <- MCEdits
    Owner <- MCOwner
INVARIANTS LoginsHold CredentialsHold
SYMMETRY Symmetry
ACTION_CONSTRAINT Staged
CHECK_DEADLOCK FALSE
