SPECIFICATION Spec
CONSTANTS
    k1 = k1
    k2 = k2
    n1 = n1
    n2 = n2
    a1 = a1
    None = None
    Key = {k1, k2}
    Nonce = {n1, n2}
    Env <- MCEnv
    Admin = {a1}
    InitialKeys = {}
    AuthKeys = {k1}
    AuthLate = TRUE
    Skew = 1
    MaxLifetime = 1
    Retention = 3
    MaxBack = 1
    IntMax = 11
    MaxSafe = 5
    MaxTime = 4
    MaxKeyOps = 2
    MaxFaults = 2
INVARIANT TypeOK
INVARIANT AtMostOnce
INVARIANT RevocationHolds
INVARIANT LogMatchesEffect
PROPERTY BurnsOnlyValid
