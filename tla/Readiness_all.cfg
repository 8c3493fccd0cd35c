SPECIFICATION Spec
CONSTANTS
    Run = {r1, r2}
    None = None
    Addr = {ip1}
    Bindings = {TRUE}
    UnhealthyAfter = 2
    MaxDisturbances = 1
INVARIANT TypeOK
INVARIANT Ownership
PROPERTY Truthful
PROPERTY StoppedIsCleared
