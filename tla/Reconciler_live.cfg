SPECIFICATION FairSpec
CONSTANTS
    a = a
    b = b
    c1 = c1
    c2 = c2
    None = None
    NoCfg = NoCfg
    Inst = {a, b}
    ContainerInst = {a}
    ComposeInst = {b}
    RuntimesOf <- MCRuntimesOf
    Cfg = {c1, c2}
    BadCfg = {c2}
    HardDeletable = {a}
    DownMayFail = FALSE
    Ticking = TRUE
    MaxOps = 2
    MaxFaults = 0
    MaxCrashes = 1
INVARIANT ProjectFindable
PROPERTY Converges
PROPERTY QueuedIsServed
PROPERTY DeploysAsAsked
