SPECIFICATION Spec
CONSTANTS
    a = a
    b = b
    c1 = c1
    c2 = c2
    None = None
    NoCfg = NoCfg
    Inst = {a, b}
    ContainerInst = {a}
    ComposeInst = {b}
    RuntimesOf <- MCRuntimesOf
    Cfg = {c1, c2}
    BadCfg = {}
    HardDeletable = {}
    DownMayFail = TRUE
    Ticking = TRUE
    MaxOps = 2
    MaxFaults = 1
    MaxCrashes = 0
INVARIANT TypeOK
INVARIANT OneJobPerInstance
INVARIANT NoLostKick
INVARIANT NoApplyRemoveOverlap
INVARIANT UninstallLeavesNothing
INVARIANT OrphansAreStrangers
PROPERTY InstalledIsEarned
