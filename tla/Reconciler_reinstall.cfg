SPECIFICATION Spec
CONSTANTS
    a = a
    c1 = c1
    None = None
    NoCfg = NoCfg
    Inst = {a}
    ContainerInst = {a}
    ComposeInst = {}
    RuntimesOf <- MCRuntimesOf
    Cfg = {c1}
    BadCfg = {}
    HardDeletable = {}
    DownMayFail = FALSE
    Ticking = TRUE
    MaxOps = 3
    MaxFaults = 0
    MaxCrashes = 0
PROPERTY OnlyRemovedRowsDeleted
