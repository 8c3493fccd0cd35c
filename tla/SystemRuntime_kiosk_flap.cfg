SPECIFICATION FairSpec
CONSTANTS
    Instance = {i, j}
    Config <- MCKiosk
    Group = {"display", "audio"}
    Digest = {"b1"}
    Files = {"f1", "f2"}
    None = None
    MaxEvents = 1
PROPERTY HolderKeepsSession
CHECK_DEADLOCK FALSE
