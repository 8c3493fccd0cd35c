SPECIFICATION FairSpec
CONSTANTS
    Instance = {i, j}
    Config <- MCConfig
    Group = {"display", "audio"}
    Digest = {"b1", "b2"}
    Files = {"f1", "f2"}
    None = None
    MaxEvents = 2
INVARIANTS TypeOK GoneIsGone DesktopRecorded ReportedRuns
PROPERTIES OneUserPerGroup Served
CHECK_DEADLOCK FALSE
