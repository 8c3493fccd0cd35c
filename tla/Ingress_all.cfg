SPECIFICATION Spec
CONSTANTS
    Domain = {d}
    Invalid = {}
    Instance = {i}
    Port = {p}
    Reserved = {}
    Handler = {h}
    Containerized = TRUE
    Broken = Broken
    NoHash = NoHash
    Faults = TRUE
    MaxEvents = 2
INVARIANTS TypeOK NoLostUpdate StatusSettles InSync
CHECK_DEADLOCK FALSE
