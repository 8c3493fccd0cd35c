SPECIFICATION Spec
CONSTANTS
    Loop = Loop
    Callback = {c1, c2}
    Request = {q1}
    None = None
    MaxDisturbances = 3
INVARIANT TypeOK
INVARIANT Announced
INVARIANT TokenSurvives
INVARIANT KickNotLost
PROPERTY SnapshotArrives
