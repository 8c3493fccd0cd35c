SPECIFICATION Spec
CONSTANTS
    Loop = Loop
    Callback = {c1}
    Request = {}
    None = None
    MaxDisturbances = 1
INVARIANT NoPanic
