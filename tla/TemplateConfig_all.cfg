SPECIFICATION Spec
CONSTANTS
    Key = {"pass", "url"}
    LooksSecret = {"pass"}
    Text = {"", "keep", "a", "line", "${cfg.pass}"}
    RefOf <- MCRefOf
    Control = {"line"}
    Keep = "keep"
    Absent = "absent"
    Template <- MCTemplate
    Handler = {h1, h2}
    Signed = {h1}
    MaxEvents = 2
INVARIANTS
    TypeOK
    SentinelStaysOut
    KeepMeansKeep
    AppDenotes
PROPERTIES
    SecretsHidden
CHECK_DEADLOCK FALSE
