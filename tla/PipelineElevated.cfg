CONSTANTS
    e1 = e1
    pw = pw
    term = term
    adm = adm
    box = box
    NoApp = NoApp
    Controls <- MCAdmin
    App <- MCAdminApp
    Literal <- MCLiteral
    Password = {}
    Elevated <- MCElevated
    Sendable <- MCSendable
    MaxMessages = 3
    MaxActs = 2
SPECIFICATION Spec
INVARIANT NeverSwallowed
CHECK_DEADLOCK FALSE
