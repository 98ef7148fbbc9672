CONSTANTS
    e1 = e1
    pw = pw
    term = term
    adm = adm
    box = box
    NoApp = NoApp
    Controls <- MCControls
    App <- MCApp
    Literal <- MCLiteral
    Password <- MCPassword
    Elevated = {}
    Sendable <- MCSendable
    MaxMessages = 3
    MaxActs = 2
SPECIFICATION Spec
INVARIANT NeverShowNoOpMode
CHECK_DEADLOCK FALSE
