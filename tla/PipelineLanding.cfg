CONSTANTS
    e1 = e1
    pw = pw
    term = term
    adm = adm
    box = box
    NoApp = NoApp
    Controls <- MCCredential
    App <- MCCredentialApp
    Literal <- MCLiteral
    Password <- MCCredentialField
    Elevated = {}
    Sendable <- MCUtterance
    MaxMessages = 1
    MaxActs = 2
SPECIFICATION MovingOnSpec
INVARIANT LandsAsPromised
CHECK_DEADLOCK FALSE
