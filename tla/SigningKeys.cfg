SPECIFICATION Spec
CONSTANTS
    Worker = {w1, w2}
    Agent = {a1}
    OldKey = OldKey
    NewKey = NewKey
    NoKey = NoKey
    Unloaded = Unloaded
    NoToken = NoToken
    LicenseTTL = 3
    Leeway = 1
    JwksTTL = 1
    PublishWait = 1
    MaxTime = 6
SYMMETRY Symmetry
INVARIANTS LiveLicencesVerify
PROPERTIES LinkedAgentsFindKeys
CHECK_DEADLOCK FALSE
