SPECIFICATION UploadSpec
CONSTANTS
    Client = {a1, a2}
    First = First
    Hour = Hour
    Limit <- MCLimit
    Cost = 1
    NoBucket = NoBucket
    FastInterval = 1
    FastCount = 5
    BaseInterval = 6
    MaxBackoff = 30
    MaxTime = 6
    Upload = {u1, u2, u3}
    TokenTTL = 1
    AfterUse = 1
    NotYet = NotYet
SYMMETRY Symmetry
INVARIANTS AdmissionBound CadenceNotThrottled NoGhostRows StorageBounded
PROPERTY DeadTokenStaysDead
CHECK_DEADLOCK FALSE
