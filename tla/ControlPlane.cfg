SPECIFICATION Spec
CONSTANTS
    Jti = {j1, j2, j3}
    AgentId = {a1, a2}
    Fingerprint = {f1, f2}
    InstallToken = {t1, t2}
    NoAgent = NoAgent
    LicenseTTL = 2
    Leeway = 1
    InstallTTL = 1
    GraceWindow = 1
    SlideThreshold = 0
    MaxTime = 3
    MaxConfig = 1
SYMMETRY Symmetry
INVARIANTS OneLiveHeir IdentityBinding GraceWithinWindow
PROPERTIES ChainSpec BarredNotRenewed
CHECK_DEADLOCK FALSE
