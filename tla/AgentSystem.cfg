SPECIFICATION Spec
CONSTANTS
    Jti = {j1, j2, j3}
    AgentId = {a1, a2}
    Fingerprint = {f1, f2}
    InstallToken = {t1}
    NoAgent = NoAgent
    NoLicense = NoLicense
    LicenseTTL = 1
    Leeway = 0
    InstallTTL = 1
    GraceWindow = 2
    SlideThreshold = 1
    MaxTime = 1
    MaxConfig = 0
SYMMETRY Symmetry
INVARIANTS RunningHoldsLiveLicence CleanStopLeavesLiveLicence
CHECK_DEADLOCK FALSE
