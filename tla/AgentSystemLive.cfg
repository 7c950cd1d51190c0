SPECIFICATION FairSpec
CONSTANTS
    Jti = {j1, j2}
    AgentId = {a1}
    Fingerprint = {f1, f2}
    InstallToken = {t1}
    NoAgent = NoAgent
    NoLicense = NoLicense
    LicenseTTL = 1
    Leeway = 0
    InstallTTL = 1
    GraceWindow = 1
    SlideThreshold = 0
    MaxTime = 1
    MaxConfig = 0
PROPERTIES ImplementsAgent ImplementsControlPlane HardStop CancellationBites
CHECK_DEADLOCK FALSE
