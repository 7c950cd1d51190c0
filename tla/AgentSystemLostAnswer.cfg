SPECIFICATION Spec
CONSTANTS
    Jti = {j1, j2, j3}
    AgentId = {a1}
    Fingerprint = {f1}
    InstallToken = {t1}
    NoAgent = NoAgent
    NoLicense = NoLicense
    LicenseTTL = 1
    Leeway = 0
    InstallTTL = 1
    GraceWindow = 2
    SlideThreshold = 1
    MaxTime = 2
    MaxConfig = 0
PROPERTY UnexpiredLicenceIsNotRevoked
CHECK_DEADLOCK FALSE
