SPECIFICATION FairSpec
CONSTANTS
    j1 = j1
    a1 = a1
    f1 = f1
    f2 = f2
    NoLicense = NoLicense
    Jti <- MCJti
    AgentId <- MCAgentId
    Fingerprint <- MCFingerprint
    Offer <- MCOffer
    LicenseTTL = 2
    Leeway = 0
    MaxTime = 3
INVARIANTS MemoryMatchesDisk ExitCodeTellsMode LiveNeedsConfirmation RestrictedForCause
PROPERTIES ShutdownHonoured RevokedExits OfflineGraceEnds
CHECK_DEADLOCK FALSE
