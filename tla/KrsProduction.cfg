SPECIFICATION Spec
CONSTANTS
    xA = xA
    xB = xB
    kA = kA
    kBad = kBad
    n1 = n1
    n2 = n2
    good = good
    other = other
    XKeys <- MCXKeys
    KemKeys <- MCKemKeys
    Nonces <- MCNonces
    Measurements <- MCMeasurements
    AllowList <- MCAllowList
    BadKemKeys <- MCBadKemKeys
    Reports <- MCReports
    MinTcb = 1
    RequireNoDebug = TRUE
    RequireSmtDisabled = FALSE
    AttestationError = AttestationError
    DevMeasurement = DevMeasurement
    Handlers = {h1, h2}
    Production = TRUE
    Cap = 1
    MaxRequests = 3
    MaxRestarts = 1
INVARIANTS TypeOK NonceOncePerGeneration GrantedOnlyIfEntitled ReportSpentOncePerGeneration CacheBounded
PROPERTIES EveryRequestAnswered ImplementsLedger
CHECK_DEADLOCK FALSE
