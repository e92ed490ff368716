SPECIFICATION KRSpec
CONSTANTS
    c1 = c1
    c2 = c2
    x = x
    kem = kem
    bound = bound
    n1 = n1
    n2 = n2
    good = good
    XKeys <- MCXKeys
    KemKeys <- MCKemKeys
    Nonces <- MCNonces
    Measurements <- MCMeasurements
    AllowList <- MCMeasurements
    BadKemKeys = {}
    Reports <- MCReports
    MinTcb = 1
    RequireNoDebug = TRUE
    RequireSmtDisabled = FALSE
    AttestationError = AttestationError
    DevMeasurement = DevMeasurement
    Handlers = {c1, c2}
    XKeyOf <- MCXKeyOf
    KemKeyOf <- MCKemKeyOf
    ReportOf <- MCReportOf
    DrawnNonce <- MCDrawnNonce
    PinChoices <- AllRight
    Backlog = 1
    Production = TRUE
    Cap = 1
    MaxRequests = 3
    MaxRestarts = 1
INVARIANT ReportMatchesRequest
CHECK_DEADLOCK FALSE
