SPECIFICATION Spec
CONSTANTS
    a = a
    b = b
    buy = buy
    sell = sell
    ours = ours
    theirs = theirs
    NoSignature = NoSignature
    OurKeyHash = ours
    Ids <- MCIds
    Bodies <- MCBodies
    KeyHashes <- MCKeyHashes
    Issued <- MCIssued
    Wire <- MCWire
    Workers = {w1, w2}
    MaxAge = 1
    Skew = 1
    MaxTime = 4
    MaxCalls = 4
    MaxSessions = 0
INVARIANT ReplayMeansPlaced
CHECK_DEADLOCK FALSE
